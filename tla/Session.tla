------------------------------- MODULE Session -------------------------------
(***************************************************************************)
(* The part of a NapCat WebSocket session that everything else in Gateway  *)
(* shares (gateway-go/main.go): the socket, the done channel that ends the *)
(* session, the bounded sendQueue and the write loop that drains it. The   *)
(* modules that extend this one add the goroutines that fill the queue and *)
(* say what an entry of the queue is.                                      *)
(***************************************************************************)
EXTENDS Naturals, Sequences

CONSTANTS
    Sessions,   \* slots for sessions
    QueueCap    \* capacity of a session's sendQueue

ASSUME SessionAssumption == QueueCap \in Nat \ {0}

VARIABLES
    conn,     \* "up", "done" (done closed, socket not yet) or "closed"
    queue,    \* the session's sendQueue
    writer,   \* where the write loop is
    inHand    \* the entry being written: <<>> or <<entry>>

sessionVars == <<conn, queue, writer, inHand>>

SessionTypeOK(Entry) ==
    /\ conn \in [Sessions -> {"up", "done", "closed"}]
    /\ queue \in [Sessions -> Seq(Entry)]
    /\ writer \in [Sessions -> {"selecting", "writing", "returning", "stopped"}]
    /\ inHand \in [Sessions -> Seq(Entry)]

SessionInit ==
    /\ conn = [s \in Sessions |-> "closed"]
    /\ queue = [s \in Sessions |-> <<>>]
    /\ writer = [s \in Sessions |-> "stopped"]
    /\ inHand = [s \in Sessions |-> <<>>]

Done(s) == conn[s] # "up"
Full(s) == Len(queue[s]) >= QueueCap

-----------------------------------------------------------------------------
\* Upgrade, make(chan outboundAction, 100), make(chan struct{}), go writeLoop.
Open(s) ==
    /\ conn[s] = "closed" /\ writer[s] = "stopped"
    /\ conn' = [conn EXCEPT ![s] = "up"]
    /\ queue' = [queue EXCEPT ![s] = <<>>]
    /\ writer' = [writer EXCEPT ![s] = "selecting"]
    /\ UNCHANGED inHand

\* closeSession runs once, closes done first and the socket second.
CloseDone(s) == conn' = [conn EXCEPT ![s] = IF @ = "up" THEN "done" ELSE @]

CloseSocket(s) ==
    /\ conn[s] = "done"
    /\ conn' = [conn EXCEPT ![s] = "closed"]
    /\ UNCHANGED <<queue, writer, inHand>>

\* sendQueue <- entry
Put(s, entry) ==
    /\ ~Full(s)
    /\ queue' = [queue EXCEPT ![s] = Append(@, entry)]
    /\ UNCHANGED <<conn, writer, inHand>>

\* select may choose the queue although done is closed as well.
Take(s) ==
    /\ writer[s] = "selecting" /\ queue[s] # <<>>
    /\ inHand' = [inHand EXCEPT ![s] = <<Head(queue[s])>>]
    /\ queue' = [queue EXCEPT ![s] = Tail(@)]
    /\ writer' = [writer EXCEPT ![s] = "writing"]
    /\ UNCHANGED conn

\* A write can still succeed between close(done) and the close of the socket.
Write(s) ==
    /\ writer[s] = "writing" /\ conn[s] # "closed"
    /\ inHand' = [inHand EXCEPT ![s] = <<>>]
    /\ writer' = [writer EXCEPT ![s] = "selecting"]
    /\ UNCHANGED <<conn, queue>>

\* SetWriteDeadline or WriteJSON fails; the loop returns.
FailWrite(s) ==
    /\ writer[s] = "writing"
    /\ inHand' = [inHand EXCEPT ![s] = <<>>]
    /\ writer' = [writer EXCEPT ![s] = "returning"]
    /\ UNCHANGED <<conn, queue>>

SeeDone(s) ==
    /\ writer[s] = "selecting" /\ Done(s)
    /\ writer' = [writer EXCEPT ![s] = "returning"]
    /\ UNCHANGED <<conn, queue, inHand>>

\* Mutant of Return: the loop ends without closing the session.
ReturnOpen(s) ==
    /\ writer[s] = "returning"
    /\ writer' = [writer EXCEPT ![s] = "stopped"]
    /\ UNCHANGED <<conn, queue, inHand>>

\* The deferred closeSession of the write loop.
Return(s) ==
    /\ writer[s] = "returning"
    /\ CloseDone(s)
    /\ writer' = [writer EXCEPT ![s] = "stopped"]
    /\ UNCHANGED <<queue, inHand>>

=============================================================================
