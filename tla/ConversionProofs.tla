-------------------------- MODULE ConversionProofs --------------------------
(***************************************************************************)
(* Theorems about what the Gateway makes of a reply of Brain, for replies  *)
(* of any items, nested to any depth, and any number of exchanges.         *)
(***************************************************************************)
EXTENDS ExchangePromise, ChatProofs

(* Numbers and sequences.                                                  *)

LEMMA MinIsSmallest ==
    ASSUME NEW S \in SUBSET Nat, S # {}
    PROVE  Min(S) \in S /\ \A m \in S : Min(S) <= m
  BY Smallest DEF Min

LEMMA SetInduction ==
    ASSUME NEW S \in SUBSET Nat, 0 \in S, \A n \in S : n + 1 \in S
    PROVE  Nat \subseteq S
  <1>1. SUFFICES ASSUME Nat \ S # {}
                 PROVE  FALSE
    OBVIOUS
  <1>2. PICK n \in Nat \ S : \A m \in Nat \ S : n <= m
    BY <1>1, Smallest
  <1>3. n # 0 /\ n - 1 \in Nat
    BY <1>2
  <1>4. n - 1 \in S
    BY <1>2, <1>3
  <1>5. (n - 1) + 1 \in S
    BY <1>4
  <1>6. QED
    BY <1>2, <1>3, <1>5

-----------------------------------------------------------------------------
(* Items hold items of a smaller depth.                                    *)

LEMMA DepthType == \A item \in Items : Depth[item] \in Nat /\ Depth[item] <= Deepest
  BY ItemsAssumption

LEMMA ItemInduction ==
    ASSUME NEW S, \A item \in Items : Below(item) \subseteq S => item \in S
    PROVE  Items \subseteq S
  <1>1. SUFFICES ASSUME NEW item \in Items \ S
                 PROVE  FALSE
    OBVIOUS
  <1> DEFINE D == {Depth[i] : i \in Items \ S}
  <1>2. D \in SUBSET Nat /\ D # {}
    BY <1>1, DepthType
  <1>3. PICK d \in D : \A e \in D : d <= e
    BY <1>2, Smallest
  <1>4. PICK i \in Items \ S : d = Depth[i]
    BY <1>3
  <1>5. \A j \in Below(i) : j \in Items /\ Depth[j] < Depth[i] /\ Depth[j] \in Nat /\ Depth[i] \in Nat
    BY <1>4, DepthType DEF Below
  <1>6. \A j \in Below(i) : j \in S
    BY <1>3, <1>4, <1>5
  <1>7. QED
    BY <1>4, <1>6

LEMMA NestedAtType ==
    ASSUME NEW item \in Items, NEW keys, DOMAIN keys \in SUBSET Nat
    PROVE  NestedAt(item, keys) \in Seq(Below(item))
  <1> DEFINE there == {k \in DOMAIN keys : keys[k] \in DOMAIN item.data /\ item.data[keys[k]].items # <<>>}
  <1>1. CASE there = {}
    BY <1>1 DEF NestedAt
  <1>2. CASE there # {}
    <2>1. there \in SUBSET Nat
      OBVIOUS
    <2>2. Min(there) \in there
      BY <1>2, <2>1, MinIsSmallest
    <2>3. Nested(item.data[keys[Min(there)]].items) \in Seq(Below(item))
      BY <2>2, ItemsAssumption
    <2>4. QED
      BY <1>2, <2>3 DEF NestedAt
  <1>3. QED
    BY <1>1, <1>2

LEMMA InsideType ==
    ASSUME NEW item \in Items
    PROVE  /\ Inside(item) \in Seq(Below(item)) /\ Inside(item) \in Seq(Items)
           /\ \A k \in DOMAIN Inside(item) :
                Inside(item)[k] \in Items /\ Depth[Inside(item)[k]] < Depth[item]
  <1>1. Inside(item) \in Seq(Below(item))
    <2>1. DOMAIN <<"messages">> \in SUBSET Nat
      OBVIOUS
    <2>2. QED
      BY <2>1, NestedAtType DEF Inside
  <1>2. Below(item) \subseteq Items
    BY DEF Below
  <1>3. QED
    BY <1>1, <1>2 DEF Below

-----------------------------------------------------------------------------
(* The recursive definitions have a value, and obey their equations.       *)

\* One more round of each.
Convert1(f) == [item \in Items |-> SegmentOf(item, [k \in DOMAIN Inside(item) |-> f[Inside(item)[k]]])]

\* f is as its next round on items up to depth n.
LEMMA ConversionGrows ==
    ASSUME NEW n \in Nat, NEW f, \A item \in Items : Depth[item] < n => f[item] = Convert1(f)[item]
    PROVE  \A item \in Items : Depth[item] < n + 1 => Convert1(f)[item] = Convert1(Convert1(f))[item]
  <1>1. SUFFICES ASSUME NEW item \in Items, Depth[item] < n + 1
                 PROVE  Convert1(f)[item] = Convert1(Convert1(f))[item]
    OBVIOUS
  <1> DEFINE g == Convert1(f)
  <1>2. \A k \in DOMAIN Inside(item) : f[Inside(item)[k]] = g[Inside(item)[k]]
    BY <1>1, InsideType, DepthType
  <1> HIDE DEF g
  <1>3. [k \in DOMAIN Inside(item) |-> f[Inside(item)[k]]] = [k \in DOMAIN Inside(item) |-> g[Inside(item)[k]]]
    BY <1>2
  <1>4. Convert1(f)[item] = Convert1(g)[item]
    BY <1>3 DEF Convert1
  <1>5. QED
    BY <1>4 DEF g

LEMMA ToSegmentUnfolds == ToSegment = Convert1(ToSegment)
  <1> DEFINE Agrees(f, n) == \A item \in Items : Depth[item] < n => f[item] = Convert1(f)[item]
             S == {n \in Nat : \E f : Agrees(f, n)}
  <1>1. 0 \in S
    BY DepthType
  <1>2. ASSUME NEW n \in S
        PROVE  n + 1 \in S
    <2>1. PICK f : Agrees(f, n)
      OBVIOUS
    <2>2. Agrees(Convert1(f), n + 1)
      BY <2>1, ConversionGrows
    <2>3. QED
      BY <2>2
  <1>3. Deepest + 1 \in S
    <2> HIDE DEF S
    <2>1. S \in SUBSET Nat
      BY DEF S
    <2>2. QED
      BY <1>1, <1>2, <2>1, SetInduction, ItemsAssumption
  <1>4. PICK f : Agrees(f, Deepest + 1)
    BY <1>3
  <1>5. \A item \in Items : f[item] = Convert1(f)[item]
    BY <1>4, DepthType, ItemsAssumption
  <1>6. Convert1(f) = Convert1(Convert1(f))
    BY <1>5, InsideType DEF Convert1
  <1>7. \E g : g = Convert1(g)
    BY <1>6
  <1>8. QED
    BY <1>7 DEF ToSegment, Convert1

Complete1(f) ==
    [item \in Items |-> IsComplete(item, Inside(item) # <<>> /\ \A k \in DOMAIN Inside(item) : f[Inside(item)[k]])]

LEMMA CompletionGrows ==
    ASSUME NEW n \in Nat, NEW f, \A item \in Items : Depth[item] < n => f[item] = Complete1(f)[item]
    PROVE  \A item \in Items : Depth[item] < n + 1 => Complete1(f)[item] = Complete1(Complete1(f))[item]
  <1>1. SUFFICES ASSUME NEW item \in Items, Depth[item] < n + 1
                 PROVE  Complete1(f)[item] = Complete1(Complete1(f))[item]
    OBVIOUS
  <1> DEFINE g == Complete1(f)
  <1>2. \A k \in DOMAIN Inside(item) : f[Inside(item)[k]] = g[Inside(item)[k]]
    BY <1>1, InsideType, DepthType
  <1> HIDE DEF g
  <1>3. (\A k \in DOMAIN Inside(item) : f[Inside(item)[k]]) <=> (\A k \in DOMAIN Inside(item) : g[Inside(item)[k]])
    BY <1>2
  <1>4. Complete1(f)[item] = Complete1(g)[item]
    BY <1>3 DEF Complete1
  <1>5. QED
    BY <1>4 DEF g

LEMMA CompleteUnfolds == Complete = Complete1(Complete)
  <1> DEFINE Agrees(f, n) == \A item \in Items : Depth[item] < n => f[item] = Complete1(f)[item]
             S == {n \in Nat : \E f : Agrees(f, n)}
  <1>1. 0 \in S
    BY DepthType
  <1>2. ASSUME NEW n \in S
        PROVE  n + 1 \in S
    <2>1. PICK f : Agrees(f, n)
      OBVIOUS
    <2>2. Agrees(Complete1(f), n + 1)
      BY <2>1, CompletionGrows
    <2>3. QED
      BY <2>2
  <1>3. Deepest + 1 \in S
    <2> HIDE DEF S
    <2>1. S \in SUBSET Nat
      BY DEF S
    <2>2. QED
      BY <1>1, <1>2, <2>1, SetInduction, ItemsAssumption
  <1>4. PICK f : Agrees(f, Deepest + 1)
    BY <1>3
  <1>5. \A item \in Items : f[item] = Complete1(f)[item]
    BY <1>4, DepthType, ItemsAssumption
  <1>6. Complete1(f) = Complete1(Complete1(f))
    <2>1. \A item \in Items : Complete1(f)[item] = Complete1(Complete1(f))[item]
      BY <1>4, CompletionGrows, DepthType, ItemsAssumption
    <2>2. QED
      BY <2>1 DEF Complete1
  <1>7. \E g : g = Complete1(g)
    BY <1>6
  <1>8. QED
    BY <1>7 DEF Complete, Complete1

Bare1(f) ==
    [item \in Items |->
        /\ item.type = "node" /\ ~IsReference(item)
        /\ \/ item.data = <<>> /\ item.text # ""
           \/ \E k \in DOMAIN Inside(item) : f[Inside(item)[k]]]

LEMMA BarenessGrows ==
    ASSUME NEW n \in Nat, NEW f, \A item \in Items : Depth[item] < n => f[item] = Bare1(f)[item]
    PROVE  \A item \in Items : Depth[item] < n + 1 => Bare1(f)[item] = Bare1(Bare1(f))[item]
  <1>1. SUFFICES ASSUME NEW item \in Items, Depth[item] < n + 1
                 PROVE  Bare1(f)[item] = Bare1(Bare1(f))[item]
    OBVIOUS
  <1> DEFINE g == Bare1(f)
  <1>2. \A k \in DOMAIN Inside(item) : f[Inside(item)[k]] = g[Inside(item)[k]]
    BY <1>1, InsideType, DepthType
  <1> HIDE DEF g
  <1>3. (\E k \in DOMAIN Inside(item) : f[Inside(item)[k]]) <=> (\E k \in DOMAIN Inside(item) : g[Inside(item)[k]])
    BY <1>2
  <1>4. Bare1(f)[item] = Bare1(g)[item]
    BY <1>3 DEF Bare1
  <1>5. QED
    BY <1>4 DEF g

LEMMA BareUnfolds == Bare = Bare1(Bare)
  <1> DEFINE Agrees(f, n) == \A item \in Items : Depth[item] < n => f[item] = Bare1(f)[item]
             S == {n \in Nat : \E f : Agrees(f, n)}
  <1>1. 0 \in S
    BY DepthType
  <1>2. ASSUME NEW n \in S
        PROVE  n + 1 \in S
    <2>1. PICK f : Agrees(f, n)
      OBVIOUS
    <2>2. Agrees(Bare1(f), n + 1)
      BY <2>1, BarenessGrows
    <2>3. QED
      BY <2>2
  <1>3. Deepest + 1 \in S
    <2> HIDE DEF S
    <2>1. S \in SUBSET Nat
      BY DEF S
    <2>2. QED
      BY <1>1, <1>2, <2>1, SetInduction, ItemsAssumption
  <1>4. PICK f : Agrees(f, Deepest + 1)
    BY <1>3
  <1>5. \A item \in Items : f[item] = Bare1(f)[item]
    BY <1>4, DepthType, ItemsAssumption
  <1>6. Bare1(f) = Bare1(Bare1(f))
    BY <1>5, InsideType DEF Bare1
  <1>7. \E g : g = Bare1(g)
    BY <1>6
  <1>8. QED
    BY <1>7 DEF Bare, Bare1

Showing1(f) ==
    [item \in Items |->
        LET showing == [k \in DOMAIN Inside(item) |-> f[Inside(item)[k]]]
        IN  {segment \in Made : IsShown(segment, item, showing)}]

LEMMA ShowGrows ==
    ASSUME NEW n \in Nat, NEW f, \A item \in Items : Depth[item] < n => f[item] = Showing1(f)[item]
    PROVE  \A item \in Items : Depth[item] < n + 1 => Showing1(f)[item] = Showing1(Showing1(f))[item]
  <1>1. SUFFICES ASSUME NEW item \in Items, Depth[item] < n + 1
                 PROVE  Showing1(f)[item] = Showing1(Showing1(f))[item]
    OBVIOUS
  <1> DEFINE g == Showing1(f)
  <1>2. \A k \in DOMAIN Inside(item) : f[Inside(item)[k]] = g[Inside(item)[k]]
    BY <1>1, InsideType, DepthType
  <1> HIDE DEF g
  <1>3. [k \in DOMAIN Inside(item) |-> f[Inside(item)[k]]] = [k \in DOMAIN Inside(item) |-> g[Inside(item)[k]]]
    BY <1>2
  <1>4. Showing1(f)[item] = Showing1(g)[item]
    BY <1>3 DEF Showing1
  <1>5. QED
    BY <1>4 DEF g

LEMMA ShowingUnfolds == Showing = Showing1(Showing)
  <1> DEFINE Agrees(f, n) == \A item \in Items : Depth[item] < n => f[item] = Showing1(f)[item]
             S == {n \in Nat : \E f : Agrees(f, n)}
  <1>1. 0 \in S
    BY DepthType
  <1>2. ASSUME NEW n \in S
        PROVE  n + 1 \in S
    <2>1. PICK f : Agrees(f, n)
      OBVIOUS
    <2>2. Agrees(Showing1(f), n + 1)
      BY <2>1, ShowGrows
    <2>3. QED
      BY <2>2
  <1>3. Deepest + 1 \in S
    <2> HIDE DEF S
    <2>1. S \in SUBSET Nat
      BY DEF S
    <2>2. QED
      BY <1>1, <1>2, <2>1, SetInduction, ItemsAssumption
  <1>4. PICK f : Agrees(f, Deepest + 1)
    BY <1>3
  <1>5. \A item \in Items : f[item] = Showing1(f)[item]
    BY <1>4, DepthType, ItemsAssumption
  <1>6. Showing1(f) = Showing1(Showing1(f))
    BY <1>5, InsideType DEF Showing1
  <1>7. \E g : g = Showing1(g)
    BY <1>6
  <1>8. QED
    BY <1>7 DEF Showing, Showing1

\* The same, item by item.
PartsInside(item) == [k \in DOMAIN Inside(item) |-> ToSegment[Inside(item)[k]]]
ShowingInside(item) == [k \in DOMAIN Inside(item) |-> Showing[Inside(item)[k]]]

LEMMA ItemEquations ==
    ASSUME NEW item \in Items
    PROVE  /\ ToSegment[item] = SegmentOf(item, PartsInside(item))
           /\ Complete[item] <=> IsComplete(item, Whole(item))
           /\ Bare[item] <=> /\ item.type = "node" /\ ~IsReference(item)
                             /\ \/ item.data = <<>> /\ item.text # ""
                                \/ \E k \in DOMAIN Inside(item) : Bare[Inside(item)[k]]
           /\ Showing[item] = {segment \in Made : IsShown(segment, item, ShowingInside(item))}
  <1>1. ToSegment[item] = SegmentOf(item, PartsInside(item))
    BY ToSegmentUnfolds DEF Convert1, PartsInside
  <1>2. Complete[item] <=> IsComplete(item, Whole(item))
    BY CompleteUnfolds, Zenon DEF Complete1, Whole
  <1>3. Bare[item] <=> /\ item.type = "node" /\ ~IsReference(item)
                       /\ \/ item.data = <<>> /\ item.text # ""
                          \/ \E k \in DOMAIN Inside(item) : Bare[Inside(item)[k]]
    BY BareUnfolds, Zenon DEF Bare1
  <1>4. Showing[item] = {segment \in Made : IsShown(segment, item, ShowingInside(item))}
    BY ShowingUnfolds DEF Showing1, ShowingInside
  <1>5. QED
    BY <1>1, <1>2, <1>3, <1>4

-----------------------------------------------------------------------------
(* Lookups.                                                                *)

LEMMA ValueFinds ==
    ASSUME NEW item, NEW keys, DOMAIN keys \in SUBSET Nat
    PROVE  \/ Value(item, keys) = <<>> /\ \A k \in DOMAIN keys : keys[k] \notin DOMAIN item.data
           \/ \E k \in DOMAIN keys :
                keys[k] \in DOMAIN item.data /\ Value(item, keys) = <<item.data[keys[k]]>>
  <1> DEFINE there == {k \in DOMAIN keys : keys[k] \in DOMAIN item.data}
  <1>1. CASE there = {}
    BY <1>1 DEF Value
  <1>2. CASE there # {}
    <2>1. Min(there) \in there
      BY <1>2, MinIsSmallest
    <2>2. QED
      BY <1>2, <2>1 DEF Value
  <1>3. QED
    BY <1>1, <1>2

LEMMA StringValueFinds ==
    ASSUME NEW item, NEW keys, DOMAIN keys \in SUBSET Nat
    PROVE  StringValue(item, keys) # ""
               <=> \E k \in DOMAIN keys : keys[k] \in DOMAIN item.data /\ item.data[keys[k]].text # ""
  <1> DEFINE there == {k \in DOMAIN keys : keys[k] \in DOMAIN item.data /\ item.data[keys[k]].text # ""}
  <1>1. CASE there = {}
    BY <1>1 DEF StringValue
  <1>2. CASE there # {}
    <2>1. Min(there) \in there
      BY <1>2, MinIsSmallest
    <2>2. QED
      BY <1>2, <2>1 DEF StringValue
  <1>3. QED
    BY <1>1, <1>2

KeySet(keys) == {keys[k] : k \in DOMAIN keys}

LEMMA HasFinds ==
    ASSUME NEW item, NEW keys, DOMAIN keys \in SUBSET Nat
    PROVE  /\ Has(item, KeySet(keys)) <=> StringValue(item, keys) # ""
           /\ Has(item, KeySet(keys)) => Value(item, keys) # <<>>
  <1>1. Has(item, KeySet(keys)) <=> StringValue(item, keys) # ""
    BY StringValueFinds DEF Has, KeySet
  <1>2. Has(item, KeySet(keys)) => Value(item, keys) # <<>>
    <2>1. SUFFICES ASSUME Has(item, KeySet(keys)), Value(item, keys) = <<>>
                   PROVE  FALSE
      OBVIOUS
    <2>2. PICK k \in DOMAIN keys : keys[k] \in DOMAIN item.data
      BY <2>1 DEF Has, KeySet
    <2>3. PICK j \in DOMAIN keys : Value(item, keys) = <<item.data[keys[j]]>>
      BY <2>2, ValueFinds
    <2>4. QED
      BY <2>1, <2>3
  <1>3. QED
    BY <1>1, <1>2

\* What the item table asks for is what the lookups find.
LEMMA LookupsFind ==
    ASSUME NEW item
    PROVE  /\ Has(item, {"text", "content"}) <=> StringValue(item, <<"text", "content">>) # ""
           /\ Has(item, {"file", "url", "path"}) <=> StringValue(item, <<"file", "url", "path">>) # ""
           /\ Has(item, {"id", "message_id"}) <=> StringValue(item, <<"id", "message_id">>) # ""
           /\ Has(item, {"qq", "user_id"}) <=> StringValue(item, <<"qq", "user_id">>) # ""
           /\ Has(item, {"data", "content", "text"})
                <=> StringValue(item, <<"data", "content", "text">>) # ""
           /\ Has(item, {"id"}) <=> StringValue(item, <<"id">>) # ""
           /\ Has(item, {"content", "message"}) => Value(item, <<"content", "message">>) # <<>>
  <1>1. Has(item, {"text", "content"}) <=> StringValue(item, <<"text", "content">>) # ""
    <2>1. DOMAIN <<"text", "content">> \in SUBSET Nat /\ KeySet(<<"text", "content">>) = {"text", "content"}
      BY DEF KeySet
    <2>2. QED
      BY <2>1, HasFinds
  <1>2. Has(item, {"file", "url", "path"}) <=> StringValue(item, <<"file", "url", "path">>) # ""
    <2>1. DOMAIN <<"file", "url", "path">> \in SUBSET Nat /\ KeySet(<<"file", "url", "path">>) = {"file", "url", "path"}
      BY DEF KeySet
    <2>2. QED
      BY <2>1, HasFinds
  <1>3. Has(item, {"id", "message_id"}) <=> StringValue(item, <<"id", "message_id">>) # ""
    <2>1. DOMAIN <<"id", "message_id">> \in SUBSET Nat /\ KeySet(<<"id", "message_id">>) = {"id", "message_id"}
      BY DEF KeySet
    <2>2. QED
      BY <2>1, HasFinds
  <1>4. Has(item, {"qq", "user_id"}) <=> StringValue(item, <<"qq", "user_id">>) # ""
    <2>1. DOMAIN <<"qq", "user_id">> \in SUBSET Nat /\ KeySet(<<"qq", "user_id">>) = {"qq", "user_id"}
      BY DEF KeySet
    <2>2. QED
      BY <2>1, HasFinds
  <1>5. Has(item, {"data", "content", "text"}) <=> StringValue(item, <<"data", "content", "text">>) # ""
    <2>1. DOMAIN <<"data", "content", "text">> \in SUBSET Nat /\ KeySet(<<"data", "content", "text">>) = {"data", "content", "text"}
      BY DEF KeySet
    <2>2. QED
      BY <2>1, HasFinds
  <1>6. Has(item, {"id"}) <=> StringValue(item, <<"id">>) # ""
    <2>1. DOMAIN <<"id">> \in SUBSET Nat /\ KeySet(<<"id">>) = {"id"}
      BY DEF KeySet
    <2>2. QED
      BY <2>1, HasFinds
  <1>7. Has(item, {"content", "message"}) => Value(item, <<"content", "message">>) # <<>>
    <2>1. DOMAIN <<"content", "message">> \in SUBSET Nat /\ KeySet(<<"content", "message">>) = {"content", "message"}
      BY DEF KeySet
    <2>2. QED
      BY <2>1, HasFinds
  <1>8. QED
    BY <1>1, <1>2, <1>3, <1>4, <1>5, <1>6, <1>7

\* Data without keys holds nothing.
LEMMA NothingInside ==
    ASSUME NEW item, item.data = <<>>
    PROVE  /\ Inside(item) = <<>> /\ Value(item, <<"content", "message">>) = <<>>
           /\ StringValue(item, <<"text", "content">>) = "" /\ ~IsReference(item)
  <1>1. DOMAIN item.data = {}
    OBVIOUS
  <1>2. Inside(item) = <<>>
    BY <1>1 DEF Inside, NestedAt
  <1>3. Value(item, <<"content", "message">>) = <<>>
    BY <1>1 DEF Value
  <1>4. StringValue(item, <<"text", "content">>) = "" /\ ~IsReference(item)
    BY <1>1 DEF StringValue, IsReference
  <1>5. QED
    BY <1>2, <1>3, <1>4

\* A loop over items ends early or takes them all.
LEMMA InTurnCases ==
    ASSUME NEW parts, DOMAIN parts \in SUBSET Nat
    PROVE  \/ \E k \in DOMAIN parts : parts[k] \in {Refused, Panics} /\ InTurn(parts) = parts[k]
           \/ /\ \A k \in DOMAIN parts : parts[k] \notin {Refused, Panics}
              /\ InTurn(parts) = [k \in DOMAIN parts |-> Head(parts[k])]
  <1> DEFINE bad == {k \in DOMAIN parts : parts[k] \in {Refused, Panics}}
  <1>1. CASE bad = {}
    BY <1>1 DEF InTurn
  <1>2. CASE bad # {}
    <2>1. Min(bad) \in bad
      BY <1>2, MinIsSmallest
    <2>2. InTurn(parts) = parts[Min(bad)]
      BY <1>2 DEF InTurn
    <2>3. QED
      BY <2>1, <2>2
  <1>3. QED
    BY <1>1, <1>2

-----------------------------------------------------------------------------
(* An item becomes one segment, or none, or the end of the process.        *)

ItemTypes == Media \cup Structured \cup
    {"text", "reply", "at", "face", "dice", "rps", "music", "contact", "poke", "mface", "node"}

LEMMA SegmentOfEach ==
    ASSUME NEW item, NEW parts
    PROVE  /\ item.type = "text" => SegmentOf(item, parts) = TextSegment("text", "text", TextValue(item))
           /\ item.type \in Media =>
                SegmentOf(item, parts) = FileSegment(item, IF item.type = "audio" THEN "record" ELSE item.type)
           /\ item.type = "reply" => SegmentOf(item, parts) = ReplySegment(item)
           /\ item.type = "at" =>
                SegmentOf(item, parts) = TextSegment("at", "qq", StringValue(item, <<"qq", "user_id">>))
           /\ item.type = "face" =>
                SegmentOf(item, parts) = IF "id" \in DOMAIN item.data
                                         THEN Segment("face", Only(item.data, {"id"})) ELSE Refused
           /\ item.type \in Structured =>
                SegmentOf(item, parts) =
                    TextSegment(item.type, "data", StringValue(item, <<"data", "content", "text">>))
           /\ item.type \in {"dice", "rps"} => SegmentOf(item, parts) = Segment(item.type, item.data)
           /\ item.type \in {"music", "contact", "poke", "mface"} =>
                SegmentOf(item, parts) = IF item.data = <<>> THEN Refused ELSE Segment(item.type, item.data)
           /\ item.type = "node" => SegmentOf(item, parts) = NodeSegment(item, InTurn(parts))
           /\ item.type \notin ItemTypes => SegmentOf(item, parts) = Refused
  <1>1. CASE item.type = "text"
    BY <1>1 DEF SegmentOf, ItemTypes, Media, Structured
  <1>2. CASE item.type \in Media
    BY <1>2 DEF SegmentOf, ItemTypes, Media, Structured
  <1>3. CASE item.type = "reply"
    BY <1>3 DEF SegmentOf, ItemTypes, Media, Structured
  <1>4. CASE item.type = "at"
    BY <1>4 DEF SegmentOf, ItemTypes, Media, Structured
  <1>5. CASE item.type = "face"
    BY <1>5 DEF SegmentOf, ItemTypes, Media, Structured
  <1>6. CASE item.type \in Structured
    BY <1>6 DEF SegmentOf, ItemTypes, Media, Structured
  <1>7. CASE item.type \in {"dice", "rps"}
    BY <1>7 DEF SegmentOf, ItemTypes, Media, Structured
  <1>8. CASE item.type \in {"music", "contact", "poke", "mface"}
    BY <1>8 DEF SegmentOf, ItemTypes, Media, Structured
  <1>9. CASE item.type = "node"
    BY <1>9 DEF SegmentOf, ItemTypes, Media, Structured
  <1>10. CASE item.type \notin ItemTypes
    BY <1>10 DEF SegmentOf, ItemTypes, Media, Structured
  <1>11. QED
    BY <1>1, <1>2, <1>3, <1>4, <1>5, <1>6, <1>7, <1>8, <1>9, <1>10 DEF ItemTypes

LEMMA SegmentIsOne ==
    ASSUME NEW type, NEW data
    PROVE  /\ Segment(type, data) # Refused /\ Segment(type, data) = <<Head(Segment(type, data))>>
           /\ Head(Segment(type, data)) = [type |-> type, data |-> data]
           /\ type # "panic" => Segment(type, data) # Panics
  BY DEF Segment, Refused, Panics

LEMMA PanicIsOne == Panics # Refused /\ Panics = <<Head(Panics)>>
  BY SegmentIsOne DEF Panics

IsOne(segments) == segments \notin {Refused, Panics} /\ segments = <<Head(segments)>>

LEMMA SegmentKinds ==
    ASSUME NEW item
    PROVE  /\ \A type, data : type # "panic" => IsOne(Segment(type, data))
           /\ \A type, key, text : \E data : TextSegment(type, key, text) \in {Refused, Segment(type, data)}
           /\ \A type : \E data : FileSegment(item, type) \in {Refused, Segment(type, data)}
           /\ \E data : ReplySegment(item) \in {Refused, Segment("reply", data)}
           /\ \A segments : \E data : NodeSegment(item, segments) \in {Refused, Panics, Segment("node", data)}
  <1>1. \A type, data : type # "panic" => IsOne(Segment(type, data))
    BY SegmentIsOne DEF IsOne
  <1>2. \A type, key, text : \E data : TextSegment(type, key, text) \in {Refused, Segment(type, data)}
    BY DEF TextSegment
  <1>3. \A type : \E data : FileSegment(item, type) \in {Refused, Segment(type, data)}
    BY DEF FileSegment
  <1>4. \E data : ReplySegment(item) \in {Refused, Segment("reply", data)}
    BY DEF ReplySegment
  <1>5. \A segments : \E data : NodeSegment(item, segments) \in {Refused, Panics, Segment("node", data)}
    BY DEF NodeSegment
  <1>6. QED
    BY <1>1, <1>2, <1>3, <1>4, <1>5

LEMMA OneSegment ==
    ASSUME NEW item, NEW parts
    PROVE  \/ SegmentOf(item, parts) = Refused
           \/ SegmentOf(item, parts) = Panics /\ item.type = "node"
           \/ IsOne(SegmentOf(item, parts))
  <1>1. CASE item.type = "node"
    <2>1. SegmentOf(item, parts) = NodeSegment(item, InTurn(parts))
      BY <1>1, SegmentOfEach
    <2>2. PICK data : NodeSegment(item, InTurn(parts)) \in {Refused, Panics, Segment("node", data)}
      BY SegmentKinds
    <2>3. IsOne(Segment("node", data))
      BY SegmentKinds
    <2>4. QED
      BY <1>1, <2>1, <2>2, <2>3
  <1>2. CASE item.type = "text"
    BY <1>2, SegmentOfEach, SegmentKinds
  <1>3. CASE item.type \in Media
    <2> DEFINE type == IF item.type = "audio" THEN "record" ELSE item.type
    <2>1. type # "panic"
      BY <1>3 DEF Media
    <2>2. SegmentOf(item, parts) = FileSegment(item, type)
      BY <1>3, SegmentOfEach
    <2> HIDE DEF type
    <2>3. PICK data : FileSegment(item, type) \in {Refused, Segment(type, data)}
      BY SegmentKinds
    <2>4. IsOne(Segment(type, data))
      BY <2>1, SegmentKinds
    <2>5. QED
      BY <2>2, <2>3, <2>4
  <1>4. CASE item.type = "reply"
    BY <1>4, SegmentOfEach, SegmentKinds
  <1>5. CASE item.type = "at"
    BY <1>5, SegmentOfEach, SegmentKinds
  <1>6. CASE item.type = "face"
    BY <1>6, SegmentOfEach, SegmentKinds
  <1>7. CASE item.type \in Structured
    <2>1. item.type # "panic"
      BY <1>7 DEF Structured
    <2>2. QED
      BY <1>7, <2>1, SegmentOfEach, SegmentKinds
  <1>8. CASE item.type \in {"dice", "rps"}
    BY <1>8, SegmentOfEach, SegmentKinds
  <1>9. CASE item.type \in {"music", "contact", "poke", "mface"}
    BY <1>9, SegmentOfEach, SegmentKinds
  <1>10. CASE item.type \notin ItemTypes
    BY <1>10, SegmentOfEach
  <1>11. QED
    BY <1>1, <1>2, <1>3, <1>4, <1>5, <1>6, <1>7, <1>8, <1>9, <1>10 DEF ItemTypes

\* What an item becomes.
LEMMA ConvertedIsOne ==
    ASSUME NEW item \in Items
    PROVE  \/ ToSegment[item] = Refused
           \/ ToSegment[item] = Panics /\ item.type = "node"
           \/ IsOne(ToSegment[item]) /\ Head(ToSegment[item]) \in Made
  <1>1. ToSegment[item] \notin {Refused, Panics} => Head(ToSegment[item]) \in Made
    BY DEF Made
  <1>2. ToSegment[item] = SegmentOf(item, PartsInside(item))
    BY ItemEquations
  <1>3. QED
    BY <1>1, <1>2, OneSegment DEF IsOne

LEMMA InTurnResult ==
    ASSUME NEW n \in Nat, NEW parts, DOMAIN parts = 1..n,
           \A k \in 1..n : parts[k] \in {Refused, Panics} \/ IsOne(parts[k])
    PROVE  /\ InTurn(parts) = Panics => \E k \in 1..n : parts[k] = Panics
           /\ InTurn(parts) = Refused => n = 0 \/ \E k \in 1..n : parts[k] = Refused
           /\ InTurn(parts) \notin {Refused, Panics} =>
                /\ \A k \in 1..n : IsOne(parts[k])
                /\ InTurn(parts) = [k \in 1..n |-> Head(parts[k])]
           /\ n = 0 => InTurn(parts) = Refused
  <1>1. CASE \E k \in 1..n : parts[k] \in {Refused, Panics} /\ InTurn(parts) = parts[k]
    BY <1>1, PanicIsOne
  <1>2. CASE /\ \A k \in 1..n : parts[k] \notin {Refused, Panics}
             /\ InTurn(parts) = [k \in 1..n |-> Head(parts[k])]
    <2>1. n = 0 => InTurn(parts) = Refused
      BY <1>2 DEF Refused
    <2>2. ASSUME n # 0
          PROVE  InTurn(parts) # Refused /\ InTurn(parts) # Panics
      <3>1. 1 \in 1..n /\ IsOne(parts[1])
        BY <1>2, <2>2
      <3>2. InTurn(parts)[1] = Head(parts[1]) /\ DOMAIN InTurn(parts) = 1..n
        BY <1>2, <3>1
      <3>3. InTurn(parts) # Refused
        BY <3>1, <3>2 DEF Refused
      <3>4. Head(parts[1]) # Head(Panics)
        BY <3>1, PanicIsOne DEF IsOne
      <3>5. Panics[1] = Head(Panics)
        BY DEF Panics, Segment
      <3>6. QED
        BY <3>2, <3>3, <3>4, <3>5
    <2>3. QED
      BY <1>2, <2>1, <2>2, PanicIsOne
  <1>3. DOMAIN parts \in SUBSET Nat
    OBVIOUS
  <1>4. QED
    BY <1>1, <1>2, <1>3, InTurnCases

LEMMA InsideInTurn ==
    ASSUME NEW item \in Items
    PROVE  /\ InTurn(PartsInside(item)) = Panics =>
                \E k \in DOMAIN Inside(item) : ToSegment[Inside(item)[k]] = Panics
           /\ InTurn(PartsInside(item)) = Refused =>
                Inside(item) = <<>> \/ \E k \in DOMAIN Inside(item) : ToSegment[Inside(item)[k]] = Refused
           /\ InTurn(PartsInside(item)) \notin {Refused, Panics} =>
                /\ \A k \in DOMAIN Inside(item) : IsOne(ToSegment[Inside(item)[k]])
                /\ InTurn(PartsInside(item)) = [k \in DOMAIN Inside(item) |-> Head(ToSegment[Inside(item)[k]])]
           /\ Inside(item) = <<>> => InTurn(PartsInside(item)) = Refused
  <1> DEFINE n == Len(Inside(item))
  <1>1. n \in Nat /\ DOMAIN Inside(item) = 1..n /\ (n = 0 <=> Inside(item) = <<>>)
    BY InsideType
  <1>2. DOMAIN PartsInside(item) = 1..n /\ \A k \in 1..n : PartsInside(item)[k] = ToSegment[Inside(item)[k]]
    BY <1>1 DEF PartsInside
  <1>3. \A k \in 1..n : PartsInside(item)[k] \in {Refused, Panics} \/ IsOne(PartsInside(item)[k])
    BY <1>1, <1>2, InsideType, ConvertedIsOne
  <1> HIDE DEF n
  <1>4. QED
    BY <1>1, <1>2, <1>3, InTurnResult

-----------------------------------------------------------------------------
(* A complete item converts.                                               *)

LEMMA CompleteSegment ==
    ASSUME NEW item, NEW parts, IsComplete(item, Whole(item)),
           Whole(item) => InTurn(parts) # Refused
    PROVE  SegmentOf(item, parts) # Refused
  <1>1. \A type, data : Segment(type, data) # Refused
    BY SegmentIsOne
  <1>2. \A type, key, text : text # "" => TextSegment(type, key, text) # Refused
    BY <1>1 DEF TextSegment
  <1>3. CASE item.type = "text"
    <2>1. TextValue(item) # ""
      BY <1>3, LookupsFind DEF IsComplete, TextValue, Media, Structured
    <2>2. QED
      BY <1>2, <1>3, <2>1, SegmentOfEach
  <1>4. CASE item.type \in Media
    <2>1. FileValue(item) # ""
      BY <1>4, LookupsFind DEF IsComplete, FileValue, Media, Structured
    <2>2. \A type : FileSegment(item, type) # Refused
      BY <1>1, <2>1 DEF FileSegment
    <2>3. QED
      BY <1>4, <2>2, SegmentOfEach
  <1>5. CASE item.type = "reply"
    <2>1. StringValue(item, <<"id", "message_id">>) # ""
      BY <1>5, LookupsFind DEF IsComplete, Media, Structured
    <2>2. ReplySegment(item) # Refused
      BY <1>1, <2>1 DEF ReplySegment
    <2>3. QED
      BY <1>5, <2>2, SegmentOfEach
  <1>6. CASE item.type = "at"
    <2>1. StringValue(item, <<"qq", "user_id">>) # ""
      BY <1>6, LookupsFind DEF IsComplete, Media, Structured
    <2>2. QED
      BY <1>2, <1>6, <2>1, SegmentOfEach
  <1>7. CASE item.type = "face"
    <2>1. "id" \in DOMAIN item.data
      BY <1>7 DEF IsComplete, Has, Media, Structured
    <2>2. QED
      BY <1>1, <1>7, <2>1, SegmentOfEach
  <1>8. CASE item.type \in Structured
    <2>1. StringValue(item, <<"data", "content", "text">>) # ""
      BY <1>8, LookupsFind DEF IsComplete, Media, Structured
    <2>2. QED
      BY <1>2, <1>8, <2>1, SegmentOfEach
  <1>9. CASE item.type \in {"dice", "rps"}
    BY <1>1, <1>9, SegmentOfEach
  <1>10. CASE item.type \in {"music", "contact", "poke", "mface"}
    <2>1. DOMAIN item.data # {}
      BY <1>10 DEF IsComplete, Media, Structured
    <2>2. item.data # <<>>
      BY <2>1
    <2>3. QED
      BY <1>1, <1>10, <2>2, SegmentOfEach
  <1>11. CASE item.type = "node"
    <2> DEFINE segments == InTurn(parts)
    <2>1. Has(item, {"id", "content", "message", "text"}) \/ item.text # "" \/ Whole(item)
      BY <1>11 DEF IsComplete, Media, Structured
    <2>2. Has(item, {"id", "content", "message", "text"}) =>
            \/ Has(item, {"id"}) \/ Has(item, {"content", "message"}) \/ Has(item, {"text", "content"})
      BY DEF Has
    <2>3. \/ StringValue(item, <<"id">>) # "" \/ Value(item, <<"content", "message">>) # <<>>
          \/ TextValue(item) # "" \/ segments # Refused
      BY <2>1, <2>2, LookupsFind DEF TextValue
    <2> HIDE DEF segments
    <2>4. StringValue(item, <<"id">>) = "" => NodeContent(item, segments) # Refused
      BY <2>3 DEF NodeContent, Refused
    <2>5. NodeSegment(item, segments) # Refused
      BY <1>1, <2>4, PanicIsOne DEF NodeSegment
    <2>6. QED
      BY <1>11, <2>5, SegmentOfEach DEF segments
  <1>12. CASE item.type \notin ItemTypes
    BY <1>12 DEF IsComplete, ItemTypes
  <1>13. QED
    BY <1>3, <1>4, <1>5, <1>6, <1>7, <1>8, <1>9, <1>10, <1>11, <1>12 DEF ItemTypes

\* An item that has what the item table asks for, at every depth, is not refused.
LEMMA CompleteItemsConvert == \A item \in Items : Complete[item] => ToSegment[item] # Refused
  <1> DEFINE S == {item \in Items : Complete[item] => ToSegment[item] # Refused}
  <1>1. ASSUME NEW item \in Items, Below(item) \subseteq S, Complete[item]
        PROVE  ToSegment[item] # Refused
    <2>1. IsComplete(item, Whole(item)) /\ ToSegment[item] = SegmentOf(item, PartsInside(item))
      BY <1>1, ItemEquations
    <2>2. ASSUME Whole(item)
          PROVE  InTurn(PartsInside(item)) # Refused
      <3>1. Inside(item) # <<>> /\ \A k \in DOMAIN Inside(item) : Complete[Inside(item)[k]]
        BY <2>2 DEF Whole
      <3>2. \A k \in DOMAIN Inside(item) : Inside(item)[k] \in Below(item)
        BY InsideType
      <3>3. \A k \in DOMAIN Inside(item) : ToSegment[Inside(item)[k]] # Refused
        BY <1>1, <3>1, <3>2
      <3>4. QED
        BY <3>1, <3>3, InsideInTurn
    <2>3. QED
      BY <2>1, <2>2, CompleteSegment
  <1>2. \A item \in Items : Below(item) \subseteq S => item \in S
    BY <1>1
  <1>3. Items \subseteq S
    <2> HIDE DEF S
    <2>1. QED
      BY <1>2, ItemInduction
  <1>4. QED
    BY <1>3

-----------------------------------------------------------------------------
(* The process ends on a bare text.                                        *)

LEMMA PanicsAreBare == \A item \in Items : ToSegment[item] = Panics => Bare[item]
  <1> DEFINE S == {item \in Items : ToSegment[item] = Panics => Bare[item]}
  <1>1. ASSUME NEW item \in Items, Below(item) \subseteq S, ToSegment[item] = Panics
        PROVE  Bare[item]
    <2> DEFINE segments == InTurn(PartsInside(item))
    <2>1. item.type = "node"
      BY <1>1, ConvertedIsOne, PanicIsOne DEF IsOne
    <2>2. NodeSegment(item, segments) = Panics
      BY <1>1, <2>1, ItemEquations, SegmentOfEach
    <2>3. \A data : Segment("node", data) # Panics
      BY SegmentIsOne
    <2> HIDE DEF segments
    <2>4. /\ ~IsReference(item)
          /\ segments = Panics \/ (NodeContent(item, segments) # Refused /\ item.data = <<>>)
      BY <2>2, <2>3, PanicIsOne DEF NodeSegment, IsReference
    <2>5. CASE segments = Panics
      <3>1. PICK k \in DOMAIN Inside(item) : ToSegment[Inside(item)[k]] = Panics
        BY <2>5, InsideInTurn DEF segments
      <3>2. Bare[Inside(item)[k]]
        BY <1>1, <3>1, InsideType
      <3>3. QED
        BY <2>1, <2>4, <3>2, ItemEquations
    <2>6. CASE NodeContent(item, segments) # Refused /\ item.data = <<>>
      <3>1. segments = Refused
        BY <2>6, NothingInside, InsideInTurn DEF segments
      <3>2. TextValue(item) # ""
        BY <2>6, <3>1, NothingInside DEF NodeContent
      <3>3. item.text # ""
        BY <2>6, <3>2, NothingInside DEF TextValue
      <3>4. QED
        BY <2>1, <2>4, <2>6, <3>3, ItemEquations
    <2>7. QED
      BY <2>4, <2>5, <2>6
  <1>2. \A item \in Items : Below(item) \subseteq S => item \in S
    BY <1>1
  <1>3. Items \subseteq S
    <2> HIDE DEF S
    <2>1. QED
      BY <1>2, ItemInduction
  <1>4. QED
    BY <1>3

-----------------------------------------------------------------------------
(* What an item becomes shows it.                                          *)

LEMMA OverHides ==
    ASSUME NEW over, NEW data, NEW key \in DOMAIN over
    PROVE  key \in DOMAIN Over(over, data) /\ Over(over, data)[key] = over[key]
  BY DEF Over

LEMMA SegmentCarries ==
    ASSUME NEW type, NEW data, NEW key \in DOMAIN data, NEW text, data[key] = Lit(text)
    PROVE  Carries(Head(Segment(type, data)), text)
  <1>1. Head(Segment(type, data)) = [type |-> type, data |-> data]
    BY SegmentIsOne
  <1>2. QED
    BY <1>1 DEF Carries

\* A converted item that holds no others.
LEMMA OwnIsCarried ==
    ASSUME NEW item, NEW parts, IsOne(SegmentOf(item, parts)), item.type # "node"
    PROVE  /\ Head(SegmentOf(item, parts)).type = IF item.type = "audio" THEN "record" ELSE item.type
           /\ Own(item) # "" => Carries(Head(SegmentOf(item, parts)), Own(item))
  <1> DEFINE type == IF item.type = "audio" THEN "record" ELSE item.type
  <1>1. SegmentOf(item, parts) \notin {Refused, Panics} /\ item.type \in ItemTypes
    BY SegmentOfEach DEF IsOne
  <1>2. ASSUME NEW t, NEW key, NEW text, SegmentOf(item, parts) = TextSegment(t, key, text)
        PROVE  Head(SegmentOf(item, parts)).type = t /\ Carries(Head(SegmentOf(item, parts)), text)
    <2>1. SegmentOf(item, parts) = Segment(t, [k \in {key} |-> Lit(text)])
      BY <1>1, <1>2 DEF TextSegment
    <2>2. QED
      BY <2>1, SegmentIsOne, SegmentCarries
  <1>3. CASE item.type = "text"
    <2>1. SegmentOf(item, parts) = TextSegment("text", "text", TextValue(item))
      BY <1>3, SegmentOfEach
    <2>2. QED
      BY <1>2, <1>3, <2>1 DEF Own, Media, Structured
  <1>4. CASE item.type \in Media
    <2>1. SegmentOf(item, parts) = FileSegment(item, type)
      BY <1>4, SegmentOfEach
    <2> HIDE DEF type
    <2>2. PICK others : SegmentOf(item, parts) = Segment(type, Over([file |-> Lit(FileValue(item))], others))
      BY <1>1, <2>1 DEF FileSegment
    <2>3. /\ "file" \in DOMAIN Over([file |-> Lit(FileValue(item))], others)
          /\ Over([file |-> Lit(FileValue(item))], others)["file"] = Lit(FileValue(item))
      BY OverHides
    <2>4. Carries(Head(SegmentOf(item, parts)), FileValue(item))
      BY <2>2, <2>3, SegmentCarries
    <2>5. Own(item) = FileValue(item)
      BY <1>4 DEF Own, Media, Structured
    <2>6. Head(SegmentOf(item, parts)).type = type
      BY <2>2, SegmentIsOne
    <2>7. QED
      BY <2>4, <2>5, <2>6 DEF type
  <1>5. CASE item.type = "reply"
    <2> DEFINE id == StringValue(item, <<"id", "message_id">>)
    <2>1. SegmentOf(item, parts) = ReplySegment(item)
      BY <1>5, SegmentOfEach
    <2>2. PICK others : SegmentOf(item, parts) = Segment("reply", Over([id |-> Lit(id)], others))
      BY <1>1, <2>1 DEF ReplySegment
    <2>3. Own(item) = id
      BY <1>5 DEF Own, Media, Structured
    <2> HIDE DEF id
    <2>4. "id" \in DOMAIN Over([id |-> Lit(id)], others) /\ Over([id |-> Lit(id)], others)["id"] = Lit(id)
      BY OverHides
    <2>5. Carries(Head(SegmentOf(item, parts)), id) /\ Head(SegmentOf(item, parts)).type = "reply"
      BY <2>2, <2>4, SegmentCarries, SegmentIsOne
    <2>6. QED
      BY <1>5, <2>3, <2>5
  <1>6. CASE item.type = "at"
    <2>1. SegmentOf(item, parts) = TextSegment("at", "qq", StringValue(item, <<"qq", "user_id">>))
      BY <1>6, SegmentOfEach
    <2>2. QED
      BY <1>2, <1>6, <2>1 DEF Own, Media, Structured
  <1>7. CASE item.type \in Structured
    <2>1. SegmentOf(item, parts)
            = TextSegment(item.type, "data", StringValue(item, <<"data", "content", "text">>))
      BY <1>7, SegmentOfEach
    <2>2. item.type # "audio" /\ Own(item) = StringValue(item, <<"data", "content", "text">>)
      BY <1>7 DEF Own, Structured, Media
    <2>3. QED
      BY <1>2, <2>1, <2>2
  <1>8. CASE item.type \in {"face", "dice", "rps", "music", "contact", "poke", "mface"}
    <2>1. PICK data : SegmentOf(item, parts) = Segment(item.type, data)
      BY <1>1, <1>8, SegmentOfEach
    <2>2. Own(item) = "" /\ item.type # "audio"
      BY <1>8 DEF Own, Structured, Media
    <2>3. Head(SegmentOf(item, parts)).type = item.type
      BY <2>1, SegmentIsOne
    <2>4. QED
      BY <2>2, <2>3
  <1>9. QED
    BY <1>1, <1>3, <1>4, <1>5, <1>6, <1>7, <1>8 DEF ItemTypes

\* A content node has a segment for each of its items, when these are complete.
LEMMA ContentIsShown ==
    ASSUME NEW item \in Items, NEW content,
           InTurn(PartsInside(item)) # Panics,
           NodeContent(item, InTurn(PartsInside(item))) # Refused,
           content = Head(NodeContent(item, InTurn(PartsInside(item)))),
           \A k \in DOMAIN Inside(item) :
                IsOne(ToSegment[Inside(item)[k]]) =>
                    Head(ToSegment[Inside(item)[k]]) \in Showing[Inside(item)[k]]
    PROVE  ShowsContent(content.items, item, ShowingInside(item))
  <1> DEFINE segments == InTurn(PartsInside(item))
  <1>1. ASSUME Whole(item)
        PROVE  /\ DOMAIN content.items = DOMAIN ShowingInside(item)
               /\ \A k \in DOMAIN ShowingInside(item) : content.items[k] \in ShowingInside(item)[k]
    <2>1. Inside(item) # <<>> /\ \A k \in DOMAIN Inside(item) : Complete[Inside(item)[k]]
      BY <1>1 DEF Whole
    <2>2. \A k \in DOMAIN Inside(item) : ToSegment[Inside(item)[k]] # Refused
      BY <2>1, InsideType, CompleteItemsConvert
    <2>3. segments # Refused
      BY <2>1, <2>2, InsideInTurn
    <2>4. /\ \A k \in DOMAIN Inside(item) : IsOne(ToSegment[Inside(item)[k]])
          /\ segments = [k \in DOMAIN Inside(item) |-> Head(ToSegment[Inside(item)[k]])]
      BY <2>3, InsideInTurn
    <2> HIDE DEF segments
    <2>5. NodeContent(item, segments) = <<List(segments)>>
      BY <2>3 DEF NodeContent
    <2>6. content = List(segments)
      BY <2>5 DEF segments
    <2>7. content.items = segments
      BY <2>6 DEF List
    <2>8. DOMAIN ShowingInside(item) = DOMAIN Inside(item)
      BY DEF ShowingInside
    <2>9. DOMAIN content.items = DOMAIN ShowingInside(item)
      BY <2>4, <2>7, <2>8
    <2>10. ASSUME NEW k \in DOMAIN ShowingInside(item)
           PROVE  content.items[k] \in ShowingInside(item)[k]
      <3>1. k \in DOMAIN Inside(item)
        BY <2>8, <2>10
      <3>2. content.items[k] = Head(ToSegment[Inside(item)[k]])
        BY <2>4, <2>7, <3>1
      <3>3. ShowingInside(item)[k] = Showing[Inside(item)[k]]
        BY <3>1 DEF ShowingInside
      <3>4. QED
        BY <2>4, <3>1, <3>2, <3>3
    <2>11. QED
      BY <2>9, <2>10
  <1>2. ASSUME Inside(item) = <<>>, Value(item, <<"content", "message">>) = <<>>
        PROVE  Len(content.items) = 1 /\ Carries(content.items[1], TextValue(item))
    <2> DEFINE text == TextSegment("text", "text", TextValue(item))
    <2>1. segments = Refused
      BY <1>2, InsideInTurn
    <2> HIDE DEF segments
    <2>2. NodeContent(item, segments) # Refused
      BY DEF segments
    <2>3. TextValue(item) # "" /\ NodeContent(item, segments) = <<List(text)>>
      BY <1>2, <2>1, <2>2 DEF NodeContent
    <2>4. text = Segment("text", [k \in {"text"} |-> Lit(TextValue(item))])
      BY <2>3 DEF TextSegment
    <2>5. Carries(Head(text), TextValue(item)) /\ text = <<Head(text)>>
      BY <2>4, SegmentCarries, SegmentIsOne
    <2> HIDE DEF text
    <2>6. content = List(text)
      <3>1. content = Head(NodeContent(item, segments))
        BY DEF segments
      <3>2. NodeContent(item, segments) = <<List(text)>>
        BY <2>3
      <3>3. Head(<<List(text)>>) = List(text)
        OBVIOUS
      <3>4. QED
        BY <3>1, <3>2, <3>3
    <2>7. content.items = text
      BY <2>6 DEF List
    <2>8. Len(text) = 1 /\ text[1] = Head(text)
      BY <2>5
    <2>9. QED
      BY <2>5, <2>7, <2>8
  <1>3. QED
    BY <1>1, <1>2, Zenon DEF ShowsContent

LEMMA NodeIsShown ==
    ASSUME NEW item \in Items, item.type = "node", IsOne(ToSegment[item]),
           \A k \in DOMAIN Inside(item) :
                IsOne(ToSegment[Inside(item)[k]]) =>
                    Head(ToSegment[Inside(item)[k]]) \in Showing[Inside(item)[k]]
    PROVE  IsShown(Head(ToSegment[item]), item, ShowingInside(item))
  <1> DEFINE segments == InTurn(PartsInside(item))
             id == StringValue(item, <<"id">>)
             node == Head(ToSegment[item])
  <1>1. ToSegment[item] = NodeSegment(item, segments)
    BY ItemEquations, SegmentOfEach
  <1>2. Own(item) = id
    BY DEF Own, Media, Structured
  <1>3. CASE id # ""
    <2>1. ToSegment[item] = Segment("node", Over([id |-> Lit(id)], item.data))
      BY <1>1, <1>3 DEF NodeSegment
    <2> HIDE DEF id
    <2>2. "id" \in DOMAIN Over([id |-> Lit(id)], item.data) /\ Over([id |-> Lit(id)], item.data)["id"] = Lit(id)
      BY OverHides
    <2>3. Carries(node, id) /\ node.type = "node"
      BY <2>1, <2>2, SegmentCarries, SegmentIsOne
    <2>4. IsReference(item)
      BY <1>3 DEF IsReference, id
    <2>5. QED
      BY <1>2, <2>3, <2>4 DEF IsShown
  <1>4. CASE id = ""
    <2> DEFINE content == Head(NodeContent(item, segments))
    <2> HIDE DEF segments
    <2>1. segments # Panics /\ NodeContent(item, segments) # Refused
      BY <1>1, <1>4 DEF NodeSegment, IsOne
    <2>2. PICK others : ToSegment[item] = Segment("node", Over([content |-> content], others))
      BY <1>1, <1>4, <2>1 DEF NodeSegment, IsOne
    <2>3. ShowsContent(content.items, item, ShowingInside(item))
      BY <2>1, ContentIsShown DEF segments
    <2> HIDE DEF content
    <2>4. /\ "content" \in DOMAIN Over([content |-> content], others)
          /\ Over([content |-> content], others)["content"] = content
      BY OverHides
    <2>5. node = [type |-> "node", data |-> Over([content |-> content], others)]
      BY <2>2, SegmentIsOne
    <2> HIDE DEF node
    <2>6. node.type = "node" /\ "content" \in DOMAIN node.data /\ node.data["content"] = content
      BY <2>4, <2>5
    <2>7. QED
      BY <1>2, <1>4, <2>3, <2>6 DEF IsShown, node
  <1>5. QED
    BY <1>3, <1>4

\* What an item becomes shows what the item is there for, at every depth.
LEMMA ConvertedIsShown ==
    \A item \in Items : IsOne(ToSegment[item]) => Head(ToSegment[item]) \in Showing[item]
  <1> DEFINE S == {item \in Items : IsOne(ToSegment[item]) => Head(ToSegment[item]) \in Showing[item]}
  <1>1. ASSUME NEW item \in Items, Below(item) \subseteq S, IsOne(ToSegment[item])
        PROVE  Head(ToSegment[item]) \in Showing[item]
    <2>1. Head(ToSegment[item]) \in Made
      BY <1>1 DEF Made, IsOne
    <2>2. \A k \in DOMAIN Inside(item) : Inside(item)[k] \in S
      BY <1>1, InsideType
    <2>3. IsShown(Head(ToSegment[item]), item, ShowingInside(item))
      <3>1. CASE item.type = "node"
        BY <1>1, <2>2, <3>1, NodeIsShown
      <3>2. CASE item.type # "node"
        <4>1. ToSegment[item] = SegmentOf(item, PartsInside(item))
          BY ItemEquations
        <4>2. QED
          BY <1>1, <3>2, <4>1, OwnIsCarried DEF IsShown
      <3>3. QED
        BY <3>1, <3>2
    <2>4. QED
      BY <2>1, <2>3, ItemEquations
  <1>2. \A item \in Items : Below(item) \subseteq S => item \in S
    BY <1>1
  <1>3. Items \subseteq S
    <2> HIDE DEF S
    <2>1. QED
      BY <1>2, ItemInduction
  <1>4. QED
    BY <1>3

-----------------------------------------------------------------------------
(* Whole replies.                                                          *)

\* To whom: a target has the fields of the event it stands for.
Carried(actions, target, body) ==
    \/ actions = Refused /\ Address(target) = ""
    \/ /\ IsOne(actions) /\ Len(actions) = 1
       /\ Head(actions).to = Address(target) /\ Head(actions).body = body

LEMMA ActionCases ==
    ASSUME NEW target, NEW group, NEW private, NEW body, NEW options
    PROVE  Carried(Action(target, group, private, body, options), target, body)
  <1> DEFINE actions == Action(target, group, private, body, options)
  <1>1. ASSUME NEW action, NEW type, actions = <<action>>,
               action = [type |-> type, to |-> Address(target), body |-> body, options |-> options]
        PROVE  /\ IsOne(actions) /\ Len(actions) = 1
               /\ Head(actions).to = Address(target) /\ Head(actions).body = body
    <2> HIDE DEF actions
    <2>1. action.to = Address(target) /\ action.body = body /\ Head(actions) = action /\ Len(actions) = 1
      BY <1>1
    <2>2. "to" \in DOMAIN action /\ "to" \notin DOMAIN [type |-> "panic", data |-> <<>>]
      BY <1>1
    <2>3. action # [type |-> "panic", data |-> <<>>]
      BY <2>2
    <2>4. actions # Panics /\ actions # Refused
      BY <1>1, <2>3 DEF Panics, Refused, Segment
    <2>5. QED
      BY <1>1, <2>1, <2>4 DEF IsOne
  <1>2. CASE Address(target) = ""
    BY <1>2 DEF Action, Address, Carried
  <1>3. CASE Address(target) # ""
    <2>1. PICK type : actions =
            <<[type |-> type, to |-> Address(target), body |-> body, options |-> options]>>
      BY <1>3 DEF Action, Address
    <2> HIDE DEF actions
    <2>2. QED
      BY <1>1, <2>1 DEF actions, Carried
  <1>4. QED
    BY <1>2, <1>3

LEMMA PartsType ==
    ASSUME NEW messages \in Seq(Items), messages # <<>>
    PROVE  Parts(messages) \in Seq(Items)
  <1>1. CASE IsForward(messages)
    <2> DEFINE keys == <<"nodes", "messages", "content">>
    <2>1. messages[1] \in Items /\ DOMAIN keys \in SUBSET Nat
      OBVIOUS
    <2> HIDE DEF keys
    <2>2. NestedAt(messages[1], keys) \in Seq(Below(messages[1]))
      BY <2>1, NestedAtType
    <2>3. Below(messages[1]) \subseteq Items
      BY DEF Below
    <2>4. NestedAt(messages[1], keys) \in Seq(Items)
      BY <2>2, <2>3
    <2>5. QED
      BY <1>1, <2>4 DEF Parts, keys
  <1>2. CASE ~IsForward(messages)
    BY <1>2 DEF Parts
  <1>3. QED
    BY <1>1, <1>2

\* A forward action takes nodes alone, and all of them.
LEMMA NodesConvert ==
    ASSUME NEW nodes \in Seq(Items)
    PROVE  /\ NodesInTurn(nodes) = Panics => \E k \in DOMAIN nodes : Bare[nodes[k]]
           /\ NodesInTurn(nodes) = Refused =>
                nodes = <<>> \/ \E k \in DOMAIN nodes : ~(Complete[nodes[k]] /\ nodes[k].type = "node")
           /\ NodesInTurn(nodes) \notin {Refused, Panics} =>
                /\ Len(NodesInTurn(nodes)) = Len(nodes)
                /\ \A k \in DOMAIN nodes : NodesInTurn(nodes)[k] \in Showing[nodes[k]]
  <1> DEFINE n == Len(nodes)
             parts == [k \in DOMAIN nodes |-> IF nodes[k].type = "node" THEN ToSegment[nodes[k]] ELSE Refused]
  <1>1. n \in Nat /\ DOMAIN nodes = 1..n /\ (n = 0 <=> nodes = <<>>) /\ \A k \in 1..n : nodes[k] \in Items
    OBVIOUS
  <1>2. /\ DOMAIN parts = 1..n
        /\ \A k \in 1..n : parts[k] = IF nodes[k].type = "node" THEN ToSegment[nodes[k]] ELSE Refused
    BY <1>1
  <1>3. NodesInTurn(nodes) = InTurn(parts)
    BY DEF NodesInTurn
  <1> HIDE DEF n, parts
  <1>4. \A k \in 1..n : parts[k] \in {Refused, Panics} \/ IsOne(parts[k])
    BY <1>1, <1>2, ConvertedIsOne
  <1>5. InTurn(parts) = Panics => \E k \in DOMAIN nodes : Bare[nodes[k]]
    <2>1. SUFFICES ASSUME InTurn(parts) = Panics
                   PROVE  \E k \in DOMAIN nodes : Bare[nodes[k]]
      OBVIOUS
    <2>2. PICK k \in 1..n : parts[k] = Panics
      BY <1>1, <1>2, <1>4, <2>1, InTurnResult
    <2>3. ToSegment[nodes[k]] = Panics
      BY <1>2, <2>2, PanicIsOne
    <2>4. QED
      BY <1>1, <2>3, PanicsAreBare
  <1>6. InTurn(parts) = Refused =>
            nodes = <<>> \/ \E k \in DOMAIN nodes : ~(Complete[nodes[k]] /\ nodes[k].type = "node")
    <2>1. SUFFICES ASSUME InTurn(parts) = Refused, nodes # <<>>
                   PROVE  \E k \in DOMAIN nodes : ~(Complete[nodes[k]] /\ nodes[k].type = "node")
      OBVIOUS
    <2>2. PICK k \in 1..n : parts[k] = Refused
      BY <1>1, <1>2, <1>4, <2>1, InTurnResult
    <2>3. ~(Complete[nodes[k]] /\ nodes[k].type = "node")
      BY <1>1, <1>2, <2>2, CompleteItemsConvert
    <2>4. QED
      BY <1>1, <2>3
  <1>7. InTurn(parts) \notin {Refused, Panics} =>
            Len(InTurn(parts)) = Len(nodes) /\ \A k \in DOMAIN nodes : InTurn(parts)[k] \in Showing[nodes[k]]
    <2>1. SUFFICES ASSUME InTurn(parts) \notin {Refused, Panics}
                   PROVE  /\ Len(InTurn(parts)) = n
                          /\ \A k \in 1..n : InTurn(parts)[k] \in Showing[nodes[k]]
      BY <1>1 DEF n
    <2>2. (\A k \in 1..n : IsOne(parts[k])) /\ InTurn(parts) = [k \in 1..n |-> Head(parts[k])]
      BY <1>1, <1>2, <1>4, <2>1, InTurnResult
    <2>3. Len(InTurn(parts)) = n
      BY <1>1, <2>2
    <2>4. ASSUME NEW k \in 1..n
          PROVE  InTurn(parts)[k] \in Showing[nodes[k]]
      <3>1. parts[k] = ToSegment[nodes[k]] /\ IsOne(ToSegment[nodes[k]])
        BY <1>2, <2>2 DEF IsOne
      <3>2. Head(ToSegment[nodes[k]]) \in Showing[nodes[k]]
        BY <1>1, <3>1, ConvertedIsShown
      <3>3. QED
        BY <2>2, <3>1, <3>2
    <2>5. QED
      BY <2>3, <2>4
  <1>8. QED
    BY <1>3, <1>5, <1>6, <1>7

\* What sending the segment of one item may come to.
SentFor(item, target, sent) ==
    \/ sent = Refused /\ (ToSegment[item] = Refused \/ Address(target) = "")
    \/ sent = Panics /\ ToSegment[item] = Panics
    \/ /\ IsOne(sent) /\ Head(sent).to = Address(target) /\ IsOne(ToSegment[item])
       /\ Len(Head(sent).body.items) = 1
       /\ Head(sent).body.items[1] = Head(ToSegment[item])

LEMMA SendSegmentCases ==
    ASSUME NEW target, NEW item \in Items
    PROVE  SentFor(item, target, SendSegment(target, ToSegment[item]))
  <1> DEFINE segment == ToSegment[item]
             sent == SendSegment(target, segment)
  <1>1. segment \in {Refused, Panics} \/ IsOne(segment)
    BY ConvertedIsOne
  <1> HIDE DEF segment
  <1>2. CASE segment \in {Refused, Panics}
    BY <1>2 DEF SendSegment, SentFor, segment
  <1>3. CASE IsOne(segment)
    <2> DEFINE body == List(segment)
    <2>1. sent = Send(target, body)
      BY <1>3 DEF SendSegment, IsOne
    <2>2. body.items = segment
      BY DEF List
    <2> HIDE DEF body
    <2>3. Carried(sent, target, body)
      BY <2>1, ActionCases DEF Send
    <2>4. Len(segment) = 1 /\ segment[1] = Head(segment)
      <3>1. \A v : Len(<<v>>) = 1 /\ <<v>>[1] = v
        OBVIOUS
      <3>2. QED
        BY <1>3, <3>1 DEF IsOne
    <2> HIDE DEF sent
    <2>5. QED
      BY <1>3, <2>2, <2>3, <2>4 DEF segment, sent, Carried, SentFor
  <1>4. QED
    BY <1>1, <1>2, <1>3

\* What the documents say of the actions made of a reply.
IsDocumented(reply, target, actions) ==
    /\ actions = Refused => ~CompleteReply(reply) \/ Address(target) = ""
    /\ actions = Panics => \E k \in DOMAIN Parts(reply.messages) : Bare[Parts(reply.messages)[k]]
    /\ actions \notin {Refused, Panics} =>
            SendsAll(reply, actions) /\ \A k \in DOMAIN actions : actions[k].to = Address(target)

LEMMA CarriedIsOne ==
    ASSUME NEW actions, NEW target, NEW body, Carried(actions, target, body)
    PROVE  \/ actions = Refused /\ Address(target) = ""
           \/ /\ actions \notin {Refused, Panics} /\ Len(actions) = 1 /\ actions[1].body = body
              /\ \A k \in DOMAIN actions : actions[k].to = Address(target)
  <1>1. CASE actions = Refused /\ Address(target) = ""
    BY <1>1
  <1>2. CASE /\ IsOne(actions) /\ Len(actions) = 1
             /\ Head(actions).to = Address(target) /\ Head(actions).body = body
    <2>1. \A v : DOMAIN <<v>> = {1} /\ <<v>>[1] = v
      OBVIOUS
    <2>2. DOMAIN actions = {1} /\ actions[1] = Head(actions)
      BY <1>2, <2>1 DEF IsOne
    <2>3. QED
      BY <1>2, <2>2 DEF IsOne
  <1>3. QED
    BY <1>1, <1>2 DEF Carried

LEMMA LegacyReplies ==
    ASSUME NEW target, NEW reply, reply.messages = <<>>
    PROVE  IsDocumented(reply, target, BrainResponseActions(target, reply))
  <1> DEFINE actions == BrainResponseActions(target, reply)
  <1>1. CASE reply.reply = ""
    <2>1. actions = Refused
      BY <1>1 DEF BrainResponseActions
    <2>2. ~CompleteReply(reply)
      BY <1>1 DEF CompleteReply
    <2>3. QED
      BY <2>1, <2>2, PanicIsOne DEF IsDocumented
  <1>2. CASE reply.reply # ""
    <2>1. actions = Send(target, Lit(reply.reply))
      BY <1>2 DEF BrainResponseActions
    <2>2. Carried(actions, target, Lit(reply.reply))
      BY <2>1, ActionCases DEF Send
    <2> HIDE DEF actions
    <2>3. \/ actions = Refused /\ Address(target) = ""
          \/ /\ actions \notin {Refused, Panics} /\ SendsAll(reply, actions)
             /\ \A k \in DOMAIN actions : actions[k].to = Address(target)
      BY <2>2, CarriedIsOne DEF SendsAll
    <2>4. QED
      BY <2>3, PanicIsOne DEF IsDocumented, actions
  <1>3. QED
    BY <1>1, <1>2

LEMMA ForwardReplies ==
    ASSUME NEW target, NEW reply, reply.messages \in Seq(Items), reply.messages # <<>>,
           IsForwardMessageSet(reply.messages)
    PROVE  IsDocumented(reply, target, BrainResponseActions(target, reply))
  <1> DEFINE messages == reply.messages
             nodes == Parts(messages)
             segments == NodesInTurn(nodes)
             actions == BrainResponseActions(target, reply)
  <1>1. messages \in Seq(Items) /\ messages # <<>> /\ 1 \in DOMAIN messages /\ Len(messages) \in Nat \ {0}
    OBVIOUS
  <1>2. actions = ForwardActions(target, messages)
    BY DEF BrainResponseActions
  <1>3. IsForward(messages) <=> messages[1].type = "forward"
    BY <1>1 DEF IsForwardMessageSet, IsForward
  <1>4. \E options : actions = SendForward(target, segments, options)
    <2>1. CASE IsForward(messages)
      BY <1>2, <1>3, <2>1 DEF ForwardActions, Parts
    <2>2. CASE ~IsForward(messages)
      BY <1>2, <1>3, <2>2 DEF ForwardActions, Parts
    <2>3. QED
      BY <2>1, <2>2
  <1>5. \/ segments \in {Refused, Panics} /\ actions = segments
        \/ segments \notin {Refused, Panics} /\ Carried(actions, target, List(segments))
    BY <1>4, ActionCases DEF SendForward
  <1>6. IsForward(messages) \/ \A k \in DOMAIN nodes : nodes[k].type = "node"
    BY DEF IsForwardMessageSet, IsForward, Parts
  <1>7. nodes \in Seq(Items)
    BY <1>1, PartsType
  <1> HIDE DEF messages, nodes, actions
  <1>8. CASE segments = Refused
    <2>1. nodes = <<>> \/ \E k \in DOMAIN nodes : ~(Complete[nodes[k]] /\ nodes[k].type = "node")
      BY <1>7, <1>8, NodesConvert
    <2>2. ~CompleteReply(reply)
      BY <1>1, <1>6, <2>1 DEF CompleteReply, messages, nodes
    <2>3. QED
      BY <1>5, <1>8, <2>2, PanicIsOne DEF IsDocumented, actions
  <1>9. CASE segments = Panics
    <2>1. \E k \in DOMAIN nodes : Bare[nodes[k]]
      BY <1>7, <1>9, NodesConvert
    <2>2. QED
      BY <1>5, <1>9, <2>1, PanicIsOne DEF IsDocumented, actions, nodes, messages
  <1>10. CASE segments \notin {Refused, Panics}
    <2>1. Len(segments) = Len(nodes) /\ \A k \in DOMAIN nodes : segments[k] \in Showing[nodes[k]]
      BY <1>7, <1>10, NodesConvert
    <2> HIDE DEF segments
    <2>2. List(segments).items = segments
      BY DEF List
    <2>3. \/ actions = Refused /\ Address(target) = ""
          \/ /\ actions \notin {Refused, Panics} /\ Len(actions) = 1 /\ actions[1].body = List(segments)
             /\ \A k \in DOMAIN actions : actions[k].to = Address(target)
      BY <1>5, <1>10, CarriedIsOne
    <2>4. Len(actions) = 1 /\ actions[1].body = List(segments) => SendsAll(reply, actions)
      BY <1>1, <1>6, <2>1, <2>2 DEF SendsAll, messages, nodes
    <2>5. QED
      BY <2>3, <2>4, PanicIsOne DEF IsDocumented, actions
  <1>11. QED
    BY <1>8, <1>9, <1>10

LEMMA ItemReplies ==
    ASSUME NEW target, NEW reply, reply.messages \in Seq(Items), reply.messages # <<>>,
           ~IsForwardMessageSet(reply.messages)
    PROVE  IsDocumented(reply, target, BrainResponseActions(target, reply))
  <1> DEFINE messages == reply.messages
             n == Len(messages)
             parts == [k \in DOMAIN messages |-> SendSegment(target, ToSegment[messages[k]])]
             actions == BrainResponseActions(target, reply)
  <1>1. messages \in Seq(Items) /\ messages # <<>> /\ n \in Nat \ {0} /\ DOMAIN messages = 1..n
    OBVIOUS
  <1>2. actions = InTurn(parts)
    BY DEF BrainResponseActions, ItemActions
  <1>3. DOMAIN parts = 1..n /\ \A k \in 1..n : parts[k] = SendSegment(target, ToSegment[messages[k]])
    BY <1>1
  <1>4. /\ ~IsForward(messages) /\ Parts(messages) = messages
        /\ ~\A k \in DOMAIN messages : messages[k].type = "node"
    BY DEF IsForwardMessageSet, IsForward, Parts
  <1> HIDE DEF messages, n, parts, actions
  <1>5. ASSUME NEW k \in 1..n
        PROVE  messages[k] \in Items /\ SentFor(messages[k], target, parts[k])
    <2>1. messages[k] \in Items
      BY <1>1
    <2>2. SentFor(messages[k], target, SendSegment(target, ToSegment[messages[k]]))
      BY <2>1, SendSegmentCases
    <2>3. QED
      BY <1>3, <2>1, <2>2
  <1>6. \A k \in 1..n : parts[k] \in {Refused, Panics} \/ IsOne(parts[k])
    BY <1>5 DEF SentFor
  <1>7. CASE actions = Refused
    <2>1. PICK k \in 1..n : parts[k] = Refused
      BY <1>1, <1>2, <1>3, <1>6, <1>7, InTurnResult
    <2>2. ToSegment[messages[k]] = Refused \/ Address(target) = ""
      BY <1>5, <2>1, PanicIsOne DEF IsOne, SentFor
    <2>3. ~Complete[messages[k]] \/ Address(target) = ""
      BY <1>5, <2>2, CompleteItemsConvert
    <2>4. ~CompleteReply(reply) \/ Address(target) = ""
      BY <1>1, <1>4, <2>3 DEF CompleteReply, messages
    <2>5. QED
      BY <1>7, <2>4, PanicIsOne DEF IsDocumented, actions
  <1>8. CASE actions = Panics
    <2>1. PICK k \in 1..n : parts[k] = Panics
      BY <1>1, <1>2, <1>3, <1>6, <1>8, InTurnResult
    <2>2. ToSegment[messages[k]] = Panics
      BY <1>5, <2>1, PanicIsOne DEF IsOne, SentFor
    <2>3. Bare[messages[k]]
      BY <1>5, <2>2, PanicsAreBare
    <2>4. \E j \in DOMAIN Parts(messages) : Bare[Parts(messages)[j]]
      BY <1>1, <1>4, <2>3
    <2>5. QED
      BY <1>8, <2>4, PanicIsOne DEF IsDocumented, actions, messages
  <1>9. CASE actions \notin {Refused, Panics}
    <2>1. (\A k \in 1..n : IsOne(parts[k])) /\ actions = [k \in 1..n |-> Head(parts[k])]
      BY <1>1, <1>2, <1>3, <1>6, <1>9, InTurnResult
    <2>2. Len(actions) = n /\ DOMAIN actions = 1..n
      BY <1>1, <2>1
    <2>3. ASSUME NEW k \in 1..n
          PROVE  /\ actions[k].to = Address(target) /\ Len(actions[k].body.items) = 1
                 /\ actions[k].body.items[1] \in Showing[messages[k]]
      <3>1. IsOne(parts[k]) /\ actions[k] = Head(parts[k])
        BY <2>1
      <3>2. /\ Head(parts[k]).to = Address(target) /\ IsOne(ToSegment[messages[k]])
            /\ Len(Head(parts[k]).body.items) = 1
            /\ Head(parts[k]).body.items[1] = Head(ToSegment[messages[k]])
        BY <1>5, <3>1 DEF IsOne, SentFor
      <3>3. Head(ToSegment[messages[k]]) \in Showing[messages[k]]
        BY <1>5, <3>2, ConvertedIsShown
      <3>4. QED
        BY <3>1, <3>2, <3>3
    <2>4. SendsAll(reply, actions)
      BY <1>1, <1>4, <2>2, <2>3 DEF SendsAll, messages, n
    <2>5. QED
      BY <1>9, <2>2, <2>3, <2>4 DEF IsDocumented, actions
  <1>10. QED
    BY <1>7, <1>8, <1>9

LEMMA RepliesConvert ==
    ASSUME NEW target, NEW reply, reply.messages \in Seq(Items)
    PROVE  IsDocumented(reply, target, BrainResponseActions(target, reply))
  BY LegacyReplies, ForwardReplies, ItemReplies

-----------------------------------------------------------------------------
(* Exchanges.                                                              *)

\* A decided exchange is what the conversion made of its reply.
AsConverted(t) ==
    LET x == exchanges[t]
    IN  x.stage \in Replied =>
            /\ x.reply.messages \in Seq(Items)
            /\ Outcome(x, x.reply, BrainResponseActions(Target(x.event), x.reply))

ConversionInv == ExchangesOK /\ \A t \in Turns : AsConverted(t)

LEMMA RepliesAreItems == \A t \in Turns : \A reply \in RepliesTo(t) : reply.messages \in Seq(Items)
  BY ExchangeAssumption DEF RepliesTo

LEMMA ConversionInvStep ==
    ASSUME ConversionInv, [ExchangeNext]_allVars
    PROVE  ConversionInv'
  <1>1. ExchangesOK' /\ \A t \in Turns : Fares(t)
    BY ExchangesFare DEF ConversionInv
  <1>2. ASSUME NEW t \in Turns
        PROVE  AsConverted(t)'
    <2>1. CASE exchanges'[t] = exchanges[t]
      BY <2>1 DEF ConversionInv, AsConverted
    <2>2. CASE Asked(t) \/ Ended(t)
      BY <2>2 DEF Asked, Ended, AsConverted, Replied
    <2>3. CASE Decided(t)
      <3> DEFINE x == exchanges'[t]
      <3>1. /\ x.event = exchanges[t].event
            /\ \/ x.stage = "silent"
               \/ \E reply \in RepliesTo(t) :
                    Outcome(x, reply, BrainResponseActions(Target(exchanges[t].event), reply))
        BY <2>3 DEF Decided
      <3>2. CASE x.stage = "silent"
        BY <3>2 DEF AsConverted, Replied
      <3>3. ASSUME NEW reply \in RepliesTo(t),
                   Outcome(x, reply, BrainResponseActions(Target(exchanges[t].event), reply))
            PROVE  AsConverted(t)'
        <4>1. reply.messages \in Seq(Items)
          BY RepliesAreItems
        <4>2. x.reply = reply
          BY <3>3 DEF Outcome
        <4>3. Outcome(x, x.reply, BrainResponseActions(Target(x.event), x.reply))
          BY <3>1, <3>3, <4>2
        <4>4. QED
          BY <4>1, <4>2, <4>3 DEF AsConverted
      <3>4. QED
        BY <3>1, <3>2, <3>3
    <2>4. QED
      BY <1>1, <2>1, <2>2, <2>3 DEF Fares
  <1>3. QED
    BY <1>1, <1>2 DEF ConversionInv

\* What is made of a reply is documented, as far as one exchange can tell.
LEMMA ConvertedIsDocumented ==
    ASSUME NEW t \in Turns, AsConverted(t)
    PROVE  LET x == exchanges[t]
           IN  /\ x.stage = "answered" =>
                    /\ SendsAll(x.reply, x.actions)
                    /\ \A k \in DOMAIN x.actions : x.actions[k].to = Address(x.event)
               /\ x.stage = "unsent" => ~CompleteReply(x.reply) \/ Address(x.event) = ""
               /\ x.stage = "crashed" =>
                    \E k \in DOMAIN Parts(x.reply.messages) : Bare[Parts(x.reply.messages)[k]]
  <1> DEFINE x == exchanges[t]
             target == Target(x.event)
             actions == BrainResponseActions(target, x.reply)
  <1>1. Address(target) = Address(x.event)
    BY DEF Address, Target
  <1>2. ASSUME x.stage \in Replied
        PROVE  Outcome(x, x.reply, actions) /\ IsDocumented(x.reply, target, actions)
    BY <1>2, RepliesConvert DEF AsConverted
  <1> HIDE DEF x, target, actions
  <1>3. x.stage = "answered" =>
            /\ SendsAll(x.reply, x.actions)
            /\ \A k \in DOMAIN x.actions : x.actions[k].to = Address(x.event)
    BY <1>1, <1>2 DEF Replied, Outcome, IsDocumented, Refused
  <1>4. x.stage = "unsent" => ~CompleteReply(x.reply) \/ Address(x.event) = ""
    BY <1>1, <1>2 DEF Replied, Outcome, IsDocumented, Refused
  <1>5. x.stage = "crashed" => \E k \in DOMAIN Parts(x.reply.messages) : Bare[Parts(x.reply.messages)[k]]
    BY <1>2 DEF Replied, Outcome, IsDocumented
  <1>6. QED
    BY <1>3, <1>4, <1>5 DEF x

\* docs/api/gateway-api.md, "Brain Message Items" and "Forward Messages". Whatever
\* fails on the way, an answered event got the whole reply, every item in its place
\* and shown at every depth, where it came from; nothing is sent only for a reply
\* that lacks something; only a node given as a bare text ends the Gateway
\* (BrainResponseActions in router.go, toSegment in action.go).
THEOREM ExchangesAreDocumented == ExchangeSpec => []ExchangeIsDocumented
  <1>1. ExchangeInit => ConversionInv
    <2>1. Formed(Exchange("none", NoEvent)) /\ Exchange("none", NoEvent).stage = "none"
      BY DEF Exchange, Formed
    <2>2. QED
      BY <2>1 DEF ExchangeInit, ConversionInv, ExchangesOK, AsConverted, Replied
  <1>2. ConversionInv /\ [ExchangeNext]_allVars => ConversionInv'
    BY ConversionInvStep
  <1>3. ConversionInv => ExchangeIsDocumented
    BY ConvertedIsDocumented, Zenon DEF ConversionInv, ExchangeIsDocumented
  <1>4. QED
    BY <1>1, <1>2, <1>3, PTL DEF ExchangeSpec

=============================================================================
