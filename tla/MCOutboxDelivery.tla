-------------------------- MODULE MCOutboxDelivery --------------------------
EXTENDS OutboxDelivery, TLC

\* Sessions are interchangeable, except those that carry replies.
SessionSymmetry == Permutations(Sessions \ Chatty)

=============================================================================
