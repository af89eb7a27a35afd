----------------------------- MODULE MCEnvelope -----------------------------
(* A small instance: the real floor, a ceiling of 1000, five operations.    *)
EXTENDS Envelope

MCOpLists ==
  {<<>>, <<"payment">>, <<"payment", "payment">>, <<"payment", "accountMerge">>,
   <<"accountMerge", "payment">>, <<"payment", "payment", "payment">>,
   [i \in 1 .. 5 |-> "payment"], [i \in 1 .. 6 |-> "payment"]}

MCBids == {-1, 0, 50, 100, 150, 199, 200, 250, 350, 500, 999, 1000, 1001, 2250}

MCMemos ==
  {[fields |-> 0, type |-> "none", fits |-> TRUE], [fields |-> 1, type |-> "text", fits |-> TRUE],
   [fields |-> 1, type |-> "text", fits |-> FALSE], [fields |-> 1, type |-> "id", fits |-> FALSE],
   [fields |-> 2, type |-> "hash", fits |-> TRUE]}

\* Envelopes from elsewhere: a fee that is no multiple of the operations, one
\* with a resource fee, one below the floor, one with a memo out of bounds.
MCReceived ==
  {[by |-> "received", bid |-> f, ops |-> ops, fee |-> f, resource |-> r, memo |-> memo, signed |-> FALSE] :
     f \in {0, 50, 250, 350, 950}, ops \in {<<"payment">>, <<"payment", "payment">>, <<"payment", "payment", "payment">>},
     r \in {0, 1}, memo \in {m \in MCMemos : m.fields < 2}}

MCStats ==
  {[base |-> b, fee |-> f, reference |-> r, usage |-> u] :
     b \in {100, 150}, f \in {100, 150, 1000, 5000}, r \in {0, 100, 250}, u \in {0, 60, 80, 95}}

=============================================================================
