-------------------------------- MODULE Batch --------------------------------
(***************************************************************************)
(* BatchTransactionBuilder of transaction/src/batch.ts: a mutable list of   *)
(* operations of several agents with explicit (dependsOn) and implicit      *)
(* dependencies (an account is created, trusted or merged in the batch),    *)
(* put in order on request, validated, and built into a payload that is     *)
(* cached until the next change.                                            *)
(*                                                                          *)
(* An operation is a record of its type, id, the ids it depends on, source, *)
(* destination and asset, and whether its own values are valid.  An id is   *)
(* kept as it was given, blanks around it included, and is Unset when none  *)
(* was.  The names depended on are those that both readers get by trimming, *)
(* none of them blank; addresses and assets are trimmed wherever they are   *)
(* read, and "" is an absent one; the code treats both alike.               *)
(***************************************************************************)
EXTENDS FeeRules, Optional, FiniteSets, Functions

CONSTANTS OpSpecs,     \* the operations that may be added
          PositionalIds, \* [i]: the name of an operation without id at position i
          Trim(_),     \* String.prototype.trim(), on the ids in use
          Accounts,    \* the accounts that may be the source
          Fees,        \* the fee bids tried; 0 stands for none given
          MemoFields,  \* of "text", "hash", "return" and "id", those that are set
          MaxBuilds    \* a bound on build()

VARIABLES operations,  \* this.operations
          source,      \* this.source, the account, or ""
          sequence,    \* the sequence number of that Account object
          fee,         \* this.fee
          memos,       \* which of memoText, memoHash, memoReturn, memoId are set
          cached,      \* this.cachedPayload, or NoPayload
          builds       \* successful builds so far

batchVars == <<operations, source, sequence, fee, memos, cached, builds>>

NoPayload == [count |-> 0]
BatchOpTypes == {"payment", "createAccount", "changeTrust", "accountMerge", "manageData", "custom"}

-----------------------------------------------------------------------------
(* The dependencies of a list of operations.                                *)

SourceOf(op, txSource) == IF op.src # "" THEN op.src ELSE txSource

\* A map filled in order keeps the last index of a key.
LastOf(S) == CHOOSE i \in S : \A j \in S : j <= i

Creations(ops, account) == {i \in DOMAIN ops : ops[i].type = "createAccount" /\ ops[i].dst = account}
Trusts(ops, holder, asset, txSource) ==
  {i \in DOMAIN ops :
     ops[i].type = "changeTrust" /\ SourceOf(ops[i], txSource) = holder /\ ops[i].asset = asset}
Merges(ops, account, txSource) ==
  {i \in DOMAIN ops : ops[i].type = "accountMerge" /\ SourceOf(ops[i], txSource) = account}

\* The accounts whose creation an operation waits for.
UsesAccounts(op, txSource) ==
  {SourceOf(op, txSource)} \cup (IF op.type # "createAccount" /\ op.dst # "" THEN {op.dst} ELSE {})

IsCreditPayment(op) == op.type = "payment" /\ op.asset # "XLM"

-----------------------------------------------------------------------------
(* validate(): the first error in the order of the code, or "ok".           *)

\* assertValidSpec()
SpecError(op) ==
  FirstOf(<<Fails(op.type \notin BatchOpTypes, "INVALID_OPERATION_TYPE"),
            Fails(op.type = "changeTrust" /\ op.asset = "XLM", "INVALID_ASSET"),
            Fails(op.type \in {"payment", "createAccount", "accountMerge"} /\ op.dst = "",
                  "INVALID_STELLAR_ADDRESS"),
            Fails(~op.fits, "INVALID_FIELD")>>)

SizeError(n) == Fails(n > MaxOperations, "TOO_MANY_OPERATIONS")

\* validateDependencies(), pass 1 and 2: the trimmed ids; "" is none
IdOf(op) == IF op.id = Unset THEN "" ELSE Trim(op.id)

IdsTaken(ops) == {IdOf(ops[i]) : i \in DOMAIN ops} \ {""}

DuplicateIds(ops) ==
  \E i, j \in DOMAIN ops : i < j /\ IdOf(ops[i]) # "" /\ IdOf(ops[i]) = IdOf(ops[j])

DependencyError(ops, i) ==
  IF \E d \in ops[i].deps : d \notin IdsTaken(ops) THEN "DEPENDENCY_NOT_FOUND"
  ELSE IF \E d \in ops[i].deps : \E j \in DOMAIN ops : IdOf(ops[j]) = d /\ j >= i
       THEN "INVALID_DEPENDENCY_ORDER" ELSE "ok"

\* validateDependencies(), pass 3: what the batch creates, trusts and merges
ImplicitError(ops, i, txSource) ==
  LET op == ops[i]
      src == SourceOf(op, txSource)
      TooEarly(S) == S # {} /\ LastOf(S) > i
      TooLate(S) == S # {} /\ i > LastOf(S)
  IN  FirstOf(<<Fails(\E a \in UsesAccounts(op, txSource) : TooEarly(Creations(ops, a)),
                      "UNCREATED_ACCOUNT_DEPENDENCY"),
                Fails(IsCreditPayment(op) /\ TooEarly(Trusts(ops, op.dst, op.asset, txSource)),
                      "UNTRUSTED_ASSET_DEPENDENCY"),
                Fails(TooLate(Merges(ops, src, txSource)), "ACCOUNT_MERGED_VIOLATION"),
                Fails(op.dst # "" /\ TooLate(Merges(ops, op.dst, txSource)),
                      "ACCOUNT_MERGED_VIOLATION")>>)

DependenciesError(ops, txSource) ==
  FirstOf(<<Fails(DuplicateIds(ops), "DUPLICATE_OPERATION_ID")>>
          \o [i \in DOMAIN ops |-> DependencyError(ops, i)]
          \o [i \in DOMAIN ops |-> ImplicitError(ops, i, txSource)])

ValidateError(ops, txSource, bid) ==
  FirstOf(<<Fails(ops = <<>>, "EMPTY_OPERATIONS"),
            SizeError(Len(ops)),
            Fails(txSource = "", "INVALID_SOURCE_ACCOUNT"),
            BidError(bid, Len(ops))>>
          \o [i \in DOMAIN ops |-> SpecError(ops[i])]
          \o <<DependenciesError(ops, txSource)>>)

-----------------------------------------------------------------------------
(* resolveDependencies(): an edge <<u, v>> puts operation u before v.       *)

\* An id as it was given, not trimmed; an operation without id can be named by
\* its position.
EdgeId(ops, i) == IF ops[i].id # Unset THEN ops[i].id ELSE PositionalIds[i]

Named(ops, id) == {i \in DOMAIN ops : EdgeId(ops, i) = id}

DeclaredEdges(ops) ==
  UNION {{<<LastOf(Named(ops, d)), v>> : d \in {d \in ops[v].deps : Named(ops, d) # {}}} : v \in DOMAIN ops}

CreationEdges(ops, txSource) ==
  UNION {{<<LastOf(Creations(ops, a)), v>> :
            a \in {a \in UsesAccounts(ops[v], txSource) : Creations(ops, a) # {}}} : v \in DOMAIN ops}

TrustEdges(ops, txSource) ==
  LET TrustsOf(v) == Trusts(ops, ops[v].dst, ops[v].asset, txSource)
  IN  {<<LastOf(TrustsOf(v)), v>> : v \in {v \in DOMAIN ops : IsCreditPayment(ops[v]) /\ TrustsOf(v) # {}}}

\* Every operation of an account comes before its merge.
MergeEdges(ops, txSource) ==
  UNION {{<<u, v>> : u \in {u \in DOMAIN ops : SourceOf(ops[u], txSource) = SourceOf(ops[v], txSource)}} :
           v \in {v \in DOMAIN ops : ops[v].type = "accountMerge"}}

EdgesWithSelfLoops(ops, txSource) ==
  DeclaredEdges(ops) \cup CreationEdges(ops, txSource)
    \cup TrustEdges(ops, txSource) \cup MergeEdges(ops, txSource)

Edges(ops, txSource) ==
  {e \in DeclaredEdges(ops) \cup CreationEdges(ops, txSource)
           \cup TrustEdges(ops, txSource) \cup MergeEdges(ops, txSource) : e[1] # e[2]}

\* The members of S, positions up to n, in ascending order.
Ascending(n, S) ==
  LET upTo[i \in 0 .. n] ==
        IF i = 0 THEN <<>> ELSE IF i \in S THEN Append(upTo[i - 1], i) ELSE upTo[i - 1]
  IN  upTo[n]

FreedTooSoon(edges, order, u) ==
  {v \in {e[2] : e \in {f \in edges : f[1] = u}} : v \notin Range(order)}

\* What u was the last obstacle of, now that it is in order
Freed(edges, order, u) ==
  {v \in {e[2] : e \in {f \in edges : f[1] = u}} :
     \A e \in edges : e[2] = v => e[1] \in Range(order)}

\* Kahn's algorithm with a first-in first-out queue.  It begins with what has
\* no obstacle; a step takes the head and queues, in ascending order, what it frees.
Begun(n, edges) ==
  [order |-> <<>>, queue |-> Ascending(n, {i \in 1 .. n : \A e \in edges : e[2] # i})]

Advanced(n, edges, s) ==
  IF s.queue = <<>> THEN s
  ELSE LET u == Head(s.queue)
           order == Append(s.order, u)
       IN  [order |-> order, queue |-> Tail(s.queue) \o Ascending(n, Freed(edges, order, u))]

Kahn(n, edges) ==
  LET step[k \in 0 .. n] ==
        IF k = 0 THEN Begun(n, edges) ELSE Advanced(n, edges, step[k - 1])
  IN  step[n].order

Order(ops, txSource) == Kahn(Len(ops), Edges(ops, txSource))

Resolves(ops, txSource) == Len(Order(ops, txSource)) = Len(ops)   \* else CIRCULAR_DEPENDENCY

Resolved(ops, txSource) ==
  LET order == Order(ops, txSource) IN [k \in DOMAIN ops |-> ops[order[k]]]

-----------------------------------------------------------------------------
(* The builder's methods.                                                   *)

Bid(ops, f) == IF f = 0 THEN Len(ops) * MinBaseFee ELSE f

InvalidatedUnlessBuilt == cached

\* invalidateCache(), the first thing every setter does
Invalidated == NoPayload

\* The payload: what the settings and a sequence number determine.
PayloadOf(ops, src, f, ms, seq) ==
  [sequence |-> seq, count |-> Len(ops), operations |-> ops, source |-> src, fee |-> Bid(ops, f),
   perOp |-> PerOperationFee(Bid(ops, f), Len(ops)), memo |-> ms,
   ids |-> [i \in DOMAIN ops |-> EdgeId(ops, i)]]

BatchInit ==
  /\ operations = <<>>
  /\ source \in Accounts \cup {""}
  /\ sequence = 0
  /\ fee = 0
  /\ memos = {}
  /\ cached = NoPayload
  /\ builds = 0

AddOperation(op) ==
  /\ Len(operations) <= MaxOperations
  /\ operations' = Append(operations, op)
  /\ cached' = Invalidated
  /\ UNCHANGED <<source, sequence, fee, memos, builds>>

Clear ==
  /\ operations # <<>>
  /\ operations' = <<>>
  /\ cached' = Invalidated
  /\ UNCHANGED <<source, sequence, fee, memos, builds>>

\* setSource(): a fresh Account object, with its own sequence number
SetSource(account) ==
  /\ source' = account
  /\ sequence' = 0
  /\ cached' = Invalidated
  /\ UNCHANGED <<operations, fee, memos, builds>>

\* Bound: a behaviour sets fees or memos, not both.
SetFee(f) ==
  /\ memos = {}
  /\ fee' = f
  /\ cached' = Invalidated
  /\ UNCHANGED <<operations, source, sequence, memos, builds>>

\* setMemoText(), setMemoHash(), setMemoReturn(), setMemoId(): no setter clears another memo
SetMemo(field) ==
  /\ fee = 0
  /\ memos' = memos \cup {field}
  /\ cached' = Invalidated
  /\ UNCHANGED <<operations, source, sequence, fee, builds>>

\* reorderOperationsByDependencies()
Reorder ==
  /\ Len(operations) > 1
  /\ Resolves(operations, source)
  /\ operations' = Resolved(operations, source)
  /\ cached' = Invalidated
  /\ UNCHANGED <<source, sequence, fee, memos, builds>>

\* build(): the cached payload, or a new one; stellar-base takes the next
\* sequence number of the Account object.  More than one memo is an error.
Build ==
  /\ cached = NoPayload
  /\ builds < MaxBuilds
  /\ ValidateError(operations, source, Bid(operations, fee)) = "ok"
  /\ Cardinality(memos) <= 1
  /\ cached' = PayloadOf(operations, source, fee, memos, sequence + 1)
  /\ sequence' = sequence + 1
  /\ builds' = builds + 1
  /\ UNCHANGED <<operations, source, fee, memos>>

BatchNext ==
  \/ \E op \in OpSpecs : AddOperation(op)
  \/ Clear
  \/ \E a \in Accounts : SetSource(a)
  \/ \E f \in Fees : SetFee(f)
  \/ \E field \in MemoFields : SetMemo(field)
  \/ Reorder
  \/ Build

BatchSpec == BatchInit /\ [][BatchNext]_batchVars

-----------------------------------------------------------------------------
(* Properties.                                                              *)

\* The payload build() hands out from its cache is the one the present
\* settings give, and the Account has not moved on since (batch.ts:402, :938).
CacheIsFresh ==
  cached # NoPayload =>
    cached = PayloadOf(operations, source, fee, memos, sequence)

\* No permutation of the operations puts all edges in order when
\* resolveDependencies() throws CIRCULAR_DEPENDENCY (batch.ts:912).
CycleMeansNoOrder ==
  ~Resolves(operations, source) =>
    \A p \in Injection(DOMAIN operations, DOMAIN operations) :
      \E e \in Edges(operations, source) : p[e[1]] > p[e[2]]

\* The batches the promise of resolveDependencies() is kept for: ids are given
\* without blanks around them, distinct and no positional ones; dependencies
\* exist; an account is created, and an asset trusted, once; and no merged
\* account is anybody's destination.
Unambiguous(ops, txSource) ==
  /\ \A i \in DOMAIN ops : ops[i].id # Unset => ops[i].id = IdOf(ops[i]) /\ ops[i].id # ""
  /\ ~DuplicateIds(ops)
  /\ \A i \in DOMAIN ops : ops[i].deps \subseteq IdsTaken(ops)
  /\ \A i \in DOMAIN ops : ops[i].id = Unset => PositionalIds[i] \notin IdsTaken(ops)
  /\ \A i \in DOMAIN ops : IdOf(ops[i]) \notin ops[i].deps
  /\ \A i \in DOMAIN ops :
       /\ Cardinality(Creations(ops, ops[i].dst)) <= 1
       /\ Cardinality(Trusts(ops, ops[i].dst, ops[i].asset, txSource)) <= 1
       /\ ops[i].dst # "" => Merges(ops, ops[i].dst, txSource) = {}

\* Put in order, such a batch passes the dependency checks of validate(),
\* whatever order it was added in: the two halves of the code that know the
\* dependencies, one as edges (batch.ts:800) and one as index comparisons
\* (batch.ts:638), agree.
ReorderedIsValid ==
  Unambiguous(operations, source) /\ Resolves(operations, source) =>
    DependenciesError(Resolved(operations, source), source) = "ok"
=============================================================================
