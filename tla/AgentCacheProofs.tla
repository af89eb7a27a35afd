-------------------------- MODULE AgentCacheProofs --------------------------
(***************************************************************************)
(* What is proved of AgentCache, for any number of agents, mutations,      *)
(* lists and fetches: an entry that is believed fresh once everything has  *)
(* settled is true.                                                        *)
(***************************************************************************)
EXTENDS AgentCache, TLAPS

-----------------------------------------------------------------------------
(* The invariant.                                                          *)

Phases == {"idle", "cancelled", "snapshotted", "sending", "succeeded", "failed", "restored", "done"}

\* A fetch is none, or one with what it knows so far.
IsFetch(f) ==
  \/ f = NoFetch
  \/ /\ f = [running |-> TRUE, answer |-> f.answer, read |-> f.read, old |-> f.old]
     /\ f.read \in BOOLEAN /\ f.old \in BOOLEAN

TypeOK ==
  /\ phase \in [Mutations -> Phases]
  /\ fetch = [k \in Keys |-> fetch[k]] /\ \A k \in Keys : IsFetch(fetch[k])
  /\ data = [k \in Keys |-> data[k]]

Settled == \A m \in Mutations : ~InProgress(m)

\* While nothing is in progress the server stands still.  An entry is then
\* stale, or known to have been missed by its last fetch, or what the server
\* has; and what a fetch of after the last invalidation has read is true,
\* whether or not it has landed.
EntriesInv ==
  Settled =>
    \A k \in Keys : Loaded(k) /\ k \notin invalid /\ k \notin missed => data[k] = Truth(k)

FetchesInv ==
  Settled =>
    \A k \in Keys : fetch[k] # NoFetch /\ fetch[k].read /\ ~fetch[k].old => fetch[k].answer = Truth(k)

IInv == TypeOK /\ EntriesInv /\ FetchesInv
-----------------------------------------------------------------------------
(* Lemmas about the steps that several actions share.                      *)

\* Of a fetch, invalidating changes one field and reading two.
LEMMA Aged ==
  ASSUME NEW f, IsFetch(f), f # NoFetch
  PROVE  LET g == [f EXCEPT !.old = TRUE]
         IN  IsFetch(g) /\ g.old
<1>1. PICK a, r, o : /\ f = [running |-> TRUE, answer |-> a, read |-> r, old |-> o]
                     /\ r \in BOOLEAN
  BY DEF IsFetch
<1>2. PICK g : g = [f EXCEPT !.old = TRUE]
  OBVIOUS
<1>3. g = [running |-> TRUE, answer |-> a, read |-> r, old |-> TRUE]
  BY <1>1, <1>2
<1>4. IsFetch(g) /\ g.old
  BY <1>1, <1>3 DEF IsFetch
<1> QED BY <1>2, <1>4

LEMMA Answered ==
  ASSUME NEW f, IsFetch(f), f # NoFetch, NEW n
  PROVE  LET g == [f EXCEPT !.read = TRUE, !.answer = n]
         IN  IsFetch(g) /\ g.old = f.old /\ g.answer = n
<1>1. PICK a, r, o : /\ f = [running |-> TRUE, answer |-> a, read |-> r, old |-> o]
                     /\ o \in BOOLEAN
  BY DEF IsFetch
<1>2. PICK g : g = [f EXCEPT !.read = TRUE, !.answer = n]
  OBVIOUS
<1>3. g = [running |-> TRUE, answer |-> n, read |-> TRUE, old |-> o]
  BY <1>1, <1>2
<1>4. IsFetch(g) /\ g.old = f.old /\ g.answer = n
  BY <1>1, <1>3 DEF IsFetch
<1> QED BY <1>2, <1>4

\* The phases a mutation can go to are phases.
LEMMA GoesTyped ==
  ASSUME TypeOK, NEW m \in Mutations, NEW next \in Phases, Goes(m, next)
  PROVE  /\ phase' \in [Mutations -> Phases]
         /\ phase'[m] = next
         /\ \A o \in Mutations : o # m => phase'[o] = phase[o]
  BY DEF TypeOK, Goes

\* Writing entries leaves the fetches alone and the cache a function of the
\* keys.
LEMMA WriteTyped ==
  ASSUME NEW new, Write(new)
  PROVE  data' = [k \in Keys |-> data'[k]] /\ fetch' = fetch
  BY DEF Write

\* Invalidating marks every fetch of a marked entry that it does not start
\* itself as begun before it.
LEMMA InvalidateFetches ==
  ASSUME TypeOK, NEW marked, NEW refetched, Invalidate(marked, refetched)
  PROVE  /\ fetch' = [k \in Keys |-> fetch'[k]]
         /\ \A k \in Keys : IsFetch(fetch'[k])
         /\ \A k \in Keys \cap marked :
              fetch'[k] # NoFetch => ~fetch'[k].read \/ fetch'[k].old
<1>1. fetch' = [k \in Keys |-> fetch'[k]]
  BY DEF Invalidate
<1>2. ASSUME NEW k \in Keys
      PROVE  /\ IsFetch(fetch'[k])
             /\ k \in marked => (fetch'[k] # NoFetch => ~fetch'[k].read \/ fetch'[k].old)
  <2>1. CASE fetch'[k] = Started
    BY <2>1 DEF Started, IsFetch
  <2>2. CASE fetch[k] # NoFetch /\ fetch'[k] = [fetch[k] EXCEPT !.old = TRUE]
    BY <2>2, Aged DEF TypeOK
  <2>3. CASE fetch'[k] = fetch[k] /\ (fetch[k] = NoFetch \/ k \notin marked)
    BY <2>3 DEF TypeOK
  <2> QED BY <2>1, <2>2, <2>3 DEF Invalidate
<1> QED BY <1>1, <1>2

\* Whatever a mutation in progress does, it is in progress before, and after
\* too unless it settles.
LEMMA Unsettled ==
  ASSUME NEW m \in Mutations, phase[m] \notin {"idle", "done"}
  PROVE  ~Settled
  BY DEF Settled, InProgress

-----------------------------------------------------------------------------
(* The invariant is inductive.                                             *)

LEMMA InitIInv == Init => IInv
  BY DEF Init, IInv, TypeOK, EntriesInv, FetchesInv, Phases, IsFetch, NoFetch,
         Loaded

\* The fetches.
LEMMA FetchKeeps == ASSUME IInv, NEW k \in Keys, Fetch(k) PROVE IInv'
<1> USE DEF Fetch
<1>1. \A l \in Keys : fetch'[l] = IF l = k THEN Started ELSE fetch[l]
  BY DEF IInv, TypeOK
<1>2. TypeOK'
  BY <1>1 DEF IInv, TypeOK, Started, IsFetch
<1>3. EntriesInv'
  BY DEF IInv, EntriesInv, Settled, InProgress, Loaded, Truth
<1>4. FetchesInv'
  <2> SUFFICES ASSUME Settled', NEW l \in Keys,
                      fetch'[l] # NoFetch, fetch'[l].read, ~fetch'[l].old
               PROVE  fetch'[l].answer = Truth(l)
    BY DEF FetchesInv, Truth
  <2>1. l # k
    BY <1>1 DEF Started
  <2> QED BY <1>1, <2>1 DEF IInv, FetchesInv, Settled, InProgress
<1> QED BY <1>2, <1>3, <1>4 DEF IInv

LEMMA ReadKeeps == ASSUME IInv, NEW k \in Keys, Read(k) PROVE IInv'
<1> USE DEF Read
<1>1. /\ fetch'[k] = [fetch[k] EXCEPT !.read = TRUE, !.answer = Truth(k)]
      /\ \A l \in Keys : l # k => fetch'[l] = fetch[l]
      /\ fetch' = [l \in Keys |-> fetch'[l]]
  BY DEF IInv, TypeOK
<1>2. /\ IsFetch(fetch'[k])
      /\ fetch'[k].old = fetch[k].old /\ fetch'[k].answer = Truth(k)
  <2>1. IsFetch(fetch[k]) /\ fetch[k] # NoFetch
    BY DEF IInv, TypeOK
  <2>2. LET g == [fetch[k] EXCEPT !.read = TRUE, !.answer = Truth(k)]
        IN  IsFetch(g) /\ g.old = fetch[k].old /\ g.answer = Truth(k)
    <3> HIDE DEF Read
    <3> QED BY <2>1, Answered, Zenon
  <2> QED BY <1>1, <2>2
<1>3. TypeOK'
  BY <1>1, <1>2 DEF IInv, TypeOK
<1>4. EntriesInv'
  BY DEF IInv, EntriesInv, Settled, InProgress, Loaded, Truth
<1>5. FetchesInv'
  <2> SUFFICES ASSUME Settled', NEW l \in Keys,
                      fetch'[l] # NoFetch, fetch'[l].read, ~fetch'[l].old
               PROVE  fetch'[l].answer = Truth(l)
    BY DEF FetchesInv, Truth
  <2>1. CASE l = k
    BY <1>2, <2>1
  <2>2. CASE l # k
    BY <1>1, <2>2 DEF IInv, FetchesInv, Settled, InProgress
  <2> QED BY <2>1, <2>2
<1> QED BY <1>3, <1>4, <1>5 DEF IInv

LEMMA LandKeeps == ASSUME IInv, NEW k \in Keys, Land(k) PROVE IInv'
<1> USE DEF Land
<1>1. /\ fetch'[k] = NoFetch
      /\ \A l \in Keys : l # k => fetch'[l] = fetch[l]
      /\ Settled' = Settled /\ \A l \in Keys : Truth(l)' = Truth(l)
  BY DEF IInv, TypeOK, Settled, InProgress, Truth
<1>2. TypeOK'
  BY <1>1 DEF IInv, TypeOK, IsFetch
<1>3. EntriesInv'
  <2> SUFFICES ASSUME Settled', NEW l \in Keys, Loaded(l)', l \notin invalid', l \notin missed'
               PROVE  data'[l] = Truth(l)
    BY <1>1 DEF EntriesInv
  <2>1. CASE fetch[k].answer = Missing \/ l # k
    BY <2>1, <1>1 DEF IInv, TypeOK, EntriesInv, Loaded
  <2>2. CASE fetch[k].answer # Missing /\ l = k
    <3>1. data'[k] = fetch[k].answer
      BY <2>2 DEF IInv, TypeOK
    <3>2. ~fetch[k].old
      BY <2>2
    <3> QED BY <2>2, <3>1, <3>2, <1>1 DEF IInv, FetchesInv
  <2> QED BY <2>1, <2>2
<1>4. FetchesInv'
  BY <1>1 DEF IInv, FetchesInv
<1> QED BY <1>2, <1>3, <1>4 DEF IInv

\* The mutations.  All but the settling leave a mutation in progress.
LEMMA StaysUnsettled ==
  ASSUME TypeOK', NEW m \in Mutations, phase'[m] \notin {"idle", "done"}
  PROVE  EntriesInv' /\ FetchesInv'
  BY DEF EntriesInv, FetchesInv, Settled, InProgress

LEMMA OnMutateKeeps == ASSUME IInv, NEW m \in Mutations, OnMutate(m) PROVE IInv'
<1> USE DEF OnMutate
<1>1. phase' \in [Mutations -> Phases] /\ phase'[m] = "cancelled"
  BY GoesTyped DEF IInv, Phases
<1>2. fetch' = [k \in Keys |-> NoFetch]
  OBVIOUS
<1>3. TypeOK'
  BY <1>1, <1>2 DEF IInv, TypeOK, IsFetch
<1>4. EntriesInv' /\ FetchesInv'
  BY <1>1, <1>3, StaysUnsettled
<1> QED BY <1>3, <1>4 DEF IInv

LEMMA SnapshotKeeps == ASSUME IInv, NEW m \in Mutations, Snapshot(m) PROVE IInv'
<1> USE DEF Snapshot, cacheVars
<1>1. phase' \in [Mutations -> Phases] /\ phase'[m] = "snapshotted"
  BY GoesTyped DEF IInv, Phases
<1>2. TypeOK'
  BY <1>1 DEF IInv, TypeOK
<1>3. EntriesInv' /\ FetchesInv'
  BY <1>1, <1>2, StaysUnsettled
<1> QED BY <1>2, <1>3 DEF IInv

LEMMA PatchKeeps == ASSUME IInv, NEW m \in Mutations, Patch(m) PROVE IInv'
<1> USE DEF Patch
<1>1. phase' \in [Mutations -> Phases] /\ phase'[m] \in {"failed", "sending"}
  BY GoesTyped DEF IInv, Phases
<1>2. fetch' = fetch /\ data' = [k \in Keys |-> data'[k]]
  BY WriteTyped
<1>3. TypeOK'
  BY <1>1, <1>2 DEF IInv, TypeOK
<1>4. EntriesInv' /\ FetchesInv'
  BY <1>1, <1>3, StaysUnsettled
<1> QED BY <1>3, <1>4 DEF IInv

LEMMA ServeKeeps == ASSUME IInv, NEW m \in Mutations, Serve(m) PROVE IInv'
<1> USE DEF Serve, cacheVars
<1>1. phase' \in [Mutations -> Phases] /\ phase'[m] \in {"succeeded", "failed"}
  <2>1. Goes(m, "succeeded") \/ Goes(m, "failed")
    OBVIOUS
  <2> QED BY <2>1, GoesTyped DEF IInv, Phases
<1>2. TypeOK'
  BY <1>1 DEF IInv, TypeOK
<1>3. EntriesInv' /\ FetchesInv'
  BY <1>1, <1>2, StaysUnsettled
<1> QED BY <1>2, <1>3 DEF IInv

LEMMA OnErrorKeeps == ASSUME IInv, NEW m \in Mutations, OnError(m) PROVE IInv'
<1> USE DEF OnError
<1>1. /\ phase' \in [Mutations -> Phases] /\ phase'[m] = "restored"
      /\ \A o \in Mutations : o # m => phase'[o] = phase[o]
  BY GoesTyped DEF IInv, Phases
<1>2. fetch' = fetch /\ data' = [k \in Keys |-> data'[k]]
  BY WriteTyped
<1>3. TypeOK'
  BY <1>1, <1>2 DEF IInv, TypeOK
<1>4. EntriesInv' /\ FetchesInv'
  BY <1>1, <1>3, StaysUnsettled
<1> QED BY <1>3, <1>4 DEF IInv

\* The last mutation to settle marks every entry, and every fetch it does not
\* start itself is begun before that.
LEMMA OnSettledKeeps == ASSUME IInv, NEW m \in Mutations, OnSettled(m) PROVE IInv'
<1> USE DEF OnSettled
<1>1. /\ phase' \in [Mutations -> Phases] /\ phase'[m] = "done"
      /\ \A o \in Mutations : o # m => phase'[o] = phase[o]
  BY GoesTyped DEF IInv, Phases
<1>2. /\ fetch' = [k \in Keys |-> fetch'[k]]
      /\ \A k \in Keys : IsFetch(fetch'[k])
      /\ \A k \in Keys : fetch'[k] # NoFetch => ~fetch'[k].read \/ fetch'[k].old
  BY InvalidateFetches DEF IInv, Marked
<1>3. invalid' = invalid \cup Keys /\ data' = data
  BY DEF Invalidate, Marked
<1>4. TypeOK'
  BY <1>1, <1>2, <1>3 DEF IInv, TypeOK
<1>5. EntriesInv'
  BY <1>3 DEF EntriesInv
<1>6. FetchesInv'
  BY <1>2 DEF FetchesInv
<1> QED BY <1>4, <1>5, <1>6 DEF IInv

LEMMA StutterKeeps == ASSUME IInv, UNCHANGED vars PROVE IInv'
  BY DEF IInv, TypeOK, EntriesInv, FetchesInv, IsFetch, Settled, InProgress,
         Loaded, Truth, vars, cacheVars

LEMMA NextIInv == IInv /\ [Next]_vars => IInv'
<1> SUFFICES ASSUME IInv, [Next]_vars PROVE IInv'
  OBVIOUS
<1>1. CASE UNCHANGED vars
  BY <1>1, StutterKeeps
<1>2. ASSUME NEW m \in Mutations, MutationStep(m) PROVE IInv'
  BY <1>2, OnMutateKeeps, SnapshotKeeps, PatchKeeps, ServeKeeps, OnErrorKeeps, OnSettledKeeps
     DEF MutationStep
<1>3. ASSUME NEW k \in Keys, Fetch(k) \/ Read(k) \/ Land(k) PROVE IInv'
  BY <1>3, FetchKeeps, ReadKeeps, LandKeeps
<1> QED BY <1>1, <1>2, <1>3 DEF Next

LEMMA Inductive == Spec => []IInv
  BY InitIInv, NextIInv, PTL DEF Spec

-----------------------------------------------------------------------------
(* What follows.                                                           *)

\* Phases, fetches and cached entries keep their shape.
THEOREM TypeCorrect == Spec => []TypeOK
  BY Inductive, PTL DEF IInv

\* FreshIsTrue: however many mutations overlapped, failed and put back each
\* other's snapshots (optimistic-agent.ts, useAgents.ts), once they have all
\* settled an entry that is not stale, and whose last fetch did not run through
\* an invalidation, is what the server has.
THEOREM SettledIsTrue == Spec => []FreshIsTrue
<1>1. IInv => FreshIsTrue
  BY DEF IInv, EntriesInv, FreshIsTrue, Settled
<1> QED BY <1>1, Inductive, PTL
=============================================================================
