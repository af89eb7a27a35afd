----------------------------- MODULE AgentCache -----------------------------
(***************************************************************************)
(* Optimistic updates of agents in @astroid/react: the mutation hooks of   *)
(* useAgents.ts over the helpers of optimistic-agent.ts.  Mutations overlap *)
(* with each other and with the fetches of the cached lists and details.   *)
(*                                                                         *)
(* An agent is its id and the set of mutations it shows; a list is a set   *)
(* of agents.  The query cache is TanStack Query and external: writing an  *)
(* entry makes it fresh, writing undefined does nothing, invalidating      *)
(* starts a new fetch of a watched entry and leaves one running that is    *)
(* its first; cancelling leaves the entries as they are.  What happens     *)
(* between two awaits is one step, and between two steps of a mutation     *)
(* other mutations go on, components fetch and answers land.               *)
(***************************************************************************)
EXTENDS Naturals, FiniteSets

CONSTANTS
  Agents, Mutations,
  Target,             \* for each mutation: the agent
  Pages, Infinite,    \* cached lists of useAgents(), and of useAgentList()
  Watched,            \* the entries some component shows
  Missing,
  MaxFetches          \* bound: fetches by components

Lists == Pages \union Infinite
Keys == Lists \union Agents   \* the details are keyed by the agent

ASSUME AgentCacheAssumption ==
  /\ Target \in [Mutations -> Agents]
  /\ Watched \subseteq Keys

VARIABLES
  server,    \* the agents there are
  data,      \* what the cache holds of each key
  invalid,   \* the entries marked stale
  fetch,     \* the fetch on its way for each key
  missed,    \* history: the entries whose last fetch ran through an invalidation
  hook,      \* the hook of each mutation
  phase,     \* where each mutation stands
  context,   \* what each has to restore
  fetches    \* fetches by components so far

cacheVars == <<data, invalid, fetch, missed>>
vars == <<server, cacheVars, hook, phase, context, fetches>>

Hooks == {"create", "update", "delete"}
NoFetch == [running |-> FALSE]
NoContext == [k \in {} |-> Missing]

Init ==
  /\ server = {[id |-> a, with |-> {}] : a \in Agents}
  /\ data = [k \in Keys |-> Missing]
  /\ invalid = {} /\ missed = {}
  /\ fetch = [k \in Keys |-> NoFetch]
  /\ hook = [m \in Mutations |-> "none"]
  /\ phase = [m \in Mutations |-> "idle"]
  /\ context = [m \in Mutations |-> NoContext]
  /\ fetches = 0

-----------------------------------------------------------------------------
(* The query cache. *)

Truth(k) ==
  IF k \in Lists THEN server
  ELSE IF \E a \in server : a.id = k THEN CHOOSE a \in server : a.id = k ELSE Missing

Loaded(k) == data[k] # Missing
Started == [running |-> TRUE, answer |-> Missing, read |-> FALSE, old |-> FALSE]

Write(new) ==
  /\ data' = [k \in Keys |-> IF k \in DOMAIN new /\ new[k] # Missing THEN new[k] ELSE data[k]]
  /\ invalid' = invalid \ {k \in DOMAIN new : new[k] # Missing}
  /\ UNCHANGED <<fetch, missed>>

(* Marked are stale; refetched are those of them that are watched. *)
Invalidate(marked, refetched) ==
  /\ invalid' = invalid \union marked
  /\ fetch' = [k \in Keys |->
       IF k \in refetched \intersect Watched /\ (Loaded(k) \/ fetch[k] = NoFetch) THEN Started
       ELSE IF fetch[k] # NoFetch /\ k \in marked THEN [fetch[k] EXCEPT !.old = TRUE]
       ELSE fetch[k]]
  /\ UNCHANGED <<data, missed>>

Fetch(k) ==
  /\ fetches < MaxFetches /\ fetch[k] = NoFetch
  /\ fetch' = [fetch EXCEPT ![k] = Started]
  /\ fetches' = fetches + 1
  /\ UNCHANGED <<server, data, invalid, missed, hook, phase, context>>

Read(k) ==
  /\ fetch[k] # NoFetch /\ ~fetch[k].read
  /\ fetch' = [fetch EXCEPT ![k].read = TRUE, ![k].answer = Truth(k)]
  /\ UNCHANGED <<server, data, invalid, missed, hook, phase, context, fetches>>

(* An agent that is gone is an error, which leaves the entry as it is. *)
Land(k) ==
  /\ fetch[k] # NoFetch /\ fetch[k].read
  /\ IF fetch[k].answer = Missing
     THEN UNCHANGED <<data, invalid, missed>>
     ELSE /\ data' = [data EXCEPT ![k] = fetch[k].answer]
          /\ invalid' = invalid \ {k}
          /\ missed' = IF fetch[k].old THEN missed \union {k} ELSE missed \ {k}
  /\ fetch' = [fetch EXCEPT ![k] = NoFetch]
  /\ UNCHANGED <<server, hook, phase, context, fetches>>

-----------------------------------------------------------------------------
(* A mutation.  cancelQueries() stops the fetches of the whole domain.     *)

Goes(m, next) == phase' = [phase EXCEPT ![m] = next]

OnMutate(m) ==
  /\ phase[m] = "idle" /\ Goes(m, "cancelled")
  /\ \E h \in Hooks : hook' = [hook EXCEPT ![m] = h]
  /\ fetch' = [k \in Keys |-> NoFetch]
  /\ UNCHANGED <<server, data, invalid, missed, context, fetches>>

Touched(m) == Lists \union (IF hook[m] = "create" THEN {} ELSE {Target[m]})

Snapshot(m) ==
  /\ phase[m] = "cancelled" /\ Goes(m, "snapshotted")
  /\ context' = [context EXCEPT ![m] = [k \in Touched(m) |-> data[k]]]
  /\ UNCHANGED <<server, cacheVars, hook, fetches>>

(* What a mutation makes of the agents it knows; a new agent has a         *)
(* temporary id, m, until the server has given it its own.                 *)
Patched(m, agents, new) ==
  CASE hook[m] = "create" -> agents \union {[id |-> new, with |-> {}]}
    [] hook[m] = "update" -> {IF a.id = Target[m] THEN [a EXCEPT !.with = @ \union {m}] ELSE a : a \in agents}
    [] hook[m] = "delete" -> {a \in agents : a.id # Target[m]}

(* What the first steps of the patch write: lists some of the plain lists. *)
Writes(m, lists) ==
  [k \in lists \union {a \in Agents : hook[m] = "update" /\ a = Target[m]} |->
     IF ~Loaded(k) THEN Missing
     ELSE IF k \in Lists THEN Patched(m, data[k], m)
     ELSE [data[k] EXCEPT !.with = @ \union {m}]]

(* The pages of an infinite list are no list of agents: the loop over the  *)
(* lists throws when it comes to one, after any of the others, and the     *)
(* context is lost with it.                                                *)
Throws == \E k \in Infinite : Loaded(k)

Patch(m) ==
  /\ phase[m] = "snapshotted"
  /\ IF Throws
     THEN /\ \E lists \in SUBSET Pages : Write(Writes(m, lists))
          /\ context' = [context EXCEPT ![m] = NoContext]
          /\ Goes(m, "failed")
     ELSE Write(Writes(m, Lists)) /\ Goes(m, "sending") /\ UNCHANGED context
  /\ UNCHANGED <<server, hook, fetches>>

(* The server applies the request or not, and the answer may be lost. *)
Serve(m) ==
  /\ phase[m] = "sending"
  /\ \/ /\ hook[m] = "create" \/ \E a \in server : a.id = Target[m]
        /\ server' = Patched(m, server, <<m>>)
        /\ Goes(m, "succeeded") \/ Goes(m, "failed")
     \/ UNCHANGED server /\ Goes(m, "failed")
  /\ UNCHANGED <<cacheVars, hook, context, fetches>>

OnError(m) ==
  /\ phase[m] = "failed" /\ Goes(m, "restored")
  /\ Write(context[m])
  /\ UNCHANGED <<server, hook, context, fetches>>

Refetched(m) == IF hook[m] = "create" THEN Keys ELSE Lists \union {Target[m]}

MarkedIfSucceeded(m) == IF phase[m] = "succeeded" THEN Keys ELSE {}
Marked(m) == Keys

OnSettled(m) ==
  /\ phase[m] \in {"succeeded", "restored"} /\ Goes(m, "done")
  /\ Invalidate(Marked(m), Refetched(m))
  /\ context' = [context EXCEPT ![m] = NoContext] /\ hook' = [hook EXCEPT ![m] = "none"]
  /\ UNCHANGED <<server, fetches>>

MutationStep(m) == OnMutate(m) \/ Snapshot(m) \/ Patch(m) \/ Serve(m) \/ OnError(m) \/ OnSettled(m)

Next ==
  \/ \E m \in Mutations : MutationStep(m)
  \/ \E k \in Keys : Fetch(k) \/ Read(k) \/ Land(k)

Spec == Init /\ [][Next]_vars
-----------------------------------------------------------------------------
(* Properties. *)

InProgress(m) == phase[m] \notin {"idle", "done"}

(* Once the mutations have settled, however they overlapped, failed and    *)
(* restored each other's snapshots, no entry is believed fresh that is not *)
(* what the server has: a temporary agent, a lost update and a deleted     *)
(* agent that came back are all marked for a refetch.  The exception is an *)
(* entry whose fetch was left running when a mutation settled.             *)
FreshIsTrue ==
  (\A m \in Mutations : ~InProgress(m)) =>
    \A k \in Keys :
      Loaded(k) /\ k \notin invalid /\ k \notin missed /\ fetch[k] = NoFetch => data[k] = Truth(k)
=============================================================================
