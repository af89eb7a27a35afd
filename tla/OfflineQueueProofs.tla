-------------------------- MODULE OfflineQueueProofs --------------------------
(***************************************************************************)
(* What holds of OfflineQueue for any number of entries, flushes, replays  *)
(* and faults, as long as no two calls overlap.                            *)
(***************************************************************************)
EXTENDS OfflineQueue, SequenceTheorems, TLAPS

(* s keeps to the order of a: whatever of s is in a stands there in the     *)
(* order it has in s.  With every entry of s in a, s repeats nothing.       *)
Follows(s, a) ==
  \A i, j \in 1 .. Len(s) : \A k, l \in 1 .. Len(a) :
    i < j /\ s[i] = a[k] /\ s[j] = a[l] => k < l

(* s is a queue one may go on with when a was accepted and d has been dealt *)
(* with: accepted entries only, in their order, and all those still owed.   *)
Carries(s, a, d) ==
  /\ Follows(s, a)
  /\ Members(s) \subseteq Members(a)
  /\ Members(a) \subseteq Members(s) \cup d

Sound(s) == Carries(s, accepted, acked \cup cleared)

(* Calls do not overlap.                                                    *)
Serial == \A c, d \in Unfinished : c = d

(* The history: an entry is accepted once, by its own enqueue(), and only   *)
(* accepted ones are acknowledged.                                          *)
AcceptedInv ==
  /\ Follows(accepted, accepted)
  /\ \A e \in Entries : e \in Members(accepted) <=> enqueuer[e] = "done"
  /\ acked \subseteq Members(accepted)

(* The storage, and the array every call works on, are sound.               *)
CopyInv ==
  /\ Sound(stored)
  /\ \A e \in Entries : enqueuer[e] = "loaded" => copy[e] = Append(stored, e)
  /\ \A f \in Flushers : flusher[f] # "idle" => Sound(copy[f])

(* Until something fails, the storage holds an acknowledged entry only      *)
(* between the replay and the save after it, and no copy does.              *)
CleanInv ==
  ~disturbed =>
    /\ \A f \in Flushers : flusher[f] # "idle" => Members(copy[f]) \cap acked = {}
    /\ (\A f \in Flushers : flusher[f] # "saving") => Members(stored) \cap acked = {}

IInv == ~Overlapping /\ TypeOK /\ Serial /\ AcceptedInv /\ CopyInv /\ CleanInv

-----------------------------------------------------------------------------
(* The members of a queue that was appended to, and of one that was shifted. *)
LEMMA AppendMembers ==
  ASSUME NEW s \in Seq(Entries), NEW e \in Entries
  PROVE  /\ Append(s, e) \in Seq(Entries)
         /\ Len(s) \in Nat /\ Len(Append(s, e)) = Len(s) + 1
         /\ \A i \in 1 .. Len(s) : Append(s, e)[i] = s[i]
         /\ Append(s, e)[Len(s) + 1] = e
         /\ Members(Append(s, e)) = Members(s) \cup {e}
<1>1. /\ Append(s, e) \in Seq(Entries)
      /\ Len(s) \in Nat /\ Len(Append(s, e)) = Len(s) + 1
      /\ \A i \in 1 .. Len(s) : Append(s, e)[i] = s[i]
      /\ Append(s, e)[Len(s) + 1] = e
  BY AppendProperties, LenProperties
<1> DEFINE t == Append(s, e)
<1> HIDE DEF t
<1>2. DOMAIN s = 1 .. Len(s) /\ DOMAIN t = 1 .. Len(s) + 1
  BY <1>1, LenProperties DEF t
<1>3. 1 .. Len(s) + 1 = (1 .. Len(s)) \cup {Len(s) + 1}
  BY <1>1
<1>4. Members(t) = {t[i] : i \in (1 .. Len(s)) \cup {Len(s) + 1}}
  BY <1>2, <1>3 DEF Members
<1>5. Members(s) = {s[i] : i \in 1 .. Len(s)}
  BY <1>2 DEF Members
<1>6. (\A i \in 1 .. Len(s) : t[i] = s[i]) /\ t[Len(s) + 1] = e
  BY <1>1 DEF t
<1>7. Members(t) = Members(s) \cup {e}
  BY <1>4, <1>5, <1>6
<1> QED BY <1>1, <1>7 DEF t

LEMMA TailMembers ==
  ASSUME NEW s \in Seq(Entries), s # <<>>
  PROVE  /\ Len(s) \in Nat /\ Len(s) >= 1
         /\ Head(s) = s[1] /\ Head(s) \in Entries
         /\ Tail(s) \in Seq(Entries) /\ Len(Tail(s)) = Len(s) - 1
         /\ \A i \in 1 .. Len(s) - 1 : Tail(s)[i] = s[i + 1]
         /\ Members(s) = {Head(s)} \cup Members(Tail(s))
<1>1. /\ Len(s) \in Nat /\ Len(s) >= 1
      /\ Head(s) = s[1] /\ Head(s) \in Entries
      /\ Tail(s) \in Seq(Entries) /\ Len(Tail(s)) = Len(s) - 1
      /\ \A i \in 1 .. Len(s) - 1 : Tail(s)[i] = s[i + 1]
  BY HeadTailProperties, LenProperties, EmptySeq
<1> DEFINE t == Tail(s)
           n == Len(s) - 1
<1>2. DOMAIN s = 1 .. Len(s) /\ DOMAIN t = 1 .. n /\ n \in Nat
  BY <1>1, LenProperties
<1>3. ASSUME NEW x \in Members(s), x # Head(s) PROVE x \in Members(t)
  <2>1. PICK i \in 1 .. Len(s) : x = s[i]
    BY <1>2 DEF Members
  <2>2. i - 1 \in 1 .. n /\ (i - 1) + 1 = i
    BY <2>1, <1>1, <1>3
  <2>3. t[i - 1] = x
    BY <2>1, <2>2, <1>1
  <2> QED BY <2>2, <2>3, <1>2 DEF Members
<1>4. ASSUME NEW x \in Members(t) PROVE x \in Members(s)
  <2>1. PICK i \in 1 .. n : x = t[i]
    BY <1>2 DEF Members
  <2>2. i + 1 \in 1 .. Len(s) /\ x = s[i + 1]
    BY <2>1, <1>1
  <2> QED BY <2>2, <1>2 DEF Members
<1>5. Head(s) \in Members(s)
  BY <1>1, <1>2 DEF Members
<1> QED BY <1>1, <1>3, <1>4, <1>5

(* An index of a sequence and a member are the same thing.                  *)
LEMMA MemberAt ==
  ASSUME NEW S, NEW s \in Seq(S), NEW x
  PROVE  x \in Members(s) <=> \E i \in 1 .. Len(s) : x = s[i]
  BY LenProperties DEF Members

LEMMA MembersType ==
  ASSUME NEW s \in Seq(Entries)
  PROVE  Members(s) \subseteq Entries
<1>1. \A i \in 1 .. Len(s) : s[i] \in Entries
  BY ElementOfSeq
<1> QED BY <1>1, MemberAt

(* The head of a queue that follows a is ahead of all the rest.             *)
LEMMA FollowsTail ==
  ASSUME NEW s \in Seq(Entries), NEW a \in Seq(Entries), s # <<>>, Follows(s, a),
         Members(s) \subseteq Members(a)
  PROVE  Follows(Tail(s), a) /\ Head(s) \notin Members(Tail(s))
<1> DEFINE n == Len(s) - 1
           t == Tail(s)
<1>1. /\ Len(s) \in Nat /\ Len(s) >= 1 /\ Head(s) = s[1] /\ t \in Seq(Entries) /\ Len(t) = n
      /\ \A i \in 1 .. n : t[i] = s[i + 1]
      /\ Members(s) = {Head(s)} \cup Members(t) /\ Len(a) \in Nat
  BY TailMembers, LenProperties
<1> HIDE DEF t
<1>2. \A i \in 1 .. n : i + 1 \in 1 .. Len(s) /\ t[i] = s[i + 1]
  BY <1>1
<1>3. ASSUME NEW i \in 1 .. n, NEW j \in 1 .. n, NEW k \in 1 .. Len(a), NEW l \in 1 .. Len(a),
             i < j, t[i] = a[k], t[j] = a[l]
      PROVE  k < l
  <2>1. i + 1 \in 1 .. Len(s) /\ j + 1 \in 1 .. Len(s) /\ i + 1 < j + 1
    BY <1>1, <1>3
  <2>2. s[i + 1] = a[k] /\ s[j + 1] = a[l]
    BY <1>2, <1>3
  <2> QED BY <2>1, <2>2 DEF Follows
<1>4. Follows(t, a)
  BY <1>1, <1>3 DEF Follows
<1>5. ASSUME Head(s) \in Members(t) PROVE FALSE
  <2>1. PICK j \in 1 .. n : s[1] = t[j]
    BY <1>1, <1>5, MemberAt
  <2>2. PICK k \in 1 .. Len(a) : s[1] = a[k]
    <3>1. s[1] \in Members(a)
      BY <1>1
    <3> QED BY <3>1, MemberAt
  <2>3. 1 \in 1 .. Len(s) /\ j + 1 \in 1 .. Len(s) /\ 1 < j + 1
    BY <1>1
  <2>4. s[j + 1] = a[k]
    BY <1>2, <2>1, <2>2
  <2>5. k < k
    BY <2>2, <2>3, <2>4 DEF Follows
  <2> QED BY <2>2, <2>5, <1>1
<1> QED BY <1>4, <1>5 DEF t

(* A new entry at the end of both keeps the order.                          *)
LEMMA FollowsAppend ==
  ASSUME NEW s \in Seq(Entries), NEW a \in Seq(Entries), NEW e \in Entries,
         Follows(s, a), Members(s) \subseteq Members(a), e \notin Members(a)
  PROVE  Follows(Append(s, e), Append(a, e))
<1> DEFINE t == Append(s, e)
           b == Append(a, e)
           n == Len(s)
           m == Len(a)
<1>1. /\ n \in Nat /\ Len(t) = n + 1 /\ t[n + 1] = e
      /\ \A i \in 1 .. n : t[i] = s[i]
  BY AppendMembers
<1>2. /\ m \in Nat /\ Len(b) = m + 1 /\ b[m + 1] = e
      /\ \A i \in 1 .. m : b[i] = a[i]
  BY AppendMembers
<1>3. (\A k \in 1 .. m : a[k] # e) /\ (\A i \in 1 .. n : s[i] # e)
  BY MemberAt
<1>4. \A i, j \in 1 .. n : \A k, l \in 1 .. m : i < j /\ s[i] = a[k] /\ s[j] = a[l] => k < l
  BY DEF Follows
<1> HIDE DEF t, b, n, m
<1>5. ASSUME NEW i \in 1 .. n + 1, NEW j \in 1 .. n + 1,
             NEW k \in 1 .. m + 1, NEW l \in 1 .. m + 1, i < j, t[i] = b[k], t[j] = b[l]
      PROVE  k < l
  <2>1. i \in 1 .. n /\ t[i] # e
    BY <1>1, <1>3, <1>5
  <2>2. k \in 1 .. m
    BY <2>1, <1>2, <1>5
  <2>3. CASE l = m + 1
    BY <2>2, <2>3, <1>2
  <2>4. CASE l \in 1 .. m
    <3>1. j # n + 1
      BY <2>4, <1>1, <1>2, <1>3, <1>5
    <3>2. j \in 1 .. n
      BY <3>1, <1>1
    <3> QED BY <2>1, <2>2, <2>4, <3>2, <1>1, <1>2, <1>4, <1>5
  <2> QED BY <2>3, <2>4, <1>2
<1> QED BY <1>1, <1>2, <1>5 DEF Follows, t, b

(* What a queue carries through the three things that happen to it.         *)
LEMMA CarriesMore ==
  ASSUME NEW s, NEW a, NEW c, NEW d, Carries(s, a, c), c \subseteq d
  PROVE  Carries(s, a, d)
  BY DEF Carries

LEMMA CarriesTail ==
  ASSUME NEW s \in Seq(Entries), NEW a \in Seq(Entries), NEW c, NEW d, s # <<>>,
         Carries(s, a, c), c \subseteq d, Head(s) \in d
  PROVE  Carries(Tail(s), a, d)
<1>1. Members(s) = {Head(s)} \cup Members(Tail(s)) /\ Follows(Tail(s), a)
  BY TailMembers, FollowsTail DEF Carries
<1> QED BY <1>1 DEF Carries

LEMMA CarriesAppend ==
  ASSUME NEW s \in Seq(Entries), NEW a \in Seq(Entries), NEW d, NEW e \in Entries,
         Carries(s, a, d), e \notin Members(a)
  PROVE  Carries(Append(s, e), Append(a, e), d)
<1>1. /\ Members(Append(s, e)) = Members(s) \cup {e}
      /\ Members(Append(a, e)) = Members(a) \cup {e}
      /\ Follows(Append(s, e), Append(a, e))
  BY AppendMembers, FollowsAppend DEF Carries
<1> QED BY <1>1 DEF Carries

LEMMA EmptyMembers == Members(<<>>) = {}
  BY DEF Members

-----------------------------------------------------------------------------
LEMMA InitIInv == ~Overlapping /\ Init => IInv
<1> SUFFICES ASSUME ~Overlapping, Init PROVE IInv
  OBVIOUS
<1>1. <<>> \in Seq(Entries) /\ Len(<<>>) = 0 /\ Members(<<>>) = {}
  BY EmptySeq, EmptyMembers
<1>2. TypeOK
  <2>1. faults \in 0 .. MaxFaults
    BY OfflineQueueAssumption DEF Init
  <2>2. copy \in [Entries \cup Flushers -> Seq(Entries)]
    BY <1>1 DEF Init
  <2>3. \A f \in Flushers : flusher[f] = "idle"
    BY DEF Init
  <2> QED BY <2>1, <2>2, <2>3, <1>1 DEF Init, TypeOK
<1>3. Serial
  BY DEF Serial, Unfinished, Init
<1>4. Follows(<<>>, <<>>)
  BY <1>1 DEF Follows
<1>5. AcceptedInv /\ CopyInv /\ CleanInv
  BY <1>1, <1>4 DEF AcceptedInv, CopyInv, CleanInv, Sound, Carries, Init
<1> QED BY <1>2, <1>3, <1>5 DEF IInv

(* Whoever starts finds nobody at work; whoever is at work is alone.        *)
LEMMA Alone ==
  ASSUME IInv
  PROVE  /\ MayStart => /\ \A e \in Entries : enqueuer[e] # "loaded"
                        /\ \A f \in Flushers : flusher[f] = "idle"
         /\ \A e \in Entries : enqueuer[e] = "loaded" =>
              /\ \A d \in Entries : enqueuer[d] = "loaded" => d = e
              /\ \A f \in Flushers : flusher[f] = "idle"
         /\ \A f \in Flushers : flusher[f] # "idle" =>
              /\ \A e \in Entries : enqueuer[e] # "loaded"
              /\ \A g \in Flushers : flusher[g] # "idle" => g = f
  BY OfflineQueueAssumption DEF IInv, MayStart, Serial, Unfinished

LEMMA EnqueueLoadIInv ==
  ASSUME IInv, NEW e \in Entries, EnqueueLoad(e)
  PROVE  IInv'
<1> USE DEF IInv
<1>1. /\ \A d \in Entries : enqueuer[d] # "loaded"
      /\ \A f \in Flushers : flusher[f] = "idle"
  BY Alone DEF EnqueueLoad
<1>2. /\ enqueuer' = [enqueuer EXCEPT ![e] = "loaded"] /\ enqueuer[e] = "idle"
      /\ copy' = [copy EXCEPT ![e] = Append(stored, e)]
      /\ UNCHANGED <<stored, flusher, faults, accepted, delivered, acked, cleared, disturbed>>
  BY DEF EnqueueLoad, history
<1>3. Append(stored, e) \in Seq(Entries)
  BY AppendMembers DEF TypeOK
<1>4. TypeOK'
  BY <1>1, <1>2, <1>3 DEF TypeOK
<1>5. Serial'
  BY <1>1, <1>2 DEF Serial, Unfinished, TypeOK
<1>6. AcceptedInv'
  <2>1. \A d \in Entries : enqueuer'[d] = "done" <=> enqueuer[d] = "done"
    BY <1>2 DEF TypeOK
  <2> QED BY <2>1, <1>2 DEF AcceptedInv
<1>7. CopyInv'
  <2>1. \A d \in Entries : enqueuer'[d] = "loaded" => d = e
    BY <1>1, <1>2 DEF TypeOK
  <2>2. copy'[e] = Append(stored, e)
    BY <1>2 DEF TypeOK
  <2>3. Sound(stored)'
    BY <1>2 DEF CopyInv, Sound
  <2> QED BY <2>1, <2>2, <2>3, <1>1, <1>2 DEF CopyInv
<1>8. CleanInv'
  BY <1>1, <1>2 DEF CleanInv
<1> QED BY <1>4, <1>5, <1>6, <1>7, <1>8

(* The copy that is written back is the storage and the entry after it.     *)
LEMMA EnqueueSaveIInv ==
  ASSUME IInv, NEW e \in Entries, EnqueueSave(e)
  PROVE  IInv'
<1> USE DEF IInv
<1>1. /\ \A d \in Entries : enqueuer[d] = "loaded" => d = e
      /\ \A f \in Flushers : flusher[f] = "idle"
  BY Alone DEF EnqueueSave
<1>2. /\ enqueuer' = [enqueuer EXCEPT ![e] = "done"] /\ enqueuer[e] = "loaded"
      /\ stored' = Append(stored, e) /\ copy' = [copy EXCEPT ![e] = <<>>]
      /\ accepted' = Append(accepted, e)
      /\ UNCHANGED <<flusher, faults, delivered, acked, cleared, disturbed>>
  BY DEF EnqueueSave, CopyInv
<1>3. /\ stored \in Seq(Entries) /\ accepted \in Seq(Entries)
      /\ stored' \in Seq(Entries) /\ accepted' \in Seq(Entries) /\ <<>> \in Seq(Entries)
      /\ Members(stored') = Members(stored) \cup {e}
      /\ Members(accepted') = Members(accepted) \cup {e}
  BY <1>2, AppendMembers, EmptySeq DEF TypeOK
<1>4. TypeOK'
  BY <1>1, <1>2, <1>3 DEF TypeOK
<1>5. Serial'
  BY <1>1, <1>2 DEF Serial, Unfinished, TypeOK
<1>6. e \notin Members(accepted) /\ e \notin acked
  BY <1>2 DEF AcceptedInv
<1>7. AcceptedInv'
  <2>1. Follows(accepted', accepted')
    BY <1>2, <1>3, <1>6, FollowsAppend DEF AcceptedInv
  <2>2. \A d \in Entries : enqueuer'[d] = "done" <=> enqueuer[d] = "done" \/ d = e
    BY <1>2 DEF TypeOK
  <2> QED BY <2>1, <2>2, <1>2, <1>3 DEF AcceptedInv
<1>8. CopyInv'
  <2>1. \A d \in Entries : enqueuer'[d] # "loaded"
    BY <1>1, <1>2 DEF TypeOK
  <2>2. Sound(stored)'
    BY <1>2, <1>3, <1>6, CarriesAppend DEF CopyInv, Sound
  <2> QED BY <2>1, <2>2, <1>1, <1>2 DEF CopyInv
<1>9. CleanInv'
  BY <1>1, <1>2, <1>3, <1>6 DEF CleanInv
<1> QED BY <1>4, <1>5, <1>7, <1>8, <1>9

LEMMA EnqueueSaveFailsIInv ==
  ASSUME IInv, NEW e \in Entries, EnqueueSaveFails(e)
  PROVE  IInv'
<1> USE DEF IInv
<1>1. /\ \A d \in Entries : enqueuer[d] = "loaded" => d = e
      /\ \A f \in Flushers : flusher[f] = "idle"
  BY Alone DEF EnqueueSaveFails
<1>2. /\ enqueuer' = [enqueuer EXCEPT ![e] = "failed"] /\ enqueuer[e] = "loaded"
      /\ copy' = [copy EXCEPT ![e] = <<>>] /\ disturbed' = TRUE /\ faults' \in 0 .. MaxFaults
      /\ UNCHANGED <<stored, flusher, accepted, delivered, acked, cleared>>
  BY OfflineQueueAssumption DEF EnqueueSaveFails, Fault, TypeOK
<1>3. TypeOK'
  BY <1>1, <1>2, EmptySeq DEF TypeOK
<1>4. Serial'
  BY <1>1, <1>2 DEF Serial, Unfinished, TypeOK
<1>5. \A d \in Entries : /\ enqueuer'[d] # "loaded"
                         /\ enqueuer'[d] = "done" <=> enqueuer[d] = "done"
  BY <1>1, <1>2 DEF TypeOK
<1>6. AcceptedInv'
  BY <1>2, <1>5 DEF AcceptedInv
<1>7. CopyInv'
  BY <1>1, <1>2, <1>5 DEF CopyInv, Sound
<1>8. CleanInv'
  BY <1>2 DEF CleanInv
<1> QED BY <1>3, <1>4, <1>6, <1>7, <1>8

LEMMA FlushLoadIInv ==
  ASSUME IInv, NEW f \in Flushers, FlushLoad(f)
  PROVE  IInv'
<1> USE DEF IInv
<1>1. /\ \A d \in Entries : enqueuer[d] # "loaded"
      /\ \A g \in Flushers : flusher[g] = "idle"
  BY Alone DEF FlushLoad
<1>2. /\ flusher' = [flusher EXCEPT ![f] = "replaying"] /\ stored # <<>>
      /\ copy' = [copy EXCEPT ![f] = stored]
      /\ UNCHANGED <<stored, enqueuer, faults, accepted, delivered, acked, cleared, disturbed>>
  BY DEF FlushLoad, history
<1>3. /\ copy'[f] = stored /\ flusher'[f] = "replaying"
      /\ \A g \in Flushers : flusher'[g] # "idle" => g = f
  BY <1>1, <1>2 DEF TypeOK
<1>4. TypeOK'
  <2>1. /\ copy' \in [Entries \cup Flushers -> Seq(Entries)]
        /\ flusher' \in [Flushers -> {"idle", "replaying", "saving", "stopping"}]
    BY <1>2 DEF TypeOK
  <2>2. \A g \in Flushers : flusher'[g] = "replaying" => copy'[g] # <<>>
    BY <1>2, <1>3
  <2> QED BY <2>1, <2>2, <1>2 DEF TypeOK
<1>5. Serial'
  BY <1>1, <1>2, <1>3 DEF Serial, Unfinished
<1>6. AcceptedInv'
  BY <1>2 DEF AcceptedInv
<1>7. CopyInv'
  BY <1>1, <1>2, <1>3 DEF CopyInv, Sound
<1>8. CleanInv'
  BY <1>1, <1>2, <1>3 DEF CleanInv
<1> QED BY <1>4, <1>5, <1>6, <1>7, <1>8

-----------------------------------------------------------------------------
(* What every step of a running flush has to show: it is alone, so only its *)
(* own copy and what it writes count.                                       *)
LEMMA FlushIInv ==
  ASSUME IInv, NEW f \in Flushers, flusher[f] # "idle",
         NEW to \in {"idle", "replaying", "saving", "stopping"}, NEW rest \in Seq(Entries),
         to = "replaying" => rest # <<>>,
         flusher' = [flusher EXCEPT ![f] = to],
         copy' = [copy EXCEPT ![f] = rest],
         enqueuer' = enqueuer, accepted' = accepted, cleared' = cleared,
         acked \subseteq acked', acked' \subseteq Members(accepted),
         stored' \in Seq(Entries), faults' \in 0 .. MaxFaults, delivered' \in Seq(Entries),
         disturbed' \in BOOLEAN,
         Carries(stored', accepted, acked' \cup cleared),
         to # "idle" => Carries(rest, accepted, acked' \cup cleared),
         ~disturbed' => /\ to # "idle" => Members(rest) \cap acked' = {}
                        /\ to # "saving" => Members(stored') \cap acked' = {}
  PROVE  IInv'
<1> USE DEF IInv
<1>1. /\ \A e \in Entries : enqueuer[e] # "loaded"
      /\ \A g \in Flushers : flusher[g] # "idle" => g = f
  BY Alone
<1>2. /\ copy'[f] = rest /\ flusher'[f] = to
      /\ \A g \in Flushers : flusher'[g] # "idle" => g = f
  BY <1>1 DEF TypeOK
<1>3. TypeOK'
  <2>1. /\ copy' \in [Entries \cup Flushers -> Seq(Entries)]
        /\ flusher' \in [Flushers -> {"idle", "replaying", "saving", "stopping"}]
    BY DEF TypeOK
  <2>2. \A g \in Flushers : flusher'[g] = "replaying" => copy'[g] # <<>>
    BY <1>2
  <2>3. accepted \in Seq(Entries) /\ acked' \subseteq Entries
    <3>1. Members(accepted) \subseteq Entries
      BY MembersType DEF TypeOK
    <3> QED BY <3>1 DEF TypeOK
  <2> QED BY <2>1, <2>2, <2>3 DEF TypeOK
<1>4. Serial'
  BY <1>1, <1>2 DEF Serial, Unfinished
<1>5. AcceptedInv'
  BY DEF AcceptedInv
<1>6. CopyInv'
  BY <1>1, <1>2 DEF CopyInv, Sound
<1>7. CleanInv'
  BY <1>1, <1>2 DEF CleanInv
<1> QED BY <1>3, <1>4, <1>5, <1>6, <1>7

(* The copy of a running flush.                                             *)
LEMMA FlushCopy ==
  ASSUME IInv, NEW f \in Flushers, flusher[f] # "idle"
  PROVE  /\ copy[f] \in Seq(Entries) /\ stored \in Seq(Entries) /\ delivered \in Seq(Entries)
         /\ copy = [copy EXCEPT ![f] = copy[f]]
         /\ Carries(copy[f], accepted, acked \cup cleared)
         /\ Carries(stored, accepted, acked \cup cleared)
         /\ ~disturbed => Members(copy[f]) \cap acked = {}
         /\ ~disturbed /\ flusher[f] # "saving" => Members(stored) \cap acked = {}
<1>1. \A g \in Flushers : flusher[g] # "idle" => g = f
  BY Alone
<1> QED BY <1>1 DEF IInv, TypeOK, CopyInv, CleanInv, Sound

LEMMA ReplayResolvesIInv ==
  ASSUME IInv, NEW f \in Flushers, ReplayResolves(f)
  PROVE  IInv'
<1> DEFINE s == copy[f]
<1>1. /\ flusher[f] = "replaying" /\ flusher[f] # "idle"
      /\ delivered' = Append(delivered, Head(s)) /\ acked' = acked \cup {Head(s)}
      /\ copy' = [copy EXCEPT ![f] = Tail(s)]
      /\ flusher' = [flusher EXCEPT ![f] = "saving"]
      /\ UNCHANGED <<stored, enqueuer, faults, accepted, cleared, disturbed>>
  BY DEF ReplayResolves, Reached
<1>2. /\ s \in Seq(Entries) /\ s # <<>> /\ accepted \in Seq(Entries)
      /\ acked \subseteq Members(accepted) /\ stored \in Seq(Entries)
      /\ faults \in 0 .. MaxFaults /\ disturbed \in BOOLEAN
  BY <1>1, FlushCopy DEF IInv, TypeOK, AcceptedInv
<1>3. /\ Carries(s, accepted, acked \cup cleared)
      /\ Carries(stored, accepted, acked \cup cleared)
      /\ ~disturbed => Members(s) \cap acked = {}
  BY <1>1, FlushCopy
<1> HIDE DEF s
<1>4. /\ Head(s) \in Entries /\ Tail(s) \in Seq(Entries)
      /\ Members(s) = {Head(s)} \cup Members(Tail(s))
  BY <1>2, TailMembers
<1>5. delivered' \in Seq(Entries)
  BY <1>1, <1>4, AppendProperties, FlushCopy
<1>6. Carries(Tail(s), accepted, acked' \cup cleared)
  <2>1. acked \cup cleared \subseteq acked' \cup cleared /\ Head(s) \in acked' \cup cleared
    BY <1>1
  <2> QED BY <2>1, <1>2, <1>3, CarriesTail
<1>7. Carries(stored', accepted, acked' \cup cleared)
  BY <1>1, <1>3 DEF Carries
<1>8. acked \subseteq acked' /\ acked' \subseteq Members(accepted)
  BY <1>1, <1>2, <1>3, <1>4 DEF Carries
<1>9. ~disturbed' => Members(Tail(s)) \cap acked' = {}
  <2>1. Head(s) \notin Members(Tail(s))
    BY <1>2, <1>3, FollowsTail DEF Carries
  <2> QED BY <2>1, <1>1, <1>3, <1>4
<1> QED BY <1>1, <1>2, <1>4, <1>5, <1>6, <1>7, <1>8, <1>9, FlushIInv

LEMMA ReplayThrowsIInv ==
  ASSUME IInv, NEW f \in Flushers, ReplayThrows(f)
  PROVE  IInv'
<1>1. /\ flusher[f] = "replaying" /\ flusher[f] # "idle" /\ flusher[f] # "saving"
      /\ flusher' = [flusher EXCEPT ![f] = "stopping"]
      /\ UNCHANGED <<stored, enqueuer, copy, faults, accepted, acked, cleared, disturbed>>
  BY DEF ReplayThrows
<1>2. /\ copy[f] \in Seq(Entries) /\ copy[f] # <<>> /\ stored \in Seq(Entries)
      /\ faults \in 0 .. MaxFaults /\ disturbed \in BOOLEAN /\ acked \subseteq Members(accepted)
  BY <1>1, FlushCopy DEF IInv, TypeOK, AcceptedInv
<1>3. delivered' \in Seq(Entries)
  <2>1. Head(copy[f]) \in Entries /\ delivered \in Seq(Entries)
    BY <1>1, <1>2, TailMembers, FlushCopy
  <2> QED BY <2>1, AppendProperties DEF ReplayThrows, Reached
<1>4. /\ copy' = [copy EXCEPT ![f] = copy[f]]
      /\ Carries(copy[f], accepted, acked' \cup cleared)
      /\ Carries(stored', accepted, acked' \cup cleared)
      /\ ~disturbed' => Members(copy[f]) \cap acked' = {} /\ Members(stored') \cap acked' = {}
  BY <1>1, FlushCopy
<1> QED BY <1>1, <1>2, <1>3, <1>4, FlushIInv

(* A flush that has written its copy.                                       *)
LEMMA FlushWritesIInv ==
  ASSUME IInv, NEW f \in Flushers, FlushSave(f) \/ Stop(f)
  PROVE  IInv'
<1> DEFINE to == IF FlushSave(f) THEN AfterSave(copy[f]) ELSE "idle"
<1>1. /\ flusher[f] \in {"saving", "stopping"} /\ flusher[f] # "idle"
      /\ flusher' = [flusher EXCEPT ![f] = to]
      /\ stored' = copy[f] /\ to \in {"idle", "replaying"}
      /\ to = "replaying" => copy[f] # <<>>
      /\ UNCHANGED <<enqueuer, copy, faults, accepted, delivered, acked, cleared, disturbed>>
  BY DEF FlushSave, Stop, AfterSave, history
<1> HIDE DEF to
<1>2. /\ copy[f] \in Seq(Entries) /\ delivered \in Seq(Entries)
      /\ faults \in 0 .. MaxFaults /\ disturbed \in BOOLEAN /\ acked \subseteq Members(accepted)
  BY <1>1, FlushCopy DEF IInv, TypeOK, AcceptedInv
<1>3. /\ copy' = [copy EXCEPT ![f] = copy[f]]
      /\ Carries(copy[f], accepted, acked' \cup cleared)
      /\ ~disturbed' => Members(copy[f]) \cap acked' = {}
  BY <1>1, FlushCopy
<1> QED BY <1>1, <1>2, <1>3, FlushIInv

(* A flush whose write failed.                                              *)
LEMMA FlushFailsIInv ==
  ASSUME IInv, NEW f \in Flushers, FlushSaveFails(f) \/ StopSaveFails(f)
  PROVE  IInv'
<1> DEFINE to == IF FlushSaveFails(f) THEN "stopping" ELSE "idle"
<1>1. /\ flusher[f] \in {"saving", "stopping"} /\ flusher[f] # "idle"
      /\ flusher' = [flusher EXCEPT ![f] = to]
      /\ to \in {"idle", "stopping"} /\ Fault /\ disturbed' = TRUE
      /\ UNCHANGED <<stored, enqueuer, copy, accepted, delivered, acked, cleared>>
  BY DEF FlushSaveFails, StopSaveFails
<1> HIDE DEF to
<1>2. /\ copy[f] \in Seq(Entries) /\ stored \in Seq(Entries) /\ delivered \in Seq(Entries)
      /\ faults \in 0 .. MaxFaults /\ acked \subseteq Members(accepted)
  BY <1>1, FlushCopy DEF IInv, TypeOK, AcceptedInv
<1>3. faults' \in 0 .. MaxFaults
  BY <1>1, <1>2, OfflineQueueAssumption DEF Fault
<1>4. /\ copy' = [copy EXCEPT ![f] = copy[f]]
      /\ Carries(copy[f], accepted, acked' \cup cleared)
      /\ Carries(stored', accepted, acked' \cup cleared)
  BY <1>1, FlushCopy
<1> QED BY <1>1, <1>2, <1>3, <1>4, FlushIInv

-----------------------------------------------------------------------------
LEMMA ClearIInv ==
  ASSUME IInv, Clear
  PROVE  IInv'
<1> USE DEF IInv
<1>1. /\ \A d \in Entries : enqueuer[d] # "loaded"
      /\ \A f \in Flushers : flusher[f] = "idle"
  BY Alone DEF Clear
<1>2. /\ stored' = <<>> /\ cleared' = cleared \cup Members(stored) /\ Fault
      /\ UNCHANGED <<enqueuer, flusher, copy, accepted, delivered, acked, disturbed>>
  BY DEF Clear, calls
<1>3. <<>> \in Seq(Entries) /\ Len(<<>>) = 0 /\ Members(<<>>) = {}
  BY EmptySeq, EmptyMembers
<1>4. TypeOK'
  <2>1. Members(stored) \subseteq Entries
    BY MembersType DEF TypeOK
  <2>2. faults' \in 0 .. MaxFaults
    BY <1>2, OfflineQueueAssumption DEF Fault, TypeOK
  <2> QED BY <2>1, <2>2, <1>2, <1>3 DEF TypeOK
<1>5. Serial' /\ AcceptedInv' /\ CleanInv'
  BY <1>1, <1>2, <1>3 DEF Serial, Unfinished, AcceptedInv, CleanInv
<1>6. CopyInv'
  <2>1. Follows(<<>>, accepted)
    BY <1>3 DEF Follows
  <2>2. Carries(<<>>, accepted, acked \cup cleared')
    BY <2>1, <1>2, <1>3 DEF CopyInv, Sound, Carries
  <2> QED BY <2>2, <1>1, <1>2 DEF CopyInv, Sound
<1> QED BY <1>4, <1>5, <1>6

LEMMA CrashIInv ==
  ASSUME IInv, Crash
  PROVE  IInv'
<1> USE DEF IInv
<1>1. /\ enqueuer' = [e \in Entries |-> IF enqueuer[e] = "loaded" THEN "failed" ELSE enqueuer[e]]
      /\ flusher' = [f \in Flushers |-> "idle"]
      /\ copy' = [c \in Entries \cup Flushers |-> <<>>] /\ disturbed' = TRUE /\ Fault
      /\ UNCHANGED <<stored, accepted, delivered, acked, cleared>>
  BY DEF Crash
<1>2. /\ \A e \in Entries : /\ enqueuer'[e] # "loaded"
                            /\ enqueuer'[e] = "done" <=> enqueuer[e] = "done"
      /\ \A f \in Flushers : flusher'[f] = "idle"
  BY <1>1
<1>3. TypeOK'
  <2>1. faults' \in 0 .. MaxFaults
    BY <1>1, OfflineQueueAssumption DEF Fault, TypeOK
  <2>2. copy' \in [Entries \cup Flushers -> Seq(Entries)]
    BY <1>1, EmptySeq
  <2>3. /\ enqueuer' \in [Entries -> {"idle", "loaded", "done", "failed"}]
        /\ flusher' \in [Flushers -> {"idle", "replaying", "saving", "stopping"}]
    BY <1>1 DEF TypeOK
  <2> QED BY <2>1, <2>2, <2>3, <1>1, <1>2 DEF TypeOK
<1>4. Serial' /\ AcceptedInv' /\ CopyInv' /\ CleanInv'
  BY <1>1, <1>2 DEF Serial, Unfinished, AcceptedInv, CopyInv, CleanInv, Sound
<1> QED BY <1>3, <1>4

LEMMA NextIInv ==
  ASSUME IInv, [Next]_vars
  PROVE  IInv'
<1>1. CASE UNCHANGED vars
  BY <1>1 DEF vars, calls, history, IInv, TypeOK, Serial, Unfinished, AcceptedInv, CopyInv,
              CleanInv, Sound
<1>2. CASE Next
  BY <1>2, EnqueueLoadIInv, EnqueueSaveIInv, EnqueueSaveFailsIInv, FlushLoadIInv,
     ReplayResolvesIInv, ReplayThrowsIInv, FlushWritesIInv, FlushFailsIInv, ClearIInv, CrashIInv
     DEF Next, FlushStep
<1> QED BY <1>1, <1>2

LEMMA Inductive == ~Overlapping /\ Spec => []IInv
<1>1. ~Overlapping /\ Init => IInv
  BY InitIInv
<1>2. IInv /\ [Next]_vars => IInv'
  BY NextIInv
<1> QED BY <1>1, <1>2, PTL DEF Spec

-----------------------------------------------------------------------------
(* The storage and every call keep their types, and a flush that replays    *)
(* has an entry to replay.                                                  *)
THEOREM TypeCorrect == ~Overlapping /\ Spec => []TypeOK
<1>1. IInv => TypeOK
  BY DEF IInv
<1> QED BY <1>1, Inductive, PTL

(* What enqueue() accepted stays in the storage until it is acknowledged or *)
(* cleared, whatever writes fail and whenever the process dies.             *)
THEOREM NothingIsLost == ~Overlapping /\ Spec => []NothingLost
<1>1. IInv => NothingLost
  BY DEF IInv, CopyInv, Sound, Carries, NothingLost
<1> QED BY <1>1, Inductive, PTL

(* Only the step in which a replay resolves acknowledges anything, and that *)
(* is the head of a sound copy.                                             *)
LEMMA AckIsHead ==
  ASSUME IInv, [Next]_vars, acked' # acked
  PROVE  \E f \in Flushers : ReplayResolves(f)
  BY DEF Next, FlushStep, vars, calls, history, EnqueueLoad, EnqueueSave, EnqueueSaveFails,
         FlushLoad, ReplayThrows, FlushSave, FlushSaveFails, Stop, StopSaveFails, Clear, Crash

(* Whatever was accepted before the head of a copy has been dealt with.     *)
LEMMA HeadIsNext ==
  ASSUME NEW s \in Seq(Entries), NEW a \in Seq(Entries), NEW d, s # <<>>, Carries(s, a, d),
         Follows(a, a), NEW i \in 1 .. Len(a), NEW j \in 1 .. Len(a), i < j, a[j] = Head(s)
  PROVE  a[i] \in d
<1>1. Len(s) \in Nat /\ Len(s) >= 1 /\ a[j] = s[1] /\ Len(a) \in Nat
  BY TailMembers, LenProperties
<1>2. CASE a[i] \in Members(s)
  <2>1. PICK m \in 1 .. Len(s) : a[i] = s[m]
    BY <1>2, MemberAt
  <2>2. CASE m = 1
    <3>1. a[i] = a[j]
      BY <2>1, <2>2, <1>1
    <3>2. j < i
      BY <3>1 DEF Follows
    <3> QED BY <3>2, <1>1
  <2>3. CASE m # 1
    <3>1. 1 \in 1 .. Len(s) /\ 1 < m
      BY <1>1, <2>1, <2>3
    <3>2. j < i
      BY <3>1, <2>1, <1>1 DEF Carries, Follows
    <3> QED BY <3>2, <1>1
  <2> QED BY <2>2, <2>3
<1>3. CASE a[i] \notin Members(s)
  <2>1. a[i] \in Members(a)
    BY MemberAt
  <2> QED BY <2>1, <1>3 DEF Carries
<1> QED BY <1>2, <1>3

(* When a replay resolves, every entry queued earlier has been acknowledged *)
(* or cleared before.                                                       *)
InOrder ==
  [][\A i, j \in DOMAIN accepted :
       i < j /\ accepted[j] \in acked' \ acked => accepted[i] \in acked' \cup cleared]_vars

(* Entries are acknowledged in the order in which enqueue() accepted them.  *)
THEOREM ReplayedInOrder == ~Overlapping /\ Spec => InOrder
<1> DEFINE Ahead == \A i, j \in DOMAIN accepted :
             i < j /\ accepted[j] \in acked' \ acked => accepted[i] \in acked' \cup cleared
<1>1. IInv /\ [Next]_vars => Ahead
  <2> SUFFICES ASSUME IInv, [Next]_vars, NEW i \in DOMAIN accepted, NEW j \in DOMAIN accepted,
                      i < j, accepted[j] \in acked' \ acked
               PROVE  accepted[i] \in acked' \cup cleared
    OBVIOUS
  <2>1. PICK f \in Flushers : ReplayResolves(f)
    BY AckIsHead
  <2> DEFINE s == copy[f]
  <2>2. /\ s \in Seq(Entries) /\ s # <<>> /\ Carries(s, accepted, acked \cup cleared)
        /\ acked' = acked \cup {Head(s)} /\ accepted \in Seq(Entries)
        /\ Follows(accepted, accepted)
    BY <2>1, FlushCopy DEF ReplayResolves, IInv, TypeOK, AcceptedInv
  <2> HIDE DEF s
  <2>3. /\ accepted[j] = Head(s)
        /\ i \in 1 .. Len(accepted) /\ j \in 1 .. Len(accepted)
    BY <2>2, LenProperties
  <2>4. accepted[i] \in acked \cup cleared
    BY <2>2, <2>3, HeadIsNext
  <2> QED BY <2>2, <2>4
<1>2. IInv /\ [Next]_vars =>
        [\A i, j \in DOMAIN accepted :
           i < j /\ accepted[j] \in acked' \ acked => accepted[i] \in acked' \cup cleared]_vars
  BY <1>1
<1> HIDE DEF Ahead
<1> QED BY <1>2, Inductive, PTL DEF Spec, InOrder

-----------------------------------------------------------------------------
(* A replay that reaches the server is a delivery of the outbox, whether or *)
(* not it resolves.                                                         *)
LEMMA ReplayDelivers ==
  ASSUME IInv, NEW f \in Flushers, flusher[f] = "replaying", Reached(f),
         acked' \in {acked, acked \cup {Head(copy[f])}}, accepted' = accepted, cleared' = cleared
  PROVE  Promise!Next
<1> DEFINE s == copy[f]
<1>1. /\ s \in Seq(Entries) /\ s # <<>> /\ Carries(s, accepted, acked \cup cleared)
      /\ accepted \in Seq(Entries) /\ Follows(accepted, accepted)
  BY FlushCopy DEF IInv, TypeOK, AcceptedInv
<1>2. delivered' = Append(delivered, Head(s)) /\ acked' \in {acked, acked \cup {Head(s)}}
  BY DEF Reached
<1> HIDE DEF s
<1>3. PICK j \in 1 .. Len(accepted) : Head(s) = accepted[j]
  <2>1. Head(s) \in Members(accepted)
    BY <1>1, TailMembers DEF Carries
  <2> QED BY <2>1, <1>1, MemberAt
<1>4. Len(accepted) \in Nat /\ DOMAIN accepted = 1 .. Len(accepted)
  BY <1>1, LenProperties
<1>5. ASSUME NEW i \in 1 .. j - 1 PROVE accepted[i] \in acked \cup cleared
  <2>1. i \in 1 .. Len(accepted) /\ i < j
    BY <1>3, <1>4
  <2> QED BY <2>1, <1>1, <1>3, HeadIsNext
<1>6. acked' \cup cleared' \in {acked \cup cleared, (acked \cup cleared) \cup {accepted[j]}}
  BY <1>2, <1>3
<1>7. Promise!Deliver(j)
  BY <1>2, <1>3, <1>5, <1>6 DEF Promise!Deliver
<1> QED BY <1>3, <1>4, <1>7 DEF Promise!Next

(* clear() finds in the storage all that is still owed.                     *)
LEMMA ClearDrops ==
  ASSUME IInv, Clear
  PROVE  Promise!Drop
<1>1. /\ Members(stored) \subseteq Members(accepted)
      /\ Members(accepted) \subseteq Members(stored) \cup (acked \cup cleared)
  BY DEF IInv, CopyInv, Sound, Carries
<1>2. cleared' = cleared \cup Members(stored) /\ UNCHANGED <<accepted, delivered, acked>>
  BY DEF Clear
<1>3. acked' \cup cleared' = (acked \cup cleared) \cup Members(accepted)
  BY <1>1, <1>2
<1> QED BY <1>2, <1>3 DEF Promise!Drop, Members

LEMMA SaveAccepts ==
  ASSUME IInv, NEW e \in Entries, EnqueueSave(e)
  PROVE  Promise!Accept(e)
<1>1. e \notin Members(accepted)
  BY DEF IInv, AcceptedInv, EnqueueSave
<1> QED BY <1>1 DEF Promise!Accept, Members, EnqueueSave

(* Every step is a step of the outbox or leaves it as it is.                *)
LEMMA StepIsPromised ==
  ASSUME IInv, [Next]_vars
  PROVE  [Promise!Next]_Promise!vars
<1> DEFINE Kept == UNCHANGED <<accepted, delivered, acked, cleared>>
<1>1. Kept => UNCHANGED Promise!vars
  BY DEF Promise!vars
<1>2. ASSUME NEW e \in Entries, EnqueueSave(e) PROVE Promise!Next
  BY <1>2, SaveAccepts DEF Promise!Next
<1>3. ASSUME NEW f \in Flushers, ReplayResolves(f) PROVE Promise!Next
  BY <1>3, ReplayDelivers DEF ReplayResolves
<1>4. ASSUME NEW f \in Flushers, ReplayThrows(f) PROVE Promise!Next \/ Kept
  BY <1>4, ReplayDelivers DEF ReplayThrows
<1>5. Clear => Promise!Next
  BY ClearDrops DEF Promise!Next
<1>6. ASSUME NEW e \in Entries, EnqueueLoad(e) \/ EnqueueSaveFails(e) PROVE Kept
  BY <1>6 DEF EnqueueLoad, EnqueueSaveFails, history
<1>7. ASSUME NEW f \in Flushers,
             \/ FlushLoad(f) \/ FlushSave(f) \/ FlushSaveFails(f) \/ Stop(f) \/ StopSaveFails(f)
      PROVE  Kept
  BY <1>7 DEF FlushLoad, FlushSave, FlushSaveFails, Stop, StopSaveFails, history
<1>8. Crash \/ UNCHANGED vars => Kept
  BY DEF Crash, vars, history
<1> HIDE DEF Kept
<1> QED BY <1>1, <1>2, <1>3, <1>4, <1>5, <1>6, <1>7, <1>8 DEF Next, FlushStep

(* The queue implements an outbox that delivers in order and at least once, *)
(* for any number of entries, flushes, faults and crashes.                  *)
THEOREM OutboxKept == ~Overlapping /\ Spec => KeepsOutbox
<1>1. Init => Promise!Init
  BY DEF Init, Promise!Init
<1>2. IInv /\ [Next]_vars => [Promise!Next]_Promise!vars
  BY StepIsPromised
<1> QED BY <1>1, <1>2, Inductive, PTL DEF Spec, KeepsOutbox, Promise!Spec

(* Without a failed write or a crash the server never sees an acknowledged  *)
(* entry again.                                                             *)
THEOREM NoSecondReplay == ~Overlapping /\ Spec => AckedOnce
<1> DEFINE Once == ~disturbed /\ delivered' # delivered => delivered'[Len(delivered')] \notin acked
<1>1. IInv /\ [Next]_vars => Once
  <2> SUFFICES ASSUME IInv, [Next]_vars, ~disturbed, delivered' # delivered
               PROVE  delivered'[Len(delivered')] \notin acked
    OBVIOUS
  <2>1. PICK f \in Flushers : flusher[f] = "replaying" /\ Reached(f)
    BY DEF Next, FlushStep, vars, calls, history, EnqueueLoad, EnqueueSave, EnqueueSaveFails,
           FlushLoad, ReplayResolves, ReplayThrows, FlushSave, FlushSaveFails, Stop,
           StopSaveFails, Clear, Crash
  <2> DEFINE s == copy[f]
  <2>2. /\ s \in Seq(Entries) /\ s # <<>> /\ Members(s) \cap acked = {}
        /\ delivered \in Seq(Entries) /\ delivered' = Append(delivered, Head(s))
    BY <2>1, FlushCopy DEF Reached, IInv, TypeOK
  <2> HIDE DEF s
  <2>3. Head(s) \in Members(s) /\ Head(s) \in Entries
    BY <2>2, TailMembers
  <2>4. delivered'[Len(delivered')] = Head(s)
    BY <2>2, <2>3, AppendMembers
  <2> QED BY <2>2, <2>3, <2>4
<1>2. IInv /\ [Next]_vars =>
        [~disturbed /\ delivered' # delivered => delivered'[Len(delivered')] \notin acked]_vars
  BY <1>1
<1> QED BY <1>2, Inductive, PTL DEF Spec, AckedOnce
=============================================================================
