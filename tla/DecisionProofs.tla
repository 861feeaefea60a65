--------------------------- MODULE DecisionProofs ---------------------------
(***************************************************************************)
(* Proofs about the machines that decide where and how much work may run:  *)
(* the memory governor, the provenance ledger, quota evidence, the book of *)
(* reservations, the quota wake loop, adaptive concurrency, the replay on  *)
(* a fake cluster and the package resolver.  Some rest on what sums, least *)
(* members and recursive functions over data are (DataProofs).             *)
(***************************************************************************)
EXTENDS ResourceGovernor, ProvenanceLedger, QuotaEvidence,
        ReservationBook, QuotaWake, AdaptiveConcurrency, FakeReplay, PackageCatalog,
        DataProofs, SequenceTheorems

-----------------------------------------------------------------------------
(* ResourceGovernor *)

LocalJobs == Range(Candidates)
TierNames == {"none", "normal", "conserve", "critical", "emergency"}
TierState == [effective : TierNames, pending : TierNames, samples : Nat]

RoundState == [reading : Readings \cup {<<"none", 0>>}, todo : SUBSET (DOMAIN Candidates),
               pendingRam : Int, claims : Int]

\* RAM is promised to known jobs, and a round counts at least what is promised.
GovernorInv ==
    /\ promised \subseteq LocalJobs
    /\ tier \in TierState /\ stored \in TierState
    /\ round \in RoundState
    /\ round.todo # {} =>
          round.reading \in Readings /\ RamOf(promised) <= round.pendingRam

\* The local jobs are finitely many, and what is promised to some is a number.
LEMMA PromisedRam ==
    /\ IsFiniteSet(LocalJobs) /\ \A x \in LocalJobs : Ram[x] \in Nat
    /\ \A those \in SUBSET LocalJobs : RamOf(those) = SumOver(Ram, those) /\ RamOf(those) \in Int
    /\ RamOf({}) = 0
<1>1. \A s : RamOf(s) = SumOver(Ram, s)
  BY DEF RamOf, SumOver
<1>2. IsFiniteSet(LocalJobs)
  <2>1. Candidates \in Surjection(1..Len(Candidates), LocalJobs)
    <3>1. /\ Candidates \in Seq(LocalJobs) /\ DOMAIN Candidates = 1..Len(Candidates)
          /\ Candidates \in [1..Len(Candidates) -> LocalJobs]
      BY GovernorAssumption DEF LocalJobs
    <3>2. \A t \in LocalJobs : \E i \in 1..Len(Candidates) : Candidates[i] = t
      BY <3>1 DEF LocalJobs, Range
    <3> QED BY <3>1, <3>2 DEF Surjection
  <2>2. IsFiniteSet(1..Len(Candidates))
    BY GovernorAssumption, FS_Interval
  <2> QED BY <2>1, <2>2, FS_Surjection
<1>3. \A x \in LocalJobs : Ram[x] \in Nat
  BY GovernorAssumption DEF LocalJobs
<1>4. ASSUME NEW s \in SUBSET LocalJobs
      PROVE  SumOver(Ram, s) \in Int /\ (s = {} => SumOver(Ram, s) = 0)
  <2>1. IsFiniteSet(s) /\ \A x \in s : Ram[x] \in Int
    BY <1>2, <1>3, FS_Subset
  <2> QED BY <2>1, SumType
<1>5. {} \in SUBSET LocalJobs
  OBVIOUS
<1> QED BY <1>1, <1>2, <1>3, <1>4, <1>5

\* Promising one job more or less.
LEMMA RamSums ==
    ASSUME NEW those \in SUBSET LocalJobs, NEW j \in LocalJobs
    PROVE  /\ RamOf(those \cup {j}) <= RamOf(those) + Ram[j]
           /\ RamOf(those \ {j}) <= RamOf(those)
<1>1. ASSUME NEW s \in SUBSET LocalJobs, j \in s
      PROVE  /\ RamOf(s) = Ram[j] + RamOf(s \ {j})
             /\ RamOf(s) \in Int /\ RamOf(s \ {j}) \in Int /\ Ram[j] \in Nat
  <2>1. IsFiniteSet(s) /\ \A x \in s : Ram[x] \in Int
    BY PromisedRam, FS_Subset
  <2>2. SumOver(Ram, s) = Ram[j] + SumOver(Ram, s \ {j})
    BY <1>1, <2>1, SumOfRest
  <2>3. s \ {j} \in SUBSET LocalJobs
    OBVIOUS
  <2> QED BY <2>2, <2>3, PromisedRam
<1>2. CASE j \in those
  <2>1. those \cup {j} = those
    BY <1>2
  <2> QED BY <1>1, <1>2, <2>1
<1>3. CASE j \notin those
  <2>1. (those \cup {j}) \ {j} = those /\ those \ {j} = those /\ those \cup {j} \in SUBSET LocalJobs
    BY <1>3
  <2>2. /\ RamOf(those \cup {j}) = Ram[j] + RamOf(those)
        /\ RamOf(those \cup {j}) \in Int /\ RamOf(those) \in Int /\ Ram[j] \in Nat
    BY <1>1, <2>1
  <2> QED BY <2>1, <2>2
<1> QED BY <1>2, <1>3

\* The next place of the list that is left is that of a local job.
LEMMA CandidatesAreLocal ==
    ASSUME NEW todo, todo \subseteq DOMAIN Candidates, todo # {}
    PROVE  Min(todo) \in todo /\ Candidates[Min(todo)] \in LocalJobs
<1>1. todo \subseteq Nat
  BY GovernorAssumption
<1>2. \E i \in todo : \A k \in todo : i <= k
  BY <1>1, SmallestNumber
<1> QED BY <1>2 DEF Min, LocalJobs, Range

\* The tiers from the best to the worst.
LEMMA Ranks ==
    /\ Rank("normal") = 1 /\ Rank("conserve") = 2 /\ Rank("critical") = 3
    /\ Rank("emergency") = 4
<1>1. ASSUME NEW i \in 1..4, NEW k \in 1..4, Tiers[i] = Tiers[k] PROVE i = k
  BY <1>1 DEF Tiers
<1>2. ASSUME NEW i \in 1..4 PROVE Rank(Tiers[i]) = i
  <2>1. \E k \in 1..4 : Tiers[k] = Tiers[i]
    OBVIOUS
  <2>2. Rank(Tiers[i]) \in 1..4 /\ Tiers[Rank(Tiers[i])] = Tiers[i]
    BY <2>1 DEF Rank
  <2> QED BY <1>1, <2>2
<1>3. /\ Tiers[1] = "normal" /\ Tiers[2] = "conserve" /\ Tiers[3] = "critical"
      /\ Tiers[4] = "emergency"
  BY DEF Tiers
<1> QED BY <1>2, <1>3

\* One observation moves the tier to one that is known; only a normal reading
\* makes it normal if a worse one takes effect at once.
LEMMA HysteresisIs ==
    ASSUME NEW state \in TierState, NEW seen \in TierNames \ {"none"}
    PROVE  /\ Hysteresis(state, seen) \in TierState
           /\ DegradeSamples = 1 /\ Hysteresis(state, seen).effective = "normal" => seen = "normal"
<1>1. CASE state.effective \in {"none", seen}
  BY <1>1 DEF Hysteresis, TierState, TierNames
<1>2. CASE state.effective \notin {"none", seen}
  <2> DEFINE counted == IF state.pending = seen THEN state.samples + 1 ELSE 1
             needed == IF Rank(seen) > Rank(state.effective) THEN DegradeSamples
                       ELSE RecoverySamples
             moved == [effective |-> seen, pending |-> "none", samples |-> 0]
             kept == [effective |-> state.effective, pending |-> seen, samples |-> counted]
  <2>1. Hysteresis(state, seen) = IF counted >= needed THEN moved ELSE kept
    BY <1>2 DEF Hysteresis
  <2>2. counted \in Nat /\ counted >= 1
    BY DEF TierState
  <2>3. moved \in TierState /\ kept \in TierState
    BY <2>2 DEF TierState, TierNames
  <2>4. moved.effective = seen /\ kept.effective = state.effective
    OBVIOUS
  <2>5. state.effective = "normal" => needed = DegradeSamples
    BY <1>2, Ranks DEF TierNames
  <2> HIDE DEF counted, needed, moved, kept
  <2> QED BY <2>1, <2>2, <2>3, <2>4, <2>5
<1> QED BY <1>1, <1>2

\* The candidate that is considered next, and what becomes of the round.
LEMMA ConsiderIs ==
    ASSUME GovernorInv, ConsiderCandidate
    PROVE  /\ round.reading \in Readings /\ round.pendingRam \in Int
           /\ \E j \in LocalJobs :
                 LET next == Hysteresis(tier, round.reading[1]) IN
                 /\ tier' = next /\ next \in TierState
                 /\ \/ /\ LaneAllowed(j, next, round.reading, round.pendingRam)
                       /\ promised' = promised \cup {j}
                       /\ lane' = [lane EXCEPT ![j] = "claimed"]
                       /\ stored' = next
                       /\ round'.pendingRam = round.pendingRam + Ram[j]
                    \/ /\ UNCHANGED <<promised, lane, stored>>
                       /\ round'.pendingRam = round.pendingRam
           /\ round' \in RoundState
           /\ round'.todo \subseteq round.todo /\ round'.reading = round.reading
<1> DEFINE i == Min(round.todo)
           j == Candidates[i]
           next == Hysteresis(tier, round.reading[1])
<1>1. /\ round.todo # {} /\ round.todo \subseteq DOMAIN Candidates /\ round \in RoundState
      /\ round.reading \in Readings /\ round.pendingRam \in Int /\ tier \in TierState
  BY DEF ConsiderCandidate, GovernorInv, RoundState
<1>2. j \in LocalJobs /\ Ram[j] \in Int
  BY <1>1, CandidatesAreLocal, PromisedRam
<1>3. round.reading[1] \in TierNames \ {"none"}
  BY <1>1, GovernorAssumption DEF TierNames
<1>4. next \in TierState
  BY <1>1, <1>3, HysteresisIs
<1>5. /\ tier' = next
      /\ \/ /\ LaneAllowed(j, next, round.reading, round.pendingRam)
            /\ promised' = promised \cup {j}
            /\ lane' = [lane EXCEPT ![j] = "claimed"]
            /\ stored' = next
            /\ round' = [round EXCEPT !.todo = @ \ {i}, !.claims = @ + 1, !.pendingRam = @ + Ram[j]]
         \/ /\ round' = [round EXCEPT !.todo = @ \ {i}]
            /\ UNCHANGED <<promised, lane, stored>>
  BY DEF ConsiderCandidate
<1> HIDE DEF i, j, next
<1>6. \/ /\ LaneAllowed(j, next, round.reading, round.pendingRam)
         /\ promised' = promised \cup {j}
         /\ lane' = [lane EXCEPT ![j] = "claimed"]
         /\ stored' = next
         /\ round' \in RoundState /\ round'.pendingRam = round.pendingRam + Ram[j]
         /\ round'.todo \subseteq round.todo /\ round'.reading = round.reading
      \/ /\ UNCHANGED <<promised, lane, stored>>
         /\ round' \in RoundState /\ round'.pendingRam = round.pendingRam
         /\ round'.todo \subseteq round.todo /\ round'.reading = round.reading
  <2> DEFINE claimed == [round EXCEPT !.todo = @ \ {i}, !.claims = @ + 1, !.pendingRam = @ + Ram[j]]
             passed == [round EXCEPT !.todo = @ \ {i}]
  <2>1. /\ round.todo \ {i} \subseteq DOMAIN Candidates /\ round.claims + 1 \in Int
        /\ round.pendingRam + Ram[j] \in Int
    BY <1>1, <1>2 DEF RoundState
  <2>2. passed \in RoundState /\ claimed \in RoundState
    <3>1. ASSUME NEW x \in RoundState, NEW t \in SUBSET (DOMAIN Candidates), NEW c \in Int, NEW p \in Int
          PROVE  [x EXCEPT !.todo = t, !.claims = c, !.pendingRam = p] \in RoundState
      BY DEF RoundState
    <3>2. passed \in RoundState
      BY <1>1 DEF RoundState
    <3> QED BY <1>1, <2>1, <3>1, <3>2
  <2>3. /\ claimed.pendingRam = round.pendingRam + Ram[j]
        /\ claimed.todo = round.todo \ {i} /\ claimed.reading = round.reading
    BY <1>1 DEF RoundState
  <2>4. /\ passed.pendingRam = round.pendingRam
        /\ passed.todo = round.todo \ {i} /\ passed.reading = round.reading
    BY <1>1 DEF RoundState
  <2>5. \/ /\ LaneAllowed(j, next, round.reading, round.pendingRam)
           /\ promised' = promised \cup {j}
           /\ lane' = [lane EXCEPT ![j] = "claimed"]
           /\ stored' = next
           /\ round' = claimed
        \/ round' = passed /\ UNCHANGED <<promised, lane, stored>>
    BY <1>5
  <2> HIDE DEF claimed, passed
  <2> QED BY <2>2, <2>3, <2>4, <2>5
<1> QED BY <1>1, <1>2, <1>4, <1>5, <1>6 DEF next

\* Every step of the governor keeps what it promised within what it read.
LEMMA GovernorStep == GovernorInv /\ [GovernorNext]_governorVars => GovernorInv'
<1> SUFFICES ASSUME GovernorInv, [GovernorNext]_governorVars PROVE GovernorInv'
  OBVIOUS
<1>1. ASSUME NEW said \in Readings, BeginRound(said) PROVE GovernorInv'
  <2>1. RamOf(promised) \in Int
    BY PromisedRam DEF GovernorInv
  <2> QED BY <1>1, <2>1 DEF BeginRound, GovernorInv, RoundState
<1>2. CASE ConsiderCandidate
  <2>1. PICK j \in LocalJobs :
            LET next == Hysteresis(tier, round.reading[1]) IN
            /\ tier' = next /\ next \in TierState
            /\ \/ /\ promised' = promised \cup {j}
                  /\ stored' = next
                  /\ round'.pendingRam = round.pendingRam + Ram[j]
               \/ /\ UNCHANGED <<promised, lane, stored>>
                  /\ round'.pendingRam = round.pendingRam
    BY <1>2, ConsiderIs
  <2>2. /\ round' \in RoundState /\ round'.todo \subseteq round.todo /\ round'.reading = round.reading
        /\ round.reading \in Readings /\ round.pendingRam \in Int
    BY <1>2, ConsiderIs
  <2>6. RamOf(promised) <= round.pendingRam
    BY <1>2 DEF GovernorInv, ConsiderCandidate
  <2>3. /\ RamOf(promised \cup {j}) <= RamOf(promised) + Ram[j] /\ Ram[j] \in Int
        /\ RamOf(promised) \in Int /\ RamOf(promised \cup {j}) \in Int
    <3>1. promised \in SUBSET LocalJobs /\ promised \cup {j} \in SUBSET LocalJobs
      BY DEF GovernorInv
    <3> QED BY <3>1, RamSums, PromisedRam
  <2>4. RamOf(promised') <= round'.pendingRam
    <3>1. CASE promised' = promised \cup {j} /\ round'.pendingRam = round.pendingRam + Ram[j]
      BY <2>2, <2>3, <2>6, <3>1
    <3>2. CASE promised' = promised /\ round'.pendingRam = round.pendingRam
      BY <2>6, <3>2
    <3> QED BY <2>1, <3>1, <3>2
  <2>5. /\ promised' \subseteq LocalJobs /\ tier' \in TierState /\ stored' \in TierState
    BY <2>1 DEF GovernorInv
  <2> QED BY <2>2, <2>4, <2>5 DEF GovernorInv, RoundState
<1>3. CASE CloseRound \/ GovernorCrash
  BY <1>3 DEF CloseRound, GovernorCrash, GovernorInv, NoRound, RoundState
<1>4. ASSUME NEW j \in LocalJobs, LaunchLane(j) \/ EndLane(j) PROVE GovernorInv'
  <2>1. promised' \in {promised, promised \ {j}} /\ UNCHANGED <<round, tier, stored>>
    BY <1>4 DEF LaunchLane, EndLane
  <2>2. /\ RamOf(promised \ {j}) <= RamOf(promised)
        /\ RamOf(promised) \in Int /\ RamOf(promised \ {j}) \in Int
    BY RamSums, PromisedRam DEF GovernorInv
  <2>3. round.todo # {} => RamOf(promised') <= round.pendingRam
    BY <2>1, <2>2 DEF GovernorInv, RoundState
  <2> QED BY <2>1, <2>3 DEF GovernorInv
<1>5. CASE DiskChanges
  BY <1>5 DEF DiskChanges, GovernorInv
<1>6. CASE UNCHANGED governorVars
  BY <1>6 DEF governorVars, GovernorInv
<1> QED BY <1>1, <1>2, <1>3, <1>4, <1>5, <1>6 DEF GovernorNext, LocalJobs

\* LanesFitTheReading for any candidates, readings and numbers of lanes, provided
\* a worse reading takes effect at once, as degrade_samples does by default: the
\* lanes that _ensure_reservations claims on one reading together fit into it,
\* also when jobs end and controllers die in the middle of a round.
THEOREM ClaimedLanesFit ==
    ASSUME DegradeSamples = 1
    PROVE  GovernorSpec => LanesFitTheReading
<1>1. GovernorInit => GovernorInv
  BY DEF GovernorInit, GovernorInv, NoTier, NoRound, TierState, TierNames, RoundState
<1>2. ASSUME GovernorInv, [GovernorNext]_governorVars, NewlyClaimed # {}
      PROVE  round.reading[1] = "normal" /\ RamOf(promised') <= round.reading[2]
  <2>1. ConsiderCandidate
    <3>1. UNCHANGED lane => NewlyClaimed = {}
      BY DEF NewlyClaimed
    <3>2. ASSUME NEW j \in LocalJobs, LaunchLane(j) \/ EndLane(j) PROVE NewlyClaimed = {}
      <4>1. PICK s : s \in {"running", "refused", "none"} /\ lane' = [lane EXCEPT ![j] = s]
        BY <3>2 DEF LaunchLane, EndLane
      <4>2. ASSUME NEW k \in NewlyClaimed PROVE FALSE
        <5>1. lane[k] = "none" /\ lane'[k] = "claimed"
          BY <4>2 DEF NewlyClaimed
        <5>2. lane'[k] \in {lane[k], s}
          BY <4>1, <5>1
        <5> QED BY <4>1, <5>1, <5>2
      <4> QED BY <4>2
    <3>3. ConsiderCandidate \/ UNCHANGED lane
          \/ \E j \in LocalJobs : LaunchLane(j) \/ EndLane(j)
      BY <1>2 DEF GovernorNext, governorVars, BeginRound, CloseRound, DiskChanges,
                  GovernorCrash, LocalJobs
    <3> QED BY <1>2, <3>1, <3>2, <3>3
  <2>2. PICK j \in LocalJobs :
            LET next == Hysteresis(tier, round.reading[1]) IN
            \/ /\ LaneAllowed(j, next, round.reading, round.pendingRam)
               /\ promised' = promised \cup {j}
            \/ UNCHANGED lane
    BY <1>2, <2>1, ConsiderIs
  <2>3. /\ LaneAllowed(j, Hysteresis(tier, round.reading[1]), round.reading, round.pendingRam)
        /\ promised' = promised \cup {j}
    BY <1>2, <2>2 DEF NewlyClaimed
  <2>4. /\ round.reading \in Readings /\ RamOf(promised) <= round.pendingRam
        /\ round.pendingRam \in Int /\ tier \in TierState
    BY <1>2, <2>1 DEF GovernorInv, ConsiderCandidate, RoundState
  <2>5. round.reading[1] \in TierNames \ {"none"} /\ round.reading[2] \in Int
    BY <2>4, GovernorAssumption DEF TierNames
  <2>6. round.reading[1] = "normal"
    BY <2>3, <2>4, <2>5, HysteresisIs DEF LaneAllowed
  <2>7. /\ RamOf(promised \cup {j}) <= RamOf(promised) + Ram[j]
        /\ RamOf(promised) \in Int /\ RamOf(promised \cup {j}) \in Int
    <3>1. promised \in SUBSET LocalJobs /\ promised \cup {j} \in SUBSET LocalJobs
      BY <1>2 DEF GovernorInv
    <3> QED BY <3>1, RamSums, PromisedRam
  <2>8. Ram[j] \in Nat /\ RamP90[j] \in Nat /\ Ram[j] <= RamP90[j]
    BY GovernorAssumption DEF LocalJobs
  <2>9. RamP90[j] <= round.reading[2] - round.pendingRam
    BY <2>3 DEF LaneAllowed
  <2>10. RamOf(promised \cup {j}) <= round.reading[2]
    BY <2>4, <2>5, <2>7, <2>8, <2>9
  <2> QED BY <2>3, <2>6, <2>10
<1> QED BY <1>1, <1>2, GovernorStep, PTL DEF GovernorSpec, LanesFitTheReading

-----------------------------------------------------------------------------
(* ProvenanceLedger *)

EventTypes == {kind[1] : kind \in WrittenKinds} \cup {"none", "abandoned", "review", "promoted"}
Marks == {kind[2] : kind \in WrittenKinds} \cup {"none", "approve", "escalate"}
Events == [type : EventTypes, mark : Marks, parent : Int, id : Int]

\* What is read of the lines up to each of them.
ReadsAs(g, lines) ==
    /\ g[0] = <<>>
    /\ \A n \in 1..Len(lines) : g[n] = Extended(g[n - 1], lines[n])

\* An event added to a line of events stays one of the events.
LEMMA ExtendedType ==
    ASSUME NEW chain \in Seq(Events), NEW e \in Events
    PROVE  Extended(chain, e) \in Seq(Events)
<1>1. NoEvent \in Events
  BY DEF NoEvent, Events, EventTypes, Marks
<1>2. Extended(chain, e) \in {Unreadable, Append(chain, e), chain}
  BY DEF Extended
<1>3. Append(chain, e) \in Seq(Events) /\ Unreadable \in Seq(Events)
  BY <1>1 DEF Unreadable
<1> QED BY <1>2, <1>3

\* Reading line by line is a recursion over the lines.
LEMMA ReplayReads ==
    ASSUME NEW lines \in Seq(Events)
    PROVE  \E g : /\ ReadsAs(g, lines) /\ Replay(lines) = g[Len(lines)]
                  /\ \A n \in 0..Len(lines) : g[n] \in Seq(Events)
<1> DEFINE N == Len(lines)
           D == 0..N
           before == [n \in D |-> n - 1]
           rank == [n \in D |-> n]
           step == [p \in D \X Seq(Events) |->
                      IF p[1] = 0 THEN <<>> ELSE Extended(p[2], lines[p[1]])]
           G(r) == [n \in D |-> IF n = 0 THEN <<>> ELSE Extended(r[n - 1], lines[n])]
           read == CHOOSE r : r = G(r)
<1>1. N \in Nat /\ \A n \in 1..N : lines[n] \in Events
  OBVIOUS
<1>2. Founded(D, 0, before, rank)
  BY <1>1 DEF Founded
<1>3. \A n \in D, v \in Seq(Events) :
         step[<<n, v>>] = IF n = 0 THEN <<>> ELSE Extended(v, lines[n])
  OBVIOUS
<1>4. Values(D, Seq(Events), <<>>, step)
  <2>1. <<>> \in Seq(Events)
    OBVIOUS
  <2>2. ASSUME NEW n \in D, NEW v \in Seq(Events) PROVE step[<<n, v>>] \in Seq(Events)
    <3>1. CASE n = 0
      BY <1>3, <2>1, <3>1
    <3>2. CASE n # 0
      <4>1. lines[n] \in Events
        BY <1>1, <3>2
      <4> HIDE DEF step, N
      <4> QED BY <1>3, <3>2, <4>1, ExtendedType
    <3> QED BY <3>1, <3>2
  <2> HIDE DEF D, step
  <2> QED BY <2>1, <2>2 DEF Values
<1>5. PICK f \in [D -> Seq(Events)] : \A n \in D :
          f[n] = IF n = 0 THEN <<>> ELSE step[<<n, f[before[n]]>>]
  <2> HIDE DEF D, before, rank, step
  <2> QED BY <1>2, <1>4, RecursionDefines
<1>6. \A n \in D : f[n] = IF n = 0 THEN <<>> ELSE Extended(f[n - 1], lines[n])
  <2>1. ASSUME NEW n \in D, n # 0
        PROVE  f[n] = Extended(f[n - 1], lines[n])
    <3>1. before[n] = n - 1 /\ n - 1 \in D
      BY <1>1, <2>1
    <3>2. f[n - 1] \in Seq(Events)
      BY <1>5, <3>1
    <3> HIDE DEF before, step
    <3> QED BY <1>3, <1>5, <2>1, <3>1, <3>2
  <2> QED BY <1>5, <2>1
<1>7. f = G(f)
  <2> HIDE DEF D
  <2> QED BY <1>6
<1>8. read = G(read)
  BY <1>7
<1>9. Replay(lines) = read[N]
  BY DEF Replay
<1> HIDE DEF read
<1>10. \A n \in D : read[n] = IF n = 0 THEN <<>> ELSE Extended(read[n - 1], lines[n])
  BY <1>8
<1>11. ReadsAs(read, lines)
  BY <1>1, <1>10 DEF ReadsAs
<1>12. read = f
  <2> DEFINE Bad == {n \in D : read[n] # f[n]}
  <2>1. Bad = {}
    <3> SUFFICES ASSUME Bad # {} PROVE FALSE
      OBVIOUS
    <3>1. Bad \in SUBSET Nat
      BY <1>1
    <3>2. PICK n \in Bad : \A m \in Bad : n <= m
      <4> HIDE DEF Bad
      <4> QED BY <3>1, SmallestNumber
    <3>3. n \in D /\ n # 0
      BY <1>6, <1>10, <3>2
    <3>4. n - 1 \in D /\ ~(n <= n - 1)
      BY <1>1, <3>3
    <3>5. read[n - 1] = f[n - 1]
      BY <3>2, <3>4
    <3>6. read[n] = f[n]
      <4> HIDE DEF D
      <4> QED BY <1>6, <1>10, <3>3, <3>5
    <3> QED BY <3>2, <3>6
  <2>2. read = [n \in D |-> read[n]] /\ f = [n \in D |-> f[n]]
    BY <1>5, <1>8
  <2> QED BY <2>1, <2>2
<1>13. \A n \in D : read[n] \in Seq(Events)
  BY <1>5, <1>12
<1> QED BY <1>9, <1>11, <1>13

\* Two files that begin alike are read alike as far as they do.
LEMMA ReadsAlike ==
    ASSUME NEW lines \in Seq(Events), NEW g, ReadsAs(g, lines),
           NEW more \in Seq(Events), NEW h, ReadsAs(h, more),
           Len(lines) <= Len(more), \A n \in 1..Len(lines) : lines[n] = more[n]
    PROVE  g[Len(lines)] = h[Len(lines)]
<1> DEFINE N == Len(lines)
           Bad == {n \in 0..N : g[n] # h[n]}
<1>1. N \in Nat /\ Len(more) \in Nat
  OBVIOUS
<1>2. /\ g[0] = h[0]
      /\ \A n \in 1..N : g[n] = Extended(g[n - 1], lines[n]) /\ h[n] = Extended(h[n - 1], lines[n])
  BY <1>1 DEF ReadsAs
<1>3. Bad = {}
  <2> SUFFICES ASSUME Bad # {} PROVE FALSE
    OBVIOUS
  <2>1. Bad \in SUBSET Nat
    BY <1>1
  <2>2. PICK n \in Bad : \A m \in Bad : n <= m
    <3> HIDE DEF Bad
    <3> QED BY <2>1, SmallestNumber
  <2>3. n \in 1..N /\ n - 1 \notin Bad /\ n - 1 \in 0..N
    BY <1>1, <1>2, <2>2
  <2> QED BY <1>2, <2>2, <2>3
<1> QED BY <1>1, <1>3

\* One line more is one event more.
LEMMA ReplayMore ==
    ASSUME NEW lines \in Seq(Events), NEW e \in Events
    PROVE  Replay(Append(lines, e)) = Extended(Replay(lines), e)
<1> DEFINE more == Append(lines, e)
           N == Len(lines)
<1>1. /\ more \in Seq(Events) /\ N \in Nat /\ Len(more) = N + 1 /\ more[N + 1] = e
      /\ \A n \in 1..N : lines[n] = more[n]
  OBVIOUS
<1> HIDE DEF more
<1>2. PICK g : ReadsAs(g, lines) /\ Replay(lines) = g[N]
  BY ReplayReads
<1>3. PICK h : ReadsAs(h, more) /\ Replay(more) = h[Len(more)]
  BY <1>1, ReplayReads
<1>4. g[N] = h[N]
  BY <1>1, <1>2, <1>3, ReadsAlike
<1>5. h[N + 1] = Extended(h[(N + 1) - 1], more[N + 1])
  BY <1>1, <1>3 DEF ReadsAs
<1> HIDE DEF N
<1>6. (N + 1) - 1 = N
  BY <1>1
<1> QED BY <1>1, <1>2, <1>3, <1>4, <1>5, <1>6 DEF more

\* Lines that repeat what was read add nothing.
LEMMA ReplayAgain ==
    ASSUME NEW lines \in Seq(Events), NEW again \in Seq(Events),
           \A n \in 1..Len(again) : Known(Replay(lines), again[n])
    PROVE  Replay(lines \o again) = Replay(lines)
<1> DEFINE more == lines \o again
           N == Len(lines)
           M == Len(again)
<1>1. /\ more \in Seq(Events) /\ N \in Nat /\ M \in Nat /\ Len(more) = N + M
      /\ \A n \in 1..N : lines[n] = more[n]
      /\ \A n \in 1..M : more[N + n] = again[n]
  OBVIOUS
<1> HIDE DEF more, N, M
<1>2. PICK g : ReadsAs(g, lines) /\ Replay(lines) = g[N]
  BY ReplayReads DEF N
<1>3. PICK h : ReadsAs(h, more) /\ Replay(more) = h[Len(more)]
  BY <1>1, ReplayReads
<1>4. g[N] = h[N]
  BY <1>1, <1>2, <1>3, ReadsAlike DEF N
<1>5. \A n \in 1..M : Extended(g[N], again[n]) = g[N]
  BY <1>2 DEF Extended, Accepts, M
<1> DEFINE Bad == {n \in 0..M : h[N + n] # g[N]}
<1>6. Bad = {}
  <2> SUFFICES ASSUME Bad # {} PROVE FALSE
    OBVIOUS
  <2>1. Bad \in SUBSET Nat
    BY <1>1
  <2>2. PICK n \in Bad : \A m \in Bad : n <= m
    <3> HIDE DEF Bad
    <3> QED BY <2>1, SmallestNumber
  <2>6. N + 0 = N /\ n \in 0..M
    BY <1>1, <2>2
  <2>7. n # 0
    BY <1>4, <2>2, <2>6
  <2>8. n \in 1..M /\ n - 1 \in 0..M /\ ~(n <= n - 1)
    BY <1>1, <2>6, <2>7
  <2>3. n \in 1..M /\ n - 1 \in 0..M /\ n - 1 \notin Bad
    BY <2>2, <2>8
  <2>4. h[N + n] = Extended(h[(N + n) - 1], more[N + n])
    BY <1>1, <1>3, <2>3 DEF ReadsAs
  <2>5. (N + n) - 1 = N + (n - 1) /\ h[N + (n - 1)] = g[N]
    BY <1>1, <2>3
  <2> QED BY <1>1, <1>5, <2>2, <2>3, <2>4, <2>5
<1>7. h[N + M] = g[N]
  <2>1. M \in 0..M
    BY <1>1
  <2> QED BY <1>6, <2>1
<1> QED BY <1>1, <1>2, <1>3, <1>7 DEF more

-----------------------------------------------------------------------------
\* The chain is what its file gives when it is read again; an event that is not
\* a promotion bears its place as its id, and promotions have ids of their own.
LedgerInv ==
    /\ memory \in Seq(Events) /\ file \in Seq(Events)
    /\ claim \in Events
    /\ claim # NoEvent => claim.type = "promoted" /\ claim.id < 0
    /\ \A i \in 1..Len(memory) : memory[i].id = i \/ memory[i].id < 0
    /\ memory = Replay(file)

\* The last event of a type, if there is one.
LEMMA LatestType ==
    ASSUME NEW chain \in Seq(Events), NEW type
    PROVE  /\ Latest(chain, type) \in Nat
           /\ Latest(chain, type) # 0 => Latest(chain, type) \in 1..Len(chain)
<1> DEFINE S == OfType(chain, type)
           back == {Len(chain) - i : i \in S}
<1>1. S \subseteq 1..Len(chain) /\ Len(chain) \in Nat
  BY DEF OfType
<1>2. CASE S # {}
  <2>1. back \in SUBSET Nat /\ back # {}
    BY <1>1, <1>2
  <2>2. PICK b \in back : \A c \in back : b <= c
    <3> HIDE DEF back
    <3> QED BY <2>1, SmallestNumber
  <2>3. PICK i \in S : b = Len(chain) - i
    OBVIOUS
  <2>5. \A k \in S : i >= k
    <3>1. ASSUME NEW k \in S PROVE i >= k
      <4>1. Len(chain) - i <= Len(chain) - k
        BY <2>2, <2>3
      <4> QED BY <1>1, <2>3, <4>1
    <3> QED BY <3>1
  <2>4. Max(S) \in S
    <3> HIDE DEF S
    <3> QED BY <2>3, <2>5 DEF Max
  <2> HIDE DEF S
  <2> QED BY <1>1, <1>2, <2>4 DEF Latest, S
<1>3. CASE S = {}
  BY <1>3 DEF Latest
<1> QED BY <1>2, <1>3

\* An event that is recorded.
LEMMA RecordStep ==
    ASSUME LedgerInv, NEW e \in Events, Record(e), Accepts(memory, e) = "append",
           e.id = Len(memory) + 1 \/ e.id < 0
    PROVE  /\ memory' \in Seq(Events) /\ file' \in Seq(Events)
           /\ \A i \in 1..Len(memory') : memory'[i].id = i \/ memory'[i].id < 0
           /\ memory' = Replay(file')
<1>1. memory' = Append(memory, e) /\ file' = Append(file, e)
  BY DEF Record
<1>2. memory \in Seq(Events) /\ file \in Seq(Events) /\ memory = Replay(file)
  BY DEF LedgerInv
<1>3. memory' \in Seq(Events) /\ file' \in Seq(Events)
  BY <1>1, <1>2
<1>4. \A i \in 1..Len(memory') : memory'[i].id = i \/ memory'[i].id < 0
  BY <1>1, <1>2 DEF LedgerInv
<1>5. memory # Unreadable
  <2>1. memory[1].id # 0 \/ Len(memory) # 1
    BY <1>2 DEF LedgerInv
  <2>2. Unreadable[1].id = 0 /\ Len(Unreadable) = 1
    BY DEF Unreadable, NoEvent
  <2> QED BY <2>1, <2>2
<1>6. Extended(memory, e) = Append(memory, e)
  BY <1>5 DEF Extended
<1> QED BY <1>1, <1>2, <1>3, <1>4, <1>6, ReplayMore

\* An event of a writer is new to the chain.
LEMMA WriteStep ==
    ASSUME LedgerInv, NEW kind, Write(kind), kind[1] \in EventTypes \ {"promoted"}, kind[2] \in Marks
    PROVE  /\ LedgerInv'
           /\ OfType(memory', "promoted") # {} => OfType(memory, "promoted") # {}
<1> DEFINE e == [type |-> kind[1], mark |-> kind[2], parent |-> Len(memory),
                 id |-> Len(memory) + 1]
<1>1. Record(e) /\ claim' = claim
  BY DEF Write
<1>2. memory \in Seq(Events)
  BY DEF LedgerInv
<1>3. /\ e \in Events /\ e.type # "promoted" /\ e.parent = Len(memory)
      /\ e.id = Len(memory) + 1 /\ Len(memory) \in Nat
  BY <1>2 DEF Events
<1> HIDE DEF e
<1>4. ~Known(memory, e)
  BY <1>2, <1>3 DEF LedgerInv, Known
<1>5. Accepts(memory, e) = "append"
  BY <1>3, <1>4 DEF Accepts
<1>6. LedgerInv'
  BY <1>1, <1>3, <1>5, RecordStep DEF LedgerInv
<1>7. ASSUME OfType(memory', "promoted") # {} PROVE OfType(memory, "promoted") # {}
  <2>1. memory' = Append(memory, e)
    BY <1>1 DEF Record
  <2>2. PICK i \in 1..Len(memory') : memory'[i].type = "promoted"
    BY <1>2, <1>3, <1>7, <2>1 DEF OfType
  <2>3. i \in 1..Len(memory) /\ memory[i].type = "promoted"
    BY <1>2, <1>3, <2>1, <2>2
  <2> QED BY <1>2, <2>3 DEF OfType
<1> QED BY <1>6, <1>7

\* Opening the ledger again reads from the file what was remembered, and writes it once more.
LEMMA ReopenStep ==
    ASSUME LedgerInv, Reopen
    PROVE  LedgerInv' /\ memory' = memory
<1>1. memory' = memory /\ file' = file \o memory /\ claim' = claim
  BY DEF Reopen, LedgerInv
<1>2. memory \in Seq(Events) /\ file \in Seq(Events) /\ memory = Replay(file)
  BY DEF LedgerInv
<1>3. file' \in Seq(Events)
  BY <1>1, <1>2
<1>4. \A n \in 1..Len(memory) : Known(memory, memory[n])
  BY <1>2 DEF Known
<1>5. Replay(file \o memory) = memory
  BY <1>2, <1>4, ReplayAgain
<1> QED BY <1>1, <1>2, <1>3, <1>5 DEF LedgerInv

\* One step of the ledger; a first promotion is one that was promotable.
LEMMA LedgerStep ==
    ASSUME LedgerInv, [LedgerNext]_ledgerVars
    PROVE  /\ LedgerInv'
           /\ OfType(memory', "promoted") # {} /\ OfType(memory, "promoted") = {} =>
                 Promotable(memory, claim)
<1>1. ASSUME NEW kind \in WrittenKinds, Write(kind)
      PROVE  LedgerInv' /\ (OfType(memory', "promoted") # {} => OfType(memory, "promoted") # {})
  <2>1. kind[1] \in EventTypes \ {"promoted"} /\ kind[2] \in Marks
    BY LedgerAssumption DEF EventTypes, Marks
  <2> QED BY <1>1, <2>1, WriteStep
<1>2. ASSUME NEW dead \in BOOLEAN, ReconcileAttempt(dead)
      PROVE  LedgerInv' /\ (OfType(memory', "promoted") # {} => OfType(memory, "promoted") # {})
  <2> DEFINE kind == IF dead THEN <<"abandoned", "none">> ELSE <<"review", "escalate">>
  <2>1. kind[1] \in EventTypes \ {"promoted"} /\ kind[2] \in Marks
    BY DEF EventTypes, Marks
  <2>2. Write(kind)
    BY <1>2 DEF ReconcileAttempt
  <2> HIDE DEF kind
  <2> QED BY <2>1, <2>2, WriteStep
<1>3. CASE PrepareClaim
  <2>1. LatestReview(memory) \in Nat \ {0}
    BY <1>3, LatestType DEF PrepareClaim, LatestReview, LedgerInv
  <2>2. claim' \in Events /\ claim'.type = "promoted" /\ claim'.id < 0
    BY <1>3, <2>1 DEF PrepareClaim, Events, EventTypes, Marks
  <2> QED BY <1>3, <2>2 DEF PrepareClaim, LedgerInv
<1>4. ASSUME NEW answered \in BOOLEAN, AppendClaim(answered)
      PROVE  /\ LedgerInv'
             /\ OfType(memory', "promoted") # {} /\ OfType(memory, "promoted") = {} =>
                   Promotable(memory, claim)
  <2>1. /\ claim \in Events /\ claim.type = "promoted" /\ claim.id < 0
        /\ claim' \in {claim, NoEvent} /\ NoEvent \in Events
    BY <1>4 DEF AppendClaim, LedgerInv, NoEvent, Events, EventTypes, Marks
  <2>2. CASE Accepts(memory, claim) = "append"
    <3>1. Record(claim)
      BY <1>4, <2>2 DEF AppendClaim
    <3>2. LedgerInv'
      BY <2>1, <2>2, <3>1, RecordStep DEF LedgerInv
    <3>3. Promotable(memory, claim)
      BY <2>1, <2>2 DEF Accepts
    <3> QED BY <3>2, <3>3
  <2>3. CASE Accepts(memory, claim) # "append"
    <3>1. UNCHANGED <<memory, file>>
      BY <1>4, <2>3 DEF AppendClaim
    <3> QED BY <2>1, <3>1 DEF LedgerInv
  <2> QED BY <2>2, <2>3
<1>5. CASE Reopen
  BY <1>5, ReopenStep
<1>6. CASE UNCHANGED ledgerVars
  BY <1>6 DEF ledgerVars, LedgerInv
<1> QED BY <1>1, <1>2, <1>3, <1>4, <1>5, <1>6 DEF LedgerNext, PrepareClaim

\* PromotionBacked for any kinds of events, numbers of events and file lines:
\* whatever is appended between the promoter's reading and its claim, however
\* often the claim is repeated and the file is read again.
THEOREM PromotionsAreBacked == LedgerSpec => PromotionBacked
<1>1. LedgerInit => LedgerInv
  <2> SUFFICES ASSUME LedgerInit PROVE LedgerInv
    OBVIOUS
  <2>1. memory = <<>> /\ file = <<>> /\ claim = NoEvent
    BY DEF LedgerInit
  <2>2. PICK g : ReadsAs(g, <<>>) /\ Replay(<<>>) = g[Len(<<>>)]
    <3>1. <<>> \in Seq(Events)
      OBVIOUS
    <3> QED BY <3>1, ReplayReads
  <2>3. Replay(<<>>) = <<>>
    BY <2>2 DEF ReadsAs
  <2> QED BY <2>1, <2>3 DEF LedgerInv, NoEvent, Events, EventTypes, Marks
<1>2. ASSUME LedgerInv, [LedgerNext]_ledgerVars,
             ~Lifecycle(memory).promoted, Lifecycle(memory').promoted
      PROVE  Lifecycle(memory).validated /\ Lifecycle(memory).review = "approve"
  <2>1. OfType(memory', "promoted") # {} /\ OfType(memory, "promoted") = {}
    BY <1>2 DEF Lifecycle
  <2>2. Promotable(memory, claim)
    BY <1>2, <2>1, LedgerStep
  <2> QED BY <2>2 DEF Promotable, Lifecycle
<1>3. LedgerInv /\ [LedgerNext]_ledgerVars => LedgerInv'
  BY LedgerStep
<1> QED BY <1>1, <1>2, <1>3, PTL DEF LedgerSpec, PromotionBacked

-----------------------------------------------------------------------------
(* QuotaEvidence *)

AccountTyped ==
    /\ hour \in Nat
    /\ account \in [left : [QuotaWindows -> 0..Cap], ends : [QuotaWindows -> Int], spent : Nat]
    /\ \A w \in QuotaWindows : hour < account.ends[w]
ReceiptsTyped == receipts \in [min : Int, max : Int, known : BOOLEAN, any : BOOLEAN]

\* As long as the window of a snapshot lasts, what is missing from its balance
\* was spent.
SampleHolds(s) ==
    s.reset # Unreported /\ hour < s.reset =>
        /\ account.ends[1] = s.reset
        /\ s.left - account.left[1] = account.spent - s.spent

Samples == [at : Int, left : Int, reset : Int, spent : Nat]

EvidenceInv ==
    /\ AccountTyped /\ ReceiptsTyped
    /\ receipts.known => account.left[1] \in (Cap - receipts.max)..(Cap - receipts.min)
    /\ \A r \in console : r.percent \in Nat \cup {Unreported}
    /\ samples \in [Attempts -> Samples]
    /\ \A a \in Attempts : SampleHolds(samples[a])
    /\ \A row \in evidence : row.delta # Unreported /\ row.dated => row.delta = row.spent

\* The account's remainders, window ends and spending are numbers, and no window has ended.
LEMMA AccountFacts ==
    ASSUME AccountTyped
    PROVE  /\ 1 \in QuotaWindows /\ hour \in Nat /\ account.spent \in Nat
           /\ \A w \in QuotaWindows : account.left[w] \in 0..Cap /\ account.ends[w] \in Int
                                      /\ hour < account.ends[w]
BY EvidenceAssumption DEF AccountTyped

\* What is spent reaches every window at once.
LEMMA SpendKeeps ==
    ASSUME EvidenceInv, NEW slack \in {Unreported, 1}, SpendUnit(slack)
    PROVE  EvidenceInv'
<1>1. /\ AccountTyped /\ ReceiptsTyped
      /\ \A w \in QuotaWindows : account.left[w] > 0
      /\ receipts' = [min |-> receipts.min + 1 - slack, max |-> receipts.max + 1 + slack,
                      known |-> receipts.known /\ slack # Unreported, any |-> TRUE]
      /\ UNCHANGED <<hour, console, samples, evidence>>
  BY DEF EvidenceInv, SpendUnit
<1>2. /\ account'.ends = account.ends /\ account'.spent = account.spent + 1
      /\ account'.left = [w \in QuotaWindows |-> account.left[w] - 1]
      /\ account' \in [left : [QuotaWindows -> 0..Cap], ends : [QuotaWindows -> Int], spent : Nat]
  <2> DEFINE less == [w \in QuotaWindows |-> account.left[w] - 1]
  <2>1. account' = [account EXCEPT !.left = less, !.spent = @ + 1]
    BY DEF SpendUnit
  <2>2. less \in [QuotaWindows -> 0..Cap]
    BY <1>1, AccountFacts, EvidenceAssumption
  <2> HIDE DEF less
  <2>3. account \in [left : [QuotaWindows -> 0..Cap], ends : [QuotaWindows -> Int], spent : Nat]
    BY <1>1 DEF AccountTyped
  <2>4. account.spent + 1 \in Nat
    BY <2>3
  <2> QED BY <2>1, <2>2, <2>3, <2>4 DEF less
<1>3. account'.left[1] = account.left[1] - 1
  BY <1>2, EvidenceAssumption
<1>4. AccountTyped'
  BY <1>1, <1>2 DEF AccountTyped
<1>5. /\ receipts'.min = receipts.min + 1 - slack /\ receipts'.max = receipts.max + 1 + slack
      /\ receipts'.known = (receipts.known /\ slack # Unreported)
  BY <1>1
<1>6. ReceiptsTyped'
  BY <1>1 DEF ReceiptsTyped, Unreported
<1>7. receipts'.known => account'.left[1] \in (Cap - receipts'.max)..(Cap - receipts'.min)
  <2>1. receipts.min \in Int /\ receipts.max \in Int
    BY <1>1 DEF ReceiptsTyped
  <2>2. account.left[1] \in Int
    BY <1>1, AccountFacts
  <2>3. ASSUME receipts'.known
        PROVE  account'.left[1] \in (Cap - receipts'.max)..(Cap - receipts'.min)
    <3>1. receipts.known /\ slack = 1
      BY <1>5, <2>3
    <3>2. account.left[1] \in (Cap - receipts.max)..(Cap - receipts.min)
      BY <3>1 DEF EvidenceInv
    <3>3. receipts'.max = receipts.max + 2 /\ receipts'.min = receipts.min
      BY <1>5, <2>1, <3>1
    <3> QED BY <1>3, <2>1, <2>2, <3>2, <3>3, EvidenceAssumption
  <2> QED BY <2>3
<1>8. \A a \in Attempts : SampleHolds(samples[a])'
  <2> SUFFICES ASSUME NEW a \in Attempts, samples[a].reset # Unreported, hour < samples[a].reset
               PROVE  /\ account'.ends[1] = samples[a].reset
                      /\ samples[a].left - account'.left[1] = account'.spent - samples[a].spent
    BY <1>1 DEF SampleHolds
  <2>1. /\ account.ends[1] = samples[a].reset
        /\ samples[a].left - account.left[1] = account.spent - samples[a].spent
        /\ samples[a] \in Samples
    BY DEF EvidenceInv, SampleHolds
  <2>2. samples[a].left \in Int /\ samples[a].spent \in Int /\ account.left[1] \in Int
        /\ account.spent \in Int
    BY <1>1, <2>1, AccountFacts DEF Samples
  <2> QED BY <1>2, <1>3, <2>1, <2>2
<1> QED BY <1>1, <1>4, <1>6, <1>7, <1>8 DEF EvidenceInv

\* A record tells a balance or none.
LEMMA RecordTells ==
    ASSUME AccountTyped, NEW source, NEW w \in QuotaWindows, NEW entry
    PROVE  MakeRecord(source, w, entry).percent \in Nat \cup {Unreported}
BY AccountFacts, EvidenceAssumption DEF MakeRecord

\* Saving a console snapshot changes nothing of the account or of what was concluded from it.
LEMMA ConsoleKeeps ==
    ASSUME EvidenceInv, NEW entries \in Reports, SaveConsole(entries)
    PROVE  EvidenceInv'
<1> DEFINE records == {MakeRecord("console", w, entries[w]) : w \in QuotaWindows}
<1>1. \A r \in records : /\ r.percent \in Nat \cup {Unreported}
                         /\ \A b : [r EXCEPT !.discrepancy = b].percent = r.percent
  <2> SUFFICES ASSUME NEW w \in QuotaWindows, NEW r, r = MakeRecord("console", w, entries[w])
               PROVE  /\ r.percent \in Nat \cup {Unreported}
                      /\ \A b : [r EXCEPT !.discrepancy = b].percent = r.percent
    OBVIOUS
  <2>1. r.percent \in Nat \cup {Unreported}
    BY RecordTells DEF EvidenceInv
  <2>2. \A b : [r EXCEPT !.discrepancy = b].percent = r.percent
    BY DEF MakeRecord
  <2> QED BY <2>1, <2>2
<1>2. \A r \in console' : \E q \in records : \E b : r = [q EXCEPT !.discrepancy = b]
  BY DEF SaveConsole, ConsoleRecords
<1> HIDE DEF records
<1>3. \A r \in console' : r.percent \in Nat \cup {Unreported}
  <2> SUFFICES ASSUME NEW r \in console' PROVE r.percent \in Nat \cup {Unreported}
    OBVIOUS
  <2>1. PICK q \in records : \E b : r = [q EXCEPT !.discrepancy = b]
    BY <1>2
  <2> QED BY <1>1, <2>1
<1>4. UNCHANGED <<hour, account, samples, receipts, evidence>>
  BY DEF SaveConsole
<1> QED BY <1>3, <1>4 DEF EvidenceInv, AccountTyped, ReceiptsTyped, SampleHolds

\* A snapshot of this moment.
LEMMA SampleIs ==
    ASSUME AccountTyped, NEW tellsReset \in BOOLEAN
    PROVE  /\ SampleNow(tellsReset) \in Samples /\ SampleHolds(SampleNow(tellsReset))
           /\ SampleNow(tellsReset).at = hour
           /\ SampleNow(tellsReset).left = account.left[1]
           /\ SampleNow(tellsReset).spent = account.spent
           /\ SampleNow(tellsReset).reset \in {Unreported, account.ends[1]}
<1> DEFINE s == SampleNow(tellsReset)
<1>1. /\ s.at = hour /\ s.left = account.left[1] /\ s.spent = account.spent
      /\ s.reset \in {Unreported, account.ends[1]}
  BY DEF SampleNow
<1>2. s \in Samples
  BY AccountFacts DEF SampleNow, Samples, Unreported
<1>3. SampleHolds(s)
  BY <1>1, AccountFacts DEF SampleHolds
<1> QED BY <1>1, <1>2, <1>3

\* An attempt that starts samples the account as it is.
LEMMA StartKeeps ==
    ASSUME EvidenceInv, NEW a \in Attempts, NEW tellsReset \in BOOLEAN, StartAttempt(a, tellsReset)
    PROVE  EvidenceInv'
<1>1. /\ samples' = [samples EXCEPT ![a] = SampleNow(tellsReset)]
      /\ UNCHANGED <<hour, account, console, receipts, evidence>>
  BY DEF StartAttempt
<1>2. SampleNow(tellsReset) \in Samples /\ SampleHolds(SampleNow(tellsReset))
  BY SampleIs DEF EvidenceInv
<1>3. samples' \in [Attempts -> Samples] /\ \A b \in Attempts : SampleHolds(samples'[b])
  BY <1>1, <1>2 DEF EvidenceInv
<1> QED BY <1>1, <1>3 DEF EvidenceInv, AccountTyped, ReceiptsTyped, SampleHolds

\* A difference that is known was taken within one window.
LEMMA RecordKeeps ==
    ASSUME EvidenceInv, NEW a \in Attempts, NEW tellsReset \in BOOLEAN, RecordEvidence(a, tellsReset)
    PROVE  EvidenceInv'
<1> DEFINE before == samples[a]
           after == SampleNow(tellsReset)
           row == [attempt |-> a, delta |-> Delta(before, after),
                   spent |-> after.spent - before.spent, dated |-> before.reset # Unreported]
<1>1. evidence' = evidence \cup {row} /\ UNCHANGED <<hour, account, console, samples, receipts>>
  BY DEF RecordEvidence
<1>2. /\ after.at = hour /\ after.left = account.left[1] /\ after.spent = account.spent
      /\ after.reset \in {Unreported, account.ends[1]}
  BY SampleIs DEF EvidenceInv
<1>3. SampleHolds(before)
  BY DEF EvidenceInv
<1>4. /\ row.delta = Delta(before, after) /\ row.spent = after.spent - before.spent
      /\ row.dated = (before.reset # Unreported)
  OBVIOUS
<1> HIDE DEF before, after, row
<1>5. ASSUME row.delta # Unreported, row.dated PROVE row.delta = row.spent
  <2>1. Comparable(before, after) /\ row.delta = before.left - after.left
    BY <1>4, <1>5 DEF Delta
  <2>2. after.reset # Unreported => before.reset = after.reset
    BY <1>4, <1>5, <2>1 DEF Comparable
  <2>3. after.at < before.reset
    BY <1>4, <1>5, <2>1, <2>2 DEF Comparable
  <2>4. before.left - account.left[1] = account.spent - before.spent
    BY <1>2, <1>3, <1>4, <1>5, <2>3 DEF SampleHolds
  <2> QED BY <1>2, <1>4, <2>1, <2>4
<1>6. \A r \in evidence' : r.delta # Unreported /\ r.dated => r.delta = r.spent
  BY <1>1, <1>5 DEF EvidenceInv
<1> QED BY <1>1, <1>6 DEF EvidenceInv, AccountTyped, ReceiptsTyped, SampleHolds

\* Windows that end are filled up, and their snapshots are of the past.
LEMMA HourKeeps ==
    ASSUME EvidenceInv, HourPasses
    PROVE  EvidenceInv'
<1> DEFINE over == {w \in QuotaWindows : account.ends[w] = hour'}
           left == [w \in QuotaWindows |-> IF w \in over THEN Cap ELSE account.left[w]]
           ends == [w \in QuotaWindows |->
                      IF w \in over THEN hour' + WindowLength[w] ELSE account.ends[w]]
<1>1. /\ hour' = hour + 1 /\ account' = [account EXCEPT !.left = left, !.ends = ends]
      /\ receipts' = IF 1 \in over THEN NoReceipts ELSE receipts
      /\ UNCHANGED <<console, samples, evidence>>
  BY DEF HourPasses
<1>2. AccountTyped /\ ReceiptsTyped
  BY DEF EvidenceInv
<1>3. left \in [QuotaWindows -> 0..Cap] /\ ends \in [QuotaWindows -> Int]
      /\ \A w \in QuotaWindows : hour' < ends[w]
  <2>1. ASSUME NEW w \in QuotaWindows
        PROVE  left[w] \in 0..Cap /\ ends[w] \in Int /\ hour' < ends[w]
    BY <1>1, <1>2, AccountFacts, EvidenceAssumption
  <2> QED BY <2>1
<1>4. 1 \in QuotaWindows /\ (1 \in over <=> account.ends[1] = hour')
  BY EvidenceAssumption
<1>5. left[1] = (IF 1 \in over THEN Cap ELSE account.left[1])
      /\ (1 \notin over => ends[1] = account.ends[1])
  BY <1>4
<1> HIDE DEF over, left, ends
<1>6. /\ account'.left = left /\ account'.ends = ends /\ account'.spent = account.spent
      /\ account' \in [left : [QuotaWindows -> 0..Cap], ends : [QuotaWindows -> Int], spent : Nat]
  BY <1>1, <1>2, <1>3 DEF AccountTyped
<1>7. AccountTyped'
  BY <1>1, <1>2, <1>3, <1>6 DEF AccountTyped
<1>8. ReceiptsTyped'
  BY <1>1, <1>2 DEF ReceiptsTyped, NoReceipts
<1>9. receipts'.known => account'.left[1] \in (Cap - receipts'.max)..(Cap - receipts'.min)
  <2>1. CASE 1 \in over
    BY <1>1, <1>5, <1>6, <2>1, EvidenceAssumption DEF NoReceipts
  <2>2. CASE 1 \notin over
    BY <1>1, <1>5, <1>6, <2>2 DEF EvidenceInv
  <2> QED BY <2>1, <2>2
<1>10. \A a \in Attempts : SampleHolds(samples[a])'
  <2> SUFFICES ASSUME NEW a \in Attempts, samples[a].reset # Unreported, hour' < samples[a].reset
               PROVE  /\ account'.ends[1] = samples[a].reset
                      /\ samples[a].left - account'.left[1] = account'.spent - samples[a].spent
    BY <1>1 DEF SampleHolds
  <2>1. samples[a].reset \in Int /\ hour \in Nat
    BY <1>2 DEF EvidenceInv, Samples, AccountTyped
  <2>2. hour < samples[a].reset
    BY <1>1, <2>1
  <2>3. /\ account.ends[1] = samples[a].reset
        /\ samples[a].left - account.left[1] = account.spent - samples[a].spent
    BY <2>2 DEF EvidenceInv, SampleHolds
  <2>4. 1 \notin over
    BY <1>1, <1>4, <2>1, <2>3
  <2> QED BY <1>5, <1>6, <2>3, <2>4
<1> QED BY <1>1, <1>7, <1>8, <1>9, <1>10 DEF EvidenceInv

\* What a bundle concludes, it concludes of every window it got an answer for.
LEMMA BundlesAreTrue ==
    ASSUME EvidenceInv, NEW entries \in Reports, NEW withConsole \in BOOLEAN,
           NEW failures \in SUBSET RuntimeFailures, NEW w \in QuotaWindows, entries[w] = "good"
    PROVE  LET decision == Bundle(ImportedRecords(entries, withConsole, failures), TRUE)
           IN  /\ decision.ready => account.left[w] > Reserved
               /\ decision.pilot => account.left[w] > 0
<1> DEFINE records == ImportedRecords(entries, withConsole, failures)
           percents == {r.percent : r \in Numbers(records)}
           mine == MakeRecord("api", w, "good")
<1>1. AccountTyped
  BY DEF EvidenceInv
<1>2. \A r \in records : r.percent \in Nat \cup {Unreported}
  <2>1. \A r \in failures : r.percent = Unreported
    BY DEF RuntimeFailures, RuntimeFailure
  <2>2. \A r \in ApiRecords(entries) \cup console : r.percent \in Nat \cup {Unreported}
    BY <1>1, RecordTells DEF ApiRecords, EvidenceInv
  <2>3. records \subseteq ApiRecords(entries) \cup console \cup failures
    BY DEF ImportedRecords
  <2> QED BY <2>1, <2>2, <2>3
<1>3. percents \in SUBSET Nat
  BY <1>2 DEF Numbers, Exact
<1>4. account.left[w] \in percents
  <2>1. mine \in records
    BY DEF ApiRecords, ImportedRecords
  <2>2. mine.percent = account.left[w] /\ mine.at = hour /\ mine.source = "api" /\ ~mine.discrepancy
    BY DEF MakeRecord
  <2>3. account.left[w] \in 0..Cap /\ hour \in Nat
    BY <1>1, AccountFacts
  <2> HIDE DEF mine, records
  <2>4. mine \in Numbers(records)
    BY <2>1, <2>2, <2>3, EvidenceAssumption DEF Numbers, Exact, Stale, Unreported
  <2> QED BY <2>2, <2>4
<1>5. /\ Bundle(records, TRUE).ready => LowestPercent(percents) > Reserved
      /\ Bundle(records, TRUE).pilot =>
            0 \notin percents /\ (percents # {} => LowestPercent(percents) > 0)
  <2>1. Bundle(records, TRUE) = PilotDecision(records, TRUE)
    BY DEF Bundle
  <2> HIDE DEF records
  <2>2. ASSUME PilotDecision(records, TRUE).ready PROVE LowestPercent(percents) > Reserved
    BY <2>2 DEF PilotDecision
  <2>3. ASSUME PilotDecision(records, TRUE).pilot
        PROVE  0 \notin percents /\ (percents # {} => LowestPercent(percents) > 0)
    BY <2>3 DEF PilotDecision
  <2> HIDE DEF percents
  <2> QED BY <2>1, <2>2, <2>3
<1> HIDE DEF percents, records
<1>6. LowestPercent(percents) \in Nat /\ LowestPercent(percents) <= account.left[w]
  <2>1. \E n \in percents : \A m \in percents : n <= m
    BY <1>3, <1>4, SmallestNumber
  <2>2. Min(percents) \in percents /\ \A m \in percents : Min(percents) <= m
    BY <2>1 DEF Min
  <2> QED BY <1>3, <1>4, <2>2 DEF LowestPercent
<1>7. account.left[w] \in Nat
  BY <1>3, <1>4
<1>8. LowestPercent(percents) > Reserved => account.left[w] > Reserved
  BY <1>6, <1>7, EvidenceAssumption
<1>9. LowestPercent(percents) > 0 => account.left[w] > 0
  BY <1>6, <1>7
<1> QED BY <1>4, <1>5, <1>8, <1>9 DEF records

\* What the invariant says of the account makes the evidence true.
LEMMA EvidenceInvImplies == EvidenceInv => EvidenceIsTrue
<1> SUFFICES ASSUME EvidenceInv PROVE EvidenceIsTrue
  OBVIOUS
<1>1. RemainingBounds.lower # Unreported =>
          account.left[1] \in RemainingBounds.lower..RemainingBounds.upper
  <2> SUFFICES ASSUME RemainingBounds.lower # Unreported
               PROVE  account.left[1] \in RemainingBounds.lower..RemainingBounds.upper
    OBVIOUS
  <2>1. receipts.known /\ RemainingBounds = [lower |-> Floor0(Cap - receipts.max),
                                             upper |-> Floor0(Cap - receipts.min)]
    BY DEF RemainingBounds
  <2>2. /\ account.left[1] \in (Cap - receipts.max)..(Cap - receipts.min)
        /\ account.left[1] \in 0..Cap /\ receipts.min \in Int /\ receipts.max \in Int
    BY <2>1, AccountFacts DEF EvidenceInv, ReceiptsTyped
  <2> QED BY <2>1, <2>2, EvidenceAssumption DEF Floor0
<1>2. ASSUME NEW entries \in Reports, NEW handed \in BOOLEAN, NEW failures \in FailureTexts,
             NEW w \in QuotaWindows, entries[w] = "good"
      PROVE  LET decision == Bundle(ImportedRecords(entries, handed, failures), TRUE)
             IN  /\ decision.ready => account.left[w] > Reserved
                 /\ decision.pilot => account.left[w] > 0
  <2>1. failures \in SUBSET RuntimeFailures
    BY DEF FailureTexts
  <2> QED BY <1>2, <2>1, BundlesAreTrue
<1> QED BY <1>1, <1>2 DEF EvidenceInv, EvidenceIsTrue

\* EvidenceIsTrue for any windows, balances, reserves, times to live and
\* attempts: no bundle, no bounds and no difference contradict the account.
THEOREM NoEvidenceContradictsTheAccount == EvidenceSpec => []EvidenceIsTrue
<1>1. EvidenceInit => EvidenceInv
  <2> SUFFICES ASSUME EvidenceInit PROVE EvidenceInv
    OBVIOUS
  <2>1. /\ hour = 0 /\ console = {} /\ evidence = {} /\ receipts = NoReceipts
        /\ account = [left |-> [w \in QuotaWindows |-> Cap], ends |-> WindowLength, spent |-> 0]
        /\ samples = [a \in Attempts |-> NoSample]
    BY DEF EvidenceInit
  <2>2. AccountTyped /\ account.left[1] = Cap
    BY <2>1, EvidenceAssumption DEF AccountTyped
  <2>3. NoSample \in Samples /\ NoSample.reset = Unreported
    BY DEF NoSample, Samples, Unreported
  <2>4. samples \in [Attempts -> Samples] /\ \A a \in Attempts : SampleHolds(samples[a])
    BY <2>1, <2>3 DEF SampleHolds
  <2>5. ReceiptsTyped /\ account.left[1] \in (Cap - receipts.max)..(Cap - receipts.min)
    BY <2>1, <2>2, EvidenceAssumption DEF ReceiptsTyped, NoReceipts
  <2> QED BY <2>1, <2>2, <2>4, <2>5 DEF EvidenceInv
<1>2. ASSUME EvidenceInv, [EvidenceNext]_evidenceVars PROVE EvidenceInv'
  <2>1. CASE UNCHANGED evidenceVars
    BY <1>2, <2>1 DEF evidenceVars, EvidenceInv, AccountTyped, ReceiptsTyped, SampleHolds
  <2> QED BY <1>2, <2>1, SpendKeeps, ConsoleKeeps, StartKeeps, RecordKeeps, HourKeeps DEF EvidenceNext
<1> QED BY <1>1, <1>2, EvidenceInvImplies, PTL DEF EvidenceSpec

-----------------------------------------------------------------------------
(* ReservationBook *)

Targets == UNION {DOMAIN offer : offer \in Offers}
BookRows == [key : Keys, workload : Workloads, target : Targets, fence : Nat,
             state : {"active", "completed", "cancelled"}, reserved : [Shares -> Nat],
             actual : [Shares -> Nat], overage : BOOLEAN]

\* The rows are numbered by revisions, and each is the one of its key.
BookInv ==
    /\ bookRevision \in Nat
    /\ DOMAIN rows \subseteq 1..bookRevision
    /\ rows \in [DOMAIN rows -> BookRows]
    /\ keyed \in [Keys -> Nat]
    /\ \A n \in DOMAIN rows : keyed[rows[n].key] = n

\* What a row is charged is a number, and covers what it reserved.
LEMMA ChargeIs ==
    ASSUME NEW row \in BookRows, NEW d \in Shares
    PROVE  Charge(row, d) \in Nat /\ Charge(row, d) = Max({row.reserved[d], row.actual[d]})
<1>1. row.reserved[d] \in Nat /\ row.actual[d] \in Nat
  BY DEF BookRows
<1>2. \A x, y \in Nat : Max({x, y}) \in Nat
  BY DEF Max
<1> QED BY <1>1, <1>2 DEF Charge

\* What workloads ask and offers have are numbers.
LEMMA AmountsAre ==
    ASSUME NEW w \in Workloads, NEW d \in Shares
    PROVE  /\ Needed(w, d) \in Nat
           /\ d \in Asked(w) => /\ Needed(w, d) > 0
                                /\ d \in {"cpu", "inodes"} => Needed(w, d) = w.amount[d]
<1>1. \A x, y \in Nat : x * y \in Nat
  OBVIOUS
<1>2. \A x \in Nat : x \div 100 \in Nat
  OBVIOUS
<1>3. CASE d = "lanes"
  <2>1. Needed(w, d) = 1 /\ d \notin {"cpu", "inodes"}
    BY <1>3 DEF Needed, Shares
  <2> QED BY <2>1
<1>4. CASE d # "lanes" /\ w.amount[d] = Unknown
  <2>1. Needed(w, d) = 0 /\ d \notin Asked(w)
    BY <1>4 DEF Needed, Asked, Shares
  <2> QED BY <2>1
<1>5. CASE d # "lanes" /\ w.amount[d] # Unknown
  <2>1. w.amount[d] \in Nat /\ w.amount[d] > 0 /\ w.headroom \in Nat
    BY <1>5, BookAssumption
  <2>2. (w.amount[d] * w.headroom) \div 100 \in Nat
    BY <1>1, <1>2, <2>1
  <2>3. Needed(w, d) = w.amount[d] + (IF d \in {"ram", "disk", "gpu"}
                                      THEN (w.amount[d] * w.headroom) \div 100 ELSE 0)
    BY <1>5 DEF Needed
  <2> DEFINE extra == (w.amount[d] * w.headroom) \div 100
  <2> HIDE DEF extra
  <2>4. extra \in Nat /\ Needed(w, d) = w.amount[d]
                      + (IF d \in {"ram", "disk", "gpu"} THEN extra ELSE 0)
    BY <2>2, <2>3 DEF extra
  <2> QED BY <2>1, <2>4
<1> QED BY <1>3, <1>4, <1>5

\* The active rows of a target are finitely many.
LEMMA ActiveRows ==
    ASSUME BookInv, NEW t
    PROVE  /\ IsFiniteSet(ActiveOn(t)) /\ ActiveOn(t) \subseteq DOMAIN rows
           /\ \A d \in Shares : \A n \in ActiveOn(t) : Charge(rows[n], d) \in Nat
           /\ \A d \in Shares : Usage(t)[d] \in Nat
<1>1. IsFiniteSet(ActiveOn(t)) /\ ActiveOn(t) \subseteq DOMAIN rows
  <2>1. IsFiniteSet(1..bookRevision)
    BY FS_Interval DEF BookInv
  <2>2. ActiveOn(t) \subseteq 1..bookRevision /\ ActiveOn(t) \subseteq DOMAIN rows
    BY DEF ActiveOn, BookInv
  <2> QED BY <2>1, <2>2, FS_Subset
<1>2. \A d \in Shares : \A n \in ActiveOn(t) : Charge(rows[n], d) \in Nat
  BY <1>1, ChargeIs DEF BookInv
<1>3. ASSUME NEW d \in Shares PROVE Usage(t)[d] \in Nat
  <2> DEFINE charges == [n \in ActiveOn(t) |-> Charge(rows[n], d)]
  <2>1. Usage(t)[d] = SumFunction(charges)
    BY DEF Usage
  <2>2. DOMAIN charges = ActiveOn(t) /\ \A n \in ActiveOn(t) : charges[n] \in Nat
    BY <1>2
  <2> HIDE DEF charges
  <2>3. SumFunction(charges) = SumOver(charges, ActiveOn(t))
    BY <2>2 DEF SumFunction, SumFunctionOnSet, FoldFunctionOnSet, SumOver, MapThenSumSet
  <2> QED BY <1>1, <2>1, <2>2, <2>3, SumNat
<1> QED BY <1>1, <1>2, <1>3

\* One mount covers a path.
LEMMA OneMount ==
    ASSUME NEW offer \in Offers, NEW t \in DOMAIN offer,
           NEW m \in MountsOf(offer[t]), NEW other \in MountsOf(offer[t])
    PROVE  m = other
<1> DEFINE c == offer[t]
<1>1. /\ c.path \in Seq(STRING)
      /\ \A x \in c.mounts : x.path \in Seq(STRING)
                             /\ \A y \in c.mounts : y.path = x.path => y = x
  BY BookAssumption
<1> HIDE DEF c
<1>2. m \in MountsOf(c) /\ other \in MountsOf(c)
  BY DEF c
<1>3. m \in c.mounts /\ other \in c.mounts
  BY <1>2 DEF MountsOf
<1>4. CASE m.path = c.path \/ other.path = c.path
  BY <1>1, <1>2, <1>3, <1>4 DEF MountsOf
<1>5. CASE ~(m.path = c.path \/ other.path = c.path)
  <2>1. IsPrefix(m.path, c.path) /\ IsPrefix(other.path, c.path)
        /\ Len(m.path) <= Len(other.path) /\ Len(other.path) <= Len(m.path)
    BY <1>2, <1>5 DEF MountsOf
  <2> DEFINE p == m.path
             q == other.path
  <2>2. p \in Seq(STRING) /\ q \in Seq(STRING) /\ Len(p) = Len(q)
    BY <1>1, <1>3, <2>1
  <2> HIDE DEF p, q
  <2>3. SubSeq(p, 1, Len(p)) = SubSeq(q, 1, Len(q))
    BY <2>1, <2>2 DEF IsPrefix, p, q
  <2>4. \A i \in 1..Len(p) : SubSeq(p, 1, Len(p))[i] = p[i] /\ SubSeq(q, 1, Len(q))[i] = q[i]
    BY <2>2
  <2>5. p = q
    BY <2>2, <2>3, <2>4
  <2> QED BY <1>1, <1>3, <2>5 DEF p, q
<1> QED BY <1>4, <1>5

\* What is eligible has room for what is asked, on top of what is used.
LEMMA EligibleFits ==
    ASSUME NEW offer \in Offers, NEW t \in DOMAIN offer, NEW w \in Workloads,
           NEW used \in [Shares -> Nat], Eligible(offer[t], w, used), NEW d \in Asked(w)
    PROVE  used[d] + Needed(w, d) <= Capacity(offer[t], d) /\ Capacity(offer[t], d) \in Int
<1> DEFINE c == offer[t]
           amount == Needed(w, d)
<1>1. /\ d \in Shares /\ amount \in Nat /\ amount > 0
      /\ d \in {"cpu", "inodes"} => amount = w.amount[d]
      /\ d # "lanes" => w.amount[d] # Unknown
      /\ used[d] \in Nat
  BY AmountsAre DEF Asked
<1>2. /\ {c.maxLanes, c.activeLanes, c.threads, c.ram, c.cgroupFree} \subseteq Int
      /\ c.ramReserved \in Nat /\ IsFiniteSet(c.gpus)
      /\ \A g \in c.gpus : g.free \in Int /\ g.reserved \in Int
      /\ \A m \in c.mounts : {m.bytes, m.quotaFree, m.inodes, m.reserved} \subseteq Int
  BY BookAssumption
<1>3. CASE d = "lanes"
  BY <1>1, <1>2, <1>3 DEF Eligible, Capacity, Needed
<1>4. CASE d = "cpu"
  BY <1>1, <1>2, <1>4 DEF Eligible, CpuFits, Capacity
<1>5. CASE d = "ram"
  <2> DEFINE free == MemoryFree(c)
             space == Capacity(c, "ram")
  <2>1. Max({0, free - used["ram"]}) >= amount
    BY <1>5 DEF Eligible, MemoryFits
  <2>2. \A x, y \in Int : /\ Max({x, y}) = IF x >= y THEN x ELSE y
                          /\ Min({x, y}) = IF x <= y THEN x ELSE y
    BY DEF Max, Min
  <2>3. \A x \in Int : Min({x} \cup {}) = x
    BY DEF Min
  <2>4. free \in Int /\ space \in Int /\ (free > 0 => free <= space)
    <3>1. CASE c.cgroup = "known"
      <4>1. free = Min({c.ram} \cup {Max({0, c.cgroupFree})}) - c.ramReserved
        BY <3>1 DEF MemoryFree
      <4>2. {c.ram} \cup {Max({0, c.cgroupFree})} = {c.ram, Max({0, c.cgroupFree})}
        OBVIOUS
      <4>3. space = Min({c.ram, c.cgroupFree}) - c.ramReserved
        BY <3>1 DEF Capacity
      <4>4. c.ram \in Int /\ c.cgroupFree \in Int /\ c.ramReserved \in Nat
        BY <1>2
      <4> DEFINE group == Max({0, c.cgroupFree})
      <4>5. group = (IF 0 >= c.cgroupFree THEN 0 ELSE c.cgroupFree) /\ group \in Int
        BY <2>2, <4>4
      <4>8. free = Min({c.ram, group}) - c.ramReserved
        BY <4>1, <4>2
      <4> HIDE DEF group, free, space
      <4>6. free = (IF c.ram <= group THEN c.ram ELSE group) - c.ramReserved
        BY <2>2, <4>4, <4>5, <4>8
      <4>7. space = (IF c.ram <= c.cgroupFree THEN c.ram ELSE c.cgroupFree) - c.ramReserved
        BY <2>2, <4>3, <4>4
      <4> QED BY <4>4, <4>5, <4>6, <4>7
    <3>2. CASE c.cgroup # "known"
      <4>1. free = Min({c.ram} \cup {}) - c.ramReserved /\ space = c.ram - c.ramReserved
        BY <3>2 DEF MemoryFree, Capacity
      <4>2. c.ram \in Int /\ c.ramReserved \in Nat
        BY <1>2
      <4> HIDE DEF free, space
      <4> QED BY <2>3, <4>1, <4>2
    <3> QED BY <3>1, <3>2
  <2> HIDE DEF free, space, amount
  <2>5. used["ram"] \in Nat /\ amount \in Nat /\ amount > 0
    BY <1>1, <1>5
  <2>6. free - used["ram"] >= amount
    BY <2>1, <2>2, <2>4, <2>5
  <2>7. used["ram"] + amount <= space
    BY <2>4, <2>5, <2>6
  <2> QED BY <1>5, <2>4, <2>7 DEF space, amount
<1>6. CASE d \in {"disk", "inodes"}
  <2>1. PICK m \in MountsOf(c) : MountFits(m, w, used)
    BY DEF Eligible
  <2>2. (CHOOSE x \in MountsOf(c) : TRUE) = m
    BY <2>1, OneMount
  <2>3. m \in c.mounts
    BY <2>1 DEF MountsOf
  <2>4. m.bytes \in Int /\ m.quotaFree \in Int /\ m.inodes \in Int /\ m.reserved \in Int
    BY <1>2, <2>3
  <2>5. CASE d = "disk"
    <3>1. FreeBytes(m) \in Int
      <4>1. \A x, y \in Int : Min({x, y}) \in Int
        BY DEF Min
      <4> QED BY <2>4, <4>1 DEF FreeBytes
    <3>2. Capacity(c, "disk") = FreeBytes(m) - m.reserved
      BY <2>2 DEF Capacity
    <3>3. FreeBytes(m) - m.reserved - amount - used["disk"] >= 0
      BY <2>1, <2>5 DEF MountFits
    <3> HIDE DEF amount, c
    <3> QED BY <1>1, <2>4, <2>5, <3>1, <3>2, <3>3 DEF amount, c
  <2>6. CASE d = "inodes"
    <3>1. Capacity(c, "inodes") = m.inodes
      BY <2>2 DEF Capacity
    <3>2. m.inodes - used["inodes"] >= w.amount["inodes"]
      BY <1>1, <2>1, <2>6 DEF MountFits
    <3> QED BY <1>1, <2>4, <2>6, <3>1, <3>2
  <2> QED BY <1>6, <2>5, <2>6
<1>7. CASE d = "gpu"
  <2> DEFINE left == {g.free - g.reserved : g \in Devices(c)}
             best == Max(left)
  <2>1. Devices(c) # {} /\ Max({0, best - used["gpu"]}) >= amount
    BY <1>1, <1>7 DEF Eligible, GpuFits
  <2>2. IsFiniteSet(left) /\ left # {} /\ \A x \in left : x \in Int
    <3>1. Devices(c) \subseteq c.gpus
      BY DEF Devices
    <3>2. IsFiniteSet(Devices(c))
      BY <1>2, <3>1, FS_Subset
    <3>3. IsFiniteSet(left)
      <4> DEFINE gap == [g \in Devices(c) |-> g.free - g.reserved]
      <4>1. left = {gap[g] : g \in Devices(c)}
        OBVIOUS
      <4>2. gap \in Surjection(Devices(c), left)
        BY <4>1 DEF Surjection
      <4> HIDE DEF gap, left
      <4> QED BY <3>2, <4>2, FS_Surjection
    <3> QED BY <1>2, <2>1, <3>1, <3>3
  <2>3. best \in Int
    <3> HIDE DEF left
    <3> QED BY <2>2, GreatestOf
  <2>4. Capacity(c, "gpu") = best
    BY DEF Capacity
  <2> HIDE DEF best, amount
  <2>5. \A x, y \in Int : Max({x, y}) = IF x >= y THEN x ELSE y
    BY DEF Max
  <2>6. used["gpu"] \in Nat /\ amount \in Nat /\ amount > 0
    BY <1>1, <1>7 DEF amount
  <2>7. used["gpu"] + amount <= best
    BY <2>1, <2>3, <2>5, <2>6
  <2> QED BY <1>7, <2>3, <2>4, <2>7 DEF amount
<1> QED BY <1>1, <1>3, <1>4, <1>5, <1>6, <1>7 DEF Shares

\* A reservation adds one row that fits on top of the others.
LEMMA ReserveFits ==
    ASSUME BookInv, NEW key \in Keys, NEW w \in Workloads, NEW offer \in Offers, NEW expected,
           ReserveBest(key, w, offer, expected)
    PROVE  /\ BookInv'
           /\ \A n \in DOMAIN rows : rows'[n] = rows[n] /\ keyed'[rows[n].key] = n
           /\ \A n \in DOMAIN rows' \ DOMAIN rows :
                 LET row == rows'[n]
                     there == {k \in DOMAIN rows' : rows'[k].state = "active"
                                                    /\ rows'[k].target = row.target}
                 IN  \A d \in Asked(row.workload) :
                        SumFunction([k \in there |-> Max({rows'[k].reserved[d], rows'[k].actual[d]})])
                            <= Capacity(offered'[row.target], d)
<1> DEFINE number == bookRevision + 1
<1>1. PICK t \in Placeable(offer, w) :
          /\ rows' = [n \in DOMAIN rows \cup {number} |->
                        IF n = number
                        THEN [key |-> key, workload |-> w, target |-> t, fence |-> number,
                              state |-> "active", reserved |-> Needs(w), actual |-> NoUse,
                              overage |-> FALSE]
                        ELSE rows[n]]
          /\ keyed' = [keyed EXCEPT ![key] = number]
          /\ bookRevision' = number
          /\ offered' = offer
  BY DEF ReserveBest
<1>2. keyed[key] = 0 /\ bookRevision \in Nat /\ number \in Nat /\ number \notin DOMAIN rows
  BY DEF ReserveBest, BookInv
<1> DEFINE row == [key |-> key, workload |-> w, target |-> t, fence |-> number,
                   state |-> "active", reserved |-> Needs(w), actual |-> NoUse,
                   overage |-> FALSE]
<1>3. /\ t \in DOMAIN offer /\ Eligible(offer[t], w, Usage(t))
      /\ DOMAIN rows' = DOMAIN rows \cup {number} /\ rows'[number] = row
      /\ \A n \in DOMAIN rows : rows'[n] = rows[n]
  BY <1>1, <1>2 DEF Placeable
<1>4. row \in BookRows
  <2>1. t \in Targets
    BY <1>3 DEF Targets
  <2>2. Needs(w) \in [Shares -> Nat]
    BY AmountsAre DEF Needs
  <2>3. NoUse \in [Shares -> Nat]
    BY DEF NoUse
  <2> HIDE DEF number
  <2> QED BY <1>2, <2>1, <2>2, <2>3 DEF BookRows
<1>5. /\ row.key = key /\ row.workload = w /\ row.target = t /\ row.state = "active"
      /\ row.reserved = Needs(w) /\ row.actual = NoUse
  OBVIOUS
<1> HIDE DEF row
<1>6. BookInv'
  <2>1. rows' \in [DOMAIN rows' -> BookRows]
    BY <1>1, <1>3, <1>4 DEF BookInv
  <2>2. DOMAIN rows' \subseteq 1..bookRevision' /\ bookRevision' \in Nat
    BY <1>1, <1>2, <1>3 DEF BookInv
  <2>3. keyed' \in [Keys -> Nat]
    BY <1>1, <1>2 DEF BookInv
  <2>4. ASSUME NEW n \in DOMAIN rows' PROVE keyed'[rows'[n].key] = n
    <3>1. CASE n = number
      BY <1>1, <1>3, <1>5, <3>1 DEF BookInv
    <3>2. CASE n # number
      <4>1. n \in DOMAIN rows /\ rows'[n] = rows[n] /\ keyed[rows[n].key] = n /\ n # 0
            /\ rows[n].key \in Keys
        BY <1>3, <3>2 DEF BookInv, BookRows
      <4>2. rows[n].key # key
        BY <1>2, <4>1
      <4> QED BY <1>1, <4>1, <4>2 DEF BookInv
    <3> QED BY <3>1, <3>2
  <2> QED BY <2>1, <2>2, <2>3, <2>4 DEF BookInv
<1>7. \A n \in DOMAIN rows : keyed'[rows[n].key] = n
  BY <1>3, <1>6 DEF BookInv
<1>8. ASSUME NEW d \in Asked(w),
             NEW there, there = {k \in DOMAIN rows' : rows'[k].state = "active"
                                                      /\ rows'[k].target = t}
      PROVE  SumFunction([k \in there |-> Max({rows'[k].reserved[d], rows'[k].actual[d]})])
                <= Capacity(offer[t], d)
  <2> DEFINE after == [k \in there |-> Max({rows'[k].reserved[d], rows'[k].actual[d]})]
             before == [k \in ActiveOn(t) |-> Charge(rows[k], d)]
  <2>1. d \in Shares
    BY DEF Asked
  <2>2. there = ActiveOn(t) \cup {number} /\ number \notin ActiveOn(t)
    BY <1>2, <1>3, <1>5, <1>8 DEF ActiveOn
  <2>3. IsFiniteSet(ActiveOn(t)) /\ ActiveOn(t) \subseteq DOMAIN rows
        /\ \A k \in ActiveOn(t) : Charge(rows[k], d) \in Nat
    BY <2>1, ActiveRows
  <2>4. IsFiniteSet(there)
    BY <2>2, <2>3, FS_AddElement
  <2>5. ASSUME NEW k \in ActiveOn(t) PROVE after[k] = before[k] /\ before[k] \in Nat
    <3>1. rows'[k] = rows[k] /\ rows[k] \in BookRows /\ k \in there
      BY <1>3, <2>2, <2>3 DEF BookInv
    <3> QED BY <2>1, <2>3, <3>1, ChargeIs
  <2>6. after[number] = Needed(w, d) /\ Needed(w, d) \in Nat
    <3>1. Needs(w)[d] = Needed(w, d) /\ NoUse[d] = 0 /\ Needed(w, d) \in Nat
      BY <2>1, AmountsAre DEF Needs, NoUse
    <3>2. \A x \in Nat : Max({x, 0}) = x
      BY DEF Max
    <3>3. after[number] = Max({Needs(w)[d], NoUse[d]})
      BY <1>3, <1>5, <2>2
    <3> QED BY <3>1, <3>2, <3>3
  <2>7. DOMAIN after = there /\ DOMAIN before = ActiveOn(t)
    OBVIOUS
  <2>8. Usage(t)[d] = SumFunction(before)
    BY <2>1 DEF Usage
  <2> HIDE DEF after, before
  <2>9. SumFunction(after) = SumOver(after, there) /\ SumFunction(before) = SumOver(before, ActiveOn(t))
    BY <2>7 DEF SumFunction, SumFunctionOnSet, FoldFunctionOnSet, SumOver, MapThenSumSet
  <2>10. SumOver(after, ActiveOn(t)) = SumOver(before, ActiveOn(t))
    <3>1. \A x \in ActiveOn(t) : before[x] \in Int /\ after[x] = before[x]
      BY <2>5
    <3> QED BY <2>3, <3>1, SumsAgree
  <2>11. SumOver(after, there) = after[number] + SumOver(after, there \ {number})
    <3>1. \A x \in there : after[x] \in Int
      BY <2>2, <2>5, <2>6
    <3>2. number \in there
      BY <2>2
    <3> QED BY <2>4, <3>1, <3>2, SumOfRest
  <2>12. there \ {number} = ActiveOn(t)
    BY <2>2
  <2>13. Usage(t) \in [Shares -> Nat]
    BY ActiveRows DEF Usage
  <2>14. Usage(t)[d] + Needed(w, d) <= Capacity(offer[t], d) /\ Capacity(offer[t], d) \in Int
    BY <1>3, <2>13, EligibleFits
  <2>15. Usage(t)[d] \in Nat
    BY <2>1, <2>13
  <2>16. SumFunction(after) = Needed(w, d) + Usage(t)[d]
    BY <2>6, <2>8, <2>9, <2>10, <2>11, <2>12
  <2>17. SumFunction(after) <= Capacity(offer[t], d)
    <3> DEFINE need == Needed(w, d)
               use == Usage(t)[d]
               space == Capacity(offer[t], d)
    <3>1. need \in Nat /\ use \in Nat /\ space \in Int /\ use + need <= space
      BY <2>6, <2>14, <2>15
    <3>2. SumFunction(after) = need + use
      BY <2>16
    <3> HIDE DEF need, use, space
    <3>3. SumFunction(after) <= space
      BY <3>1, <3>2
    <3> QED BY <3>3 DEF space
  <2> QED BY <2>17 DEF after
<1>9. \A n \in DOMAIN rows' \ DOMAIN rows :
         rows'[n].target = t /\ rows'[n].workload = w
  BY <1>3, <1>5
<1>10. \A n \in DOMAIN rows : rows'[n] = rows[n] /\ keyed'[rows[n].key] = n
  BY <1>3, <1>7
<1>11. ASSUME NEW n \in DOMAIN rows' \ DOMAIN rows, NEW d \in Asked(rows'[n].workload),
              NEW there, there = {k \in DOMAIN rows' : rows'[k].state = "active"
                                                       /\ rows'[k].target = rows'[n].target}
       PROVE  SumFunction([k \in there |-> Max({rows'[k].reserved[d], rows'[k].actual[d]})])
                <= Capacity(offered'[rows'[n].target], d)
  <2>1. rows'[n].target = t /\ rows'[n].workload = w /\ offered' = offer
    BY <1>1, <1>9
  <2>2. d \in Asked(w) /\ there = {k \in DOMAIN rows' : rows'[k].state = "active"
                                                         /\ rows'[k].target = t}
    BY <1>11, <2>1
  <2> QED BY <1>8, <2>1, <2>2
<1> QED BY <1>6, <1>10, <1>11

\* A report is about an active row and changes nothing else.
LEMMA ReconcileKeeps ==
    ASSUME BookInv, NEW n \in DOMAIN rows, NEW fence, NEW actual \in [Shares -> Nat],
           NEW ending \in {"none", "completed", "cancelled"}, Reconcile(n, fence, actual, ending)
    PROVE  /\ BookInv' /\ DOMAIN rows' = DOMAIN rows
           /\ \A k \in DOMAIN rows :
                /\ rows[k].state # "active" => rows'[k] = rows[k]
                /\ keyed'[rows[k].key] = k
                /\ rows'[k].reserved = rows[k].reserved /\ rows'[k].target = rows[k].target
<1> DEFINE updated == [rows[n] EXCEPT
              !.actual = actual,
              !.overage = \E d \in Shares : actual[d] > rows[n].reserved[d],
              !.state = IF ending = "none" THEN "active" ELSE ending]
<1>1. /\ rows[n].state = "active" /\ rows' = [rows EXCEPT ![n] = updated]
      /\ bookRevision' = bookRevision + 1 /\ keyed' = keyed
  BY DEF Reconcile
<1>2. rows[n] \in BookRows
  BY DEF BookInv
<1>3. /\ updated.key = rows[n].key /\ updated.reserved = rows[n].reserved
      /\ updated.target = rows[n].target
  BY <1>2 DEF BookRows
<1>4. updated \in BookRows
  <2> DEFINE over == \E d \in Shares : actual[d] > rows[n].reserved[d]
             state == IF ending = "none" THEN "active" ELSE ending
  <2>1. over \in BOOLEAN /\ state \in {"active", "completed", "cancelled"}
    OBVIOUS
  <2>2. updated = [rows[n] EXCEPT !.actual = actual, !.overage = over, !.state = state]
    OBVIOUS
  <2> HIDE DEF over, state, updated
  <2>3. \A o \in BOOLEAN, s \in {"active", "completed", "cancelled"} :
           [rows[n] EXCEPT !.actual = actual, !.overage = o, !.state = s] \in BookRows
    BY <1>2 DEF BookRows
  <2> QED BY <2>1, <2>2, <2>3
<1> HIDE DEF updated
<1>5. DOMAIN rows' = DOMAIN rows /\ rows' \in [DOMAIN rows -> BookRows]
      /\ \A k \in DOMAIN rows : rows'[k] = IF k = n THEN updated ELSE rows[k]
  BY <1>1, <1>4 DEF BookInv
<1>6. \A k \in DOMAIN rows : rows'[k].key = rows[k].key
  BY <1>3, <1>5
<1>7. BookInv'
  BY <1>1, <1>5, <1>6 DEF BookInv
<1> QED BY <1>1, <1>3, <1>5, <1>7 DEF BookInv

\* PromisesFit for any keys, workloads, offers and reports: a reservation fits on
\* top of all that is promised or used on its target, and reports of use reach
\* only the row they are about.
THEOREM PromisesAlwaysFit == BookSpec => PromisesFit
<1> DEFINE Kept == \A n \in DOMAIN rows :
             /\ rows[n].state # "active" => rows'[n] = rows[n]
             /\ keyed'[rows[n].key] = n
             /\ rows'[n].reserved = rows[n].reserved /\ rows'[n].target = rows[n].target
           Holds == \A n \in DOMAIN rows' \ DOMAIN rows :
             LET row == rows'[n]
                 there == {k \in DOMAIN rows' : rows'[k].state = "active"
                                                /\ rows'[k].target = row.target}
             IN  \A d \in Asked(row.workload) :
                    SumFunction([k \in there |-> Max({rows'[k].reserved[d], rows'[k].actual[d]})])
                        <= Capacity(offered'[row.target], d)
<1>1. BookInit => BookInv
  BY DEF BookInit, BookInv
<1>2. ASSUME BookInv, BookNext PROVE BookInv' /\ Kept /\ Holds
  <2>1. ASSUME NEW key \in Keys, NEW w \in Workloads, NEW offer \in Offers, NEW expected,
               ReserveBest(key, w, offer, expected)
        PROVE  BookInv' /\ Kept /\ Holds
    BY <1>2, <2>1, ReserveFits
  <2>2. ASSUME NEW n \in DOMAIN rows, NEW fence, NEW actual \in [Shares -> Nat],
               NEW ending \in {"none", "completed", "cancelled"}, Reconcile(n, fence, actual, ending)
        PROVE  BookInv' /\ Kept /\ Holds
    <3>1. /\ BookInv' /\ DOMAIN rows' = DOMAIN rows /\ Kept
      BY <1>2, <2>2, ReconcileKeeps
    <3>2. Holds
      BY <3>1
    <3> QED BY <3>1, <3>2
  <2>3. NoUse \in [Shares -> Nat] /\ Actuals \subseteq [Shares -> Nat]
    BY BookAssumption DEF NoUse
  <2> HIDE DEF Kept, Holds
  <2> QED BY <1>2, <2>1, <2>2, <2>3 DEF BookNext, Cancel
<1>3. ASSUME BookInv, UNCHANGED bookVars PROVE BookInv' /\ Kept /\ Holds
  BY <1>3 DEF bookVars, BookInv
<1>4. BookInv /\ [BookNext]_bookVars => BookInv' /\ (BookNext \/ UNCHANGED bookVars => Kept /\ Holds)
  <2> HIDE DEF Kept, Holds
  <2> QED BY <1>2, <1>3
<1>5. BookInv /\ [BookNext]_bookVars => Holds /\ Kept
  <2> HIDE DEF Kept, Holds
  <2> QED BY <1>2, <1>3
<1>6. BookInv /\ [BookNext]_bookVars => BookInv'
  BY <1>4
<1> QED BY <1>1, <1>5, <1>6, PTL DEF BookSpec, PromisesFit

-----------------------------------------------------------------------------
(* QuotaWake *)

Longest == Max({PollWait, IdleBackoff})
Moment == Max({hint.target, reading.at, upSince})
Waiters == [pc : {"down", "loop", "asleep", "busy"}, wake : Int, watching : BOOLEAN, look : Int]

\* No wait of the worker reaches beyond the bound, and none that may miss a
\* hint reaches beyond the bound after the hint's moment.
WakeInv ==
    /\ now \in Nat /\ reading.at \in Int /\ upSince \in Int
    /\ reading.at <= now /\ upSince <= now
    /\ hint.target \in Int
    /\ waiter \in Waiters
    /\ waiter.pc = "asleep" => now <= waiter.wake /\ waiter.wake <= now + Longest
    /\ waiter.pc = "busy" => waiter.watching /\ now <= waiter.look /\ waiter.look <= now + Longest
    /\ waiter.watching => waiter.pc = "busy"
    /\ \A e \in dueEvents : e.target \in Int /\ e.target <= now
    /\ waiter.pc # "down" /\ hint # NoHint /\ HintDigest \notin dueEvents =>
          /\ now <= Moment + Longest
          /\ waiter.pc = "asleep" => waiter.wake <= Moment + Longest
          /\ waiter.pc = "busy" => waiter.look <= Moment + Longest

\* What a wait may last: the longest of the poll and the idle backoff.
LEMMA WaitsAreBounded ==
    ASSUME WakeInv
    PROVE  /\ Longest \in Nat
           /\ \A retryIn \in Nat : IdleWait(retryIn) \in Nat /\ IdleWait(retryIn) <= Longest
           /\ WatcherWait \in Nat /\ WatcherWait <= Longest
<1>1. /\ PollWait \in Nat /\ IdleBackoff \in Nat /\ MaxWait \in Nat
      /\ PollWait \in Int /\ IdleBackoff \in Int /\ MaxWait \in Int
  BY WakeAssumption
<1>2. Longest = (IF PollWait >= IdleBackoff THEN PollWait ELSE IdleBackoff) /\ Longest \in Nat
  BY <1>1, MinMaxOfTwo DEF Longest
<1>3. SleepOf \in Int
  <2> DEFINE gap == hint.target - now
  <2>1. gap \in Int
    BY DEF WakeInv
  <2>2. SleepOf = IF Due THEN 0 ELSE Min({gap, MaxWait})
    BY DEF SleepOf
  <2> HIDE DEF gap
  <2>3. Min({gap, MaxWait}) = IF gap <= MaxWait THEN gap ELSE MaxWait
    BY <1>1, <2>1, MinMaxOfTwo
  <2> QED BY <1>1, <2>1, <2>2, <2>3
<1>4. ASSUME NEW retryIn \in Nat PROVE IdleWait(retryIn) \in Nat /\ IdleWait(retryIn) <= Longest
  <2> DEFINE a == Min({SleepOf, IdleBackoff})
             b == Min({retryIn, IdleBackoff})
  <2>1. a \in Int /\ b \in Int /\ a <= IdleBackoff /\ b <= IdleBackoff
    <3>1. retryIn \in Int
      OBVIOUS
    <3>2. a = IF SleepOf <= IdleBackoff THEN SleepOf ELSE IdleBackoff
      BY <1>1, <1>3, MinMaxOfTwo
    <3>3. b = IF retryIn <= IdleBackoff THEN retryIn ELSE IdleBackoff
      BY <1>1, <3>1, MinMaxOfTwo
    <3> HIDE DEF a, b
    <3> QED BY <1>1, <1>3, <3>1, <3>2, <3>3
  <2>2. IdleWait(retryIn) = Max({PollWait, a, b})
    BY DEF IdleWait
  <2> HIDE DEF a, b
  <2> DEFINE w == Max({PollWait, a, b})
  <2>3. w \in {PollWait, a, b} /\ w \in Int /\ PollWait <= w
    BY <1>1, <2>1, GreatestOfThree
  <2> HIDE DEF w
  <2>4. w \in Nat /\ w <= Longest
    BY <1>1, <1>2, <2>1, <2>3
  <2> QED BY <2>2, <2>4 DEF w
<1>5. WatcherWait \in Nat /\ WatcherWait <= Longest
  <2> DEFINE sleep == IF SleepOf > 0 THEN SleepOf ELSE PollWait
  <2>1. sleep \in Nat /\ WatcherWait = Min({sleep, IdleBackoff})
    BY <1>1, <1>3 DEF WatcherWait
  <2> HIDE DEF sleep
  <2>2. WatcherWait = IF sleep <= IdleBackoff THEN sleep ELSE IdleBackoff
    BY <1>1, <2>1, MinMaxOfTwo
  <2> QED BY <1>1, <1>2, <2>1, <2>2
<1> QED BY <1>2, <1>4, <1>5

\* The worker looks at the hint: what is due is recorded then.
LEMMA LookHears ==
    ASSUME WakeInv, ObserveHint, UNCHANGED upSince
    PROVE  /\ now' = now /\ hint' = hint /\ reading' = reading
           /\ Moment' = Moment /\ Moment \in Int /\ HintDigest' = HintDigest
           /\ \A e \in dueEvents' : e.target \in Int /\ e.target <= now
           /\ HintDigest \notin dueEvents' => HintDigest \notin dueEvents /\ now < Moment
<1>1. /\ now' = now /\ hint' = hint /\ reading' = reading /\ upSince' = upSince
      /\ dueEvents' = dueEvents \cup Heard
  BY DEF ObserveHint
<1>2. Moment' = Moment /\ HintDigest' = HintDigest
  BY <1>1 DEF Moment, HintDigest
<1>3. Moment \in Int /\ hint.target <= Moment
  BY GreatestOfThree DEF WakeInv, Moment
<1>4. HintDigest.target = hint.target
  BY DEF HintDigest
<1>5. \A e \in dueEvents' : e.target \in Int /\ e.target <= now
  BY <1>1, <1>4 DEF Heard, Due, WakeInv
<1>6. ASSUME HintDigest \notin dueEvents' PROVE HintDigest \notin dueEvents /\ now < Moment
  <2>1. ~Due /\ HintDigest \notin dueEvents
    BY <1>1, <1>6 DEF Heard
  <2> QED BY <1>3, <2>1 DEF Due, WakeInv
<1> QED BY <1>1, <1>2, <1>3, <1>5, <1>6

\* The last watch and the last start are at the moment of the hint at the latest.
LEMMA MomentIs ==
    ASSUME WakeInv
    PROVE  Moment \in Int /\ hint.target <= Moment /\ reading.at <= Moment /\ upSince <= Moment
BY GreatestOfThree DEF WakeInv, Moment

-----------------------------------------------------------------------------
(* What a watch saves *)

\* The snapshot files that a watch reads are finitely many, and tell in numbers.
LEMMA SnapshotsAre ==
    ASSUME NEW files \in SnapshotFiles
    PROVE  /\ IsFiniteSet(DOMAIN files)
           /\ \A f \in DOMAIN files :
                /\ files[f].pool \in QuotaPools /\ files[f].age \in Nat
                /\ files[f].left \in Nat \cup {Absent} /\ files[f].resets \in SUBSET Nat
<1> DEFINE S == [pool : QuotaPools, age : Nat, left : Nat \cup {Absent},
                 resets : SUBSET Nat, conflict : BOOLEAN, configured : BOOLEAN,
                 cooling : BOOLEAN]
<1>1. files \in Seq(S)
  BY WakeAssumption
<1>2. ASSUME NEW x \in S
      PROVE  /\ x.pool \in QuotaPools /\ x.age \in Nat
             /\ x.left \in Nat \cup {Absent} /\ x.resets \in SUBSET Nat
  OBVIOUS
<1> HIDE DEF S
<1>3. DOMAIN files = 1..Len(files) /\ Len(files) \in Nat /\ \A f \in DOMAIN files : files[f] \in S
  BY <1>1
<1>4. IsFiniteSet(1..Len(files))
  BY <1>3, FS_Interval
<1> QED BY <1>2, <1>3, <1>4

\* The newest observation of a pool is one of its youngest files.
LEMMA NewestIs ==
    ASSUME NEW files \in SnapshotFiles, NEW p, About(files, p) # {}
    PROVE  \E f \in About(files, p) :
              /\ Newest(files, p) = files[f]
              /\ \A g \in About(files, p) : files[f].age <= files[g].age
<1> DEFINE A == About(files, p)
           ages == {files[f].age : f \in A}
           newest == {f \in A : files[f].age = Min(ages)}
<1>1. /\ A \subseteq DOMAIN files /\ A # {} /\ \A f \in A : files[f].age \in Nat
      /\ IsFiniteSet(DOMAIN files)
  BY SnapshotsAre DEF About
<1>2. Newest(files, p) = files[Max(newest)]
  BY DEF Newest
<1>3. Min(ages) \in ages /\ \A t \in ages : Min(ages) <= t
  <2>1. ages \in SUBSET Nat /\ ages # {}
    BY <1>1
  <2> HIDE DEF ages
  <2> QED BY <2>1, LeastOfNumbers
<1>4. newest # {} /\ newest \subseteq A
  BY <1>3
<1>5. IsFiniteSet(newest) /\ \A f \in newest : f \in Int
  <2>1. newest \subseteq DOMAIN files
    BY <1>1
  <2>2. \A f \in DOMAIN files : f \in Int
    BY WakeAssumption
  <2> HIDE DEF newest
  <2> QED BY <1>1, <2>1, <2>2, FS_Subset
<1>6. Max(newest) \in newest
  <2> HIDE DEF newest
  <2> QED BY <1>4, <1>5, GreatestOf
<1>7. \A g \in A : files[Max(newest)].age <= files[g].age
  BY <1>3, <1>6
<1> HIDE DEF newest, ages
<1>8. Max(newest) \in A
  BY <1>4, <1>6
<1> QED BY <1>2, <1>7, <1>8 DEF A

\* The moments a decision may wait for are ends of windows that are exhausted.
LEMMA BlockedResetsAre ==
    ASSUME WakeInv, NEW files \in SnapshotFiles
    PROVE  /\ BlockedResets(files) \in SUBSET Nat
           /\ \A t \in BlockedResets(files) :
                \E f \in DOMAIN files :
                   /\ \A g \in About(files, files[f].pool) : files[f].age <= files[g].age
                   /\ files[f].left = 0 \/ files[f].cooling
                   /\ t \in files[f].resets /\ t > now
<1> SUFFICES ASSUME NEW t \in BlockedResets(files)
             PROVE  /\ t \in Nat
                    /\ \E f \in DOMAIN files :
                          /\ \A g \in About(files, files[f].pool) : files[f].age <= files[g].age
                          /\ files[f].left = 0 \/ files[f].cooling
                          /\ t \in files[f].resets /\ t > now
  OBVIOUS
<1>1. PICK p \in Observed(files) :
         /\ Verdict(Newest(files, p)) = "cooldown_until_reset" /\ t = NextReset(Newest(files, p))
  BY DEF BlockedResets, PoolsThat
<1>2. PICK f \in About(files, p) :
         Newest(files, p) = files[f] /\ \A g \in About(files, p) : files[f].age <= files[g].age
  BY NewestIs DEF Observed
<1>3. f \in DOMAIN files /\ files[f].pool = p
  BY DEF About
<1>4. (files[f].left = 0 \/ files[f].cooling) /\ NextReset(files[f]) # Absent
  BY <1>1, <1>2 DEF Verdict
<1>5. t \in files[f].resets /\ t > now /\ t \in Nat
  <2> DEFINE future == {r \in files[f].resets : r > now}
  <2>1. t = IF future = {} THEN Absent ELSE Min(future)
    BY <1>1, <1>2 DEF NextReset
  <2>2. future # {} /\ t = Min(future)
    BY <1>1, <1>2, <1>4, <2>1
  <2>3. future \in SUBSET Nat
    BY <1>3, SnapshotsAre
  <2>4. t \in future
    <3> HIDE DEF future
    <3> QED BY <2>2, <2>3, LeastOfNumbers
  <2> QED BY <2>3, <2>4
<1> QED BY <1>2, <1>3, <1>4, <1>5

\* A snapshot that is alone about its pool decides for the pool.
LEMMA AloneDecides ==
    ASSUME NEW files \in SnapshotFiles, NEW f \in DOMAIN files,
           About(files, files[f].pool) = {f}
    PROVE  files[f].pool \in Observed(files) /\ Newest(files, files[f].pool) = files[f]
<1>1. About(files, files[f].pool) # {} /\ files[f].pool \in QuotaPools
  BY SnapshotsAre
<1>2. PICK g \in About(files, files[f].pool) : Newest(files, files[f].pool) = files[g]
  BY <1>1, NewestIs
<1> QED BY <1>1, <1>2 DEF Observed

\* A decision wakes for the first reset of every pool whose state is unambiguous.
LEMMA DecisionWakesForReset ==
    ASSUME WakeInv, NEW files \in SnapshotFiles, NEW invalid \in BOOLEAN, SaveDecision(files, invalid)
    PROVE  WakesForReset' /\ hint'.target \in Int
<1> DEFINE open == QuotaPools \ (Observed(files) \ ReadyPools(files))
           target == WakeAt(files, invalid)
           ends(f) == {t \in files[f].resets : t > now}
<1>1. reading'.files = files /\ now' = now /\ hint'.target = target /\ hint'.open = open
  BY DEF SaveDecision
<1>2. now \in Nat /\ WatchPoll \in Nat /\ ReserveLevel \in Nat /\ Lifetime \in Int
  BY WakeAssumption DEF WakeInv
<1>3. BlockedResets(files) # {} =>
         /\ Min(BlockedResets(files)) \in BlockedResets(files)
         /\ \A t \in BlockedResets(files) : Min(BlockedResets(files)) <= t
         /\ Min(BlockedResets(files)) \in Int
  BY BlockedResetsAre, LeastOfNumbers
<1>4. target \in Int
  BY <1>2, <1>3 DEF WakeAt
<1>5. ASSUME NEW p \in QuotaPools, Empty(files, p) PROVE p \notin open
  <2>1. About(files, p) # {} /\ p \in Observed(files)
    BY <1>5 DEF Empty, Observed
  <2>2. PICK f \in About(files, p) :
           Newest(files, p) = files[f] /\ \A g \in About(files, p) : files[f].age <= files[g].age
    BY <2>1, NewestIs
  <2>3. \A g \in About(files, p) : files[g].age \in Nat
    BY SnapshotsAre DEF About
  <2>4. files[f].left = 0
    BY <1>5, <2>2, <2>3 DEF Empty
  <2>5. Verdict(files[f]) \notin {"ready", "bounded_pilot"}
    BY <2>4 DEF Verdict, Absent
  <2> QED BY <2>1, <2>2, <2>5 DEF ReadyPools, PoolsThat
<1>6. ASSUME NEW f \in DOMAIN files, Usable(files[f]), About(files, files[f].pool) = {f}
      PROVE  files[f].pool \in open /\ target <= now + WatchPoll
  <2>1. files[f].pool \in Observed(files) /\ Newest(files, files[f].pool) = files[f]
        /\ files[f].pool \in QuotaPools
    BY <1>6, AloneDecides, SnapshotsAre
  <2>2. files[f].left \in Nat /\ files[f].age \in Nat
    BY <1>6, SnapshotsAre DEF Usable, Believed
  <2>3. Verdict(files[f]) = "ready"
    BY <1>2, <1>6, <2>2 DEF Verdict, Usable, Believed
  <2>4. files[f].pool \in ReadyPools(files)
    BY <2>1, <2>3 DEF ReadyPools, PoolsThat
  <2> QED BY <1>2, <2>1, <2>4 DEF WakeAt
<1>7. ASSUME target > now + WatchPoll
      PROVE  target = Min(BlockedResets(files)) /\ BlockedResets(files) # {}
  BY <1>2, <1>7 DEF WakeAt
<1>8. ASSUME target > now + WatchPoll, NEW f \in DOMAIN files, About(files, files[f].pool) = {f},
             files[f].left = 0 \/ files[f].cooling, Believed(files[f]), NEW t \in ends(f)
      PROVE  target <= t
  <2>1. files[f].pool \in Observed(files) /\ Newest(files, files[f].pool) = files[f]
    BY <1>8, AloneDecides
  <2>2. ends(f) \in SUBSET Nat /\ ends(f) # {}
    BY SnapshotsAre
  <2>3. NextReset(files[f]) = Min(ends(f))
    BY <2>2 DEF NextReset
  <2>4. Min(ends(f)) \in ends(f) /\ \A r \in ends(f) : Min(ends(f)) <= r
    <3> DEFINE T == ends(f)
    <3> HIDE DEF ends
    <3> QED BY <2>2, LeastOfNumbers
  <2>5. files[f].age \in Nat /\ Absent \notin Nat
    BY SnapshotsAre DEF Absent
  <2>6. Verdict(files[f]) = "cooldown_until_reset"
    BY <1>2, <1>8, <2>2, <2>3, <2>4, <2>5 DEF Verdict, Believed
  <2>7. Min(ends(f)) \in BlockedResets(files)
    BY <2>1, <2>3, <2>6 DEF BlockedResets, PoolsThat
  <2> DEFINE first == Min(ends(f))
  <2>8. target <= first /\ first <= t /\ first \in Int /\ t \in Int
    BY <1>3, <1>7, <1>8, <2>2, <2>4, <2>7
  <2> HIDE DEF first, target
  <2> QED BY <1>4, <2>8
<1>9. ASSUME target > now + WatchPoll
      PROVE  \E f \in DOMAIN files :
                /\ \A g \in About(files, files[f].pool) : files[f].age <= files[g].age
                /\ files[f].left = 0 \/ files[f].cooling
                /\ target \in ends(f)
  BY <1>3, <1>7, <1>9, BlockedResetsAre
<1> HIDE DEF open, target
<1>10. WakesForReset'
  BY <1>1, <1>5, <1>6, <1>8, <1>9 DEF WakesForReset, Empty, About, Usable, Believed
<1> QED BY <1>1, <1>4, <1>10

-----------------------------------------------------------------------------
(* The worker's waits *)

\* A worker that comes up again begins in its loop, watching nothing.
LEMMA DownIs ==
    /\ Down \in Waiters /\ Down.pc = "down" /\ Down.watching = FALSE
    /\ LET v == [Down EXCEPT !.pc = "loop"]
       IN  v \in Waiters /\ v.pc = "loop" /\ v.watching = FALSE
<1>1. Down \in Waiters /\ Down.pc = "down" /\ Down.watching = FALSE
  BY DEF Down, Waiters, Absent
<1>2. \A w \in Waiters : /\ [w EXCEPT !.pc = "loop"] \in Waiters
                         /\ [w EXCEPT !.pc = "loop"].pc = "loop"
                         /\ [w EXCEPT !.pc = "loop"].watching = w.watching
  BY DEF Waiters
<1> QED BY <1>1, <1>2

\* A replaced hint is a new moment: every wait ends within the bound after it.
LEMMA DecisionKeeps ==
    ASSUME WakeInv, NEW files \in SnapshotFiles, NEW invalid \in BOOLEAN, SaveDecision(files, invalid)
    PROVE  WakeInv'
<1>1. /\ hint'.target \in Int /\ reading'.at = now /\ now' = now /\ dueEvents' = dueEvents
      /\ waiter' = waiter /\ upSince' = upSince
  BY DecisionWakesForReset DEF SaveDecision
<1>2. Moment' \in Int /\ now <= Moment'
  <2>1. now \in Int /\ upSince \in Int
    BY DEF WakeInv
  <2> DEFINE t == hint'.target
  <2>2. Moment' = Max({t, now, upSince}) /\ t \in Int
    BY <1>1 DEF Moment
  <2> HIDE DEF t
  <2> QED BY <2>1, <2>2, GreatestOfThree
<1>3. Longest \in Nat
  BY WaitsAreBounded
<1>4. waiter.wake \in Int /\ waiter.look \in Int
  BY DEF WakeInv, Waiters
<1>5. Longest' = Longest
  BY DEF Longest
<1> DEFINE moment == Moment'
<1>6. /\ now <= moment + Longest
      /\ waiter.pc = "asleep" => waiter.wake <= moment + Longest
      /\ waiter.pc = "busy" => waiter.look <= moment + Longest
  <2>1. /\ waiter.pc = "asleep" => waiter.wake <= now + Longest
        /\ waiter.pc = "busy" => waiter.look <= now + Longest
        /\ now \in Nat
    BY DEF WakeInv
  <2> HIDE DEF moment
  <2>2. moment \in Int /\ now <= moment
    BY <1>2 DEF moment
  <2> QED BY <1>3, <1>4, <2>1, <2>2
<1> QED BY <1>1, <1>5, <1>6 DEF WakeInv

\* A start of the worker keeps the bounds of its waits.
LEMMA WatchKeeps ==
    ASSUME WakeInv, StartWorker
    PROVE  WakeInv'
<1>1. /\ waiter' = [Down EXCEPT !.pc = "loop"] /\ upSince' = now /\ now' = now
      /\ reading' = reading /\ hint' = hint /\ dueEvents' = dueEvents
  BY DEF StartWorker
<1>2. waiter' \in Waiters /\ waiter'.pc = "loop" /\ waiter'.watching = FALSE
  BY <1>1, DownIs
<1>3. Moment' \in Int /\ now <= Moment'
  <2>1. now \in Int /\ hint.target \in Int /\ reading.at \in Int
    BY DEF WakeInv
  <2>2. Moment' = Max({hint.target, reading.at, now})
    BY <1>1 DEF Moment
  <2> QED BY <2>1, <2>2, GreatestOfThree
<1>4. Longest \in Nat /\ Longest' = Longest
  BY WaitsAreBounded DEF Longest
<1>5. now <= Moment' + Longest
  <2> DEFINE moment == Moment'
  <2>1. moment \in Int /\ now <= moment /\ now \in Nat
    BY <1>3 DEF WakeInv
  <2> HIDE DEF moment
  <2>2. now <= moment + Longest
    BY <1>4, <2>1
  <2> QED BY <2>2 DEF moment
<1> QED BY <1>1, <1>2, <1>4, <1>5 DEF WakeInv

\* A round without work waits no longer than allowed from now on.
LEMMA IdleKeeps ==
    ASSUME WakeInv, NEW retryIn \in Nat, IdleRound(retryIn)
    PROVE  WakeInv'
<1> DEFINE wait == IdleWait(retryIn)
<1>1. /\ waiter.pc = "loop" /\ ObserveHint /\ upSince' = upSince
      /\ waiter' = [waiter EXCEPT !.pc = "asleep", !.wake = now + wait]
  BY DEF IdleRound
<1>2. wait \in Nat /\ wait <= Longest /\ Longest \in Nat /\ Longest' = Longest
  BY WaitsAreBounded DEF Longest
<1> HIDE DEF wait
<1>3. now \in Nat /\ waiter \in Waiters /\ waiter.watching = FALSE
  BY <1>1 DEF WakeInv, Waiters
<1>4. waiter' \in Waiters /\ waiter'.pc = "asleep" /\ waiter'.wake = now + wait
      /\ waiter'.watching = FALSE
  <2> DEFINE i == now + wait
  <2>1. i \in Int /\ waiter' = [waiter EXCEPT !.pc = "asleep", !.wake = i]
    BY <1>1, <1>2, <1>3
  <2> HIDE DEF i
  <2>2. \A w \in Waiters : LET v == [w EXCEPT !.pc = "asleep", !.wake = i]
                           IN  /\ v \in Waiters /\ v.pc = "asleep" /\ v.wake = i
                               /\ v.watching = w.watching
    BY <2>1 DEF Waiters
  <2>3. waiter' \in Waiters /\ waiter'.pc = "asleep" /\ waiter'.wake = i
        /\ waiter'.watching = waiter.watching
    BY <1>3, <2>1, <2>2
  <2> QED BY <1>3, <2>3 DEF i
<1>5. /\ now' = now /\ hint' = hint /\ reading' = reading
      /\ Moment' = Moment /\ Moment \in Int /\ HintDigest' = HintDigest
      /\ \A e \in dueEvents' : e.target \in Int /\ e.target <= now
      /\ HintDigest \notin dueEvents' => HintDigest \notin dueEvents /\ now < Moment
  BY <1>1, LookHears
<1> DEFINE wake == waiter'.wake
<1>6. wake = now + wait /\ wake \in Int
  BY <1>2, <1>3, <1>4
<1>7. now <= wake /\ wake <= now + Longest /\ (now < Moment => wake <= Moment + Longest /\ now <= Moment + Longest)
  <2> HIDE DEF wake
  <2> QED BY <1>2, <1>3, <1>5, <1>6
<1> QED BY <1>1, <1>2, <1>4, <1>5, <1>7 DEF WakeInv

\* A batch in flight is watched from the moment it is launched.
LEMMA BatchKeeps ==
    ASSUME WakeInv, LaunchBatch
    PROVE  WakeInv'
<1>1. /\ waiter.pc = "loop" /\ ObserveHint /\ upSince' = upSince
      /\ waiter' = [waiter EXCEPT !.pc = "busy", !.watching = TRUE, !.look = now]
  BY DEF LaunchBatch
<1>2. Longest \in Nat /\ Longest' = Longest
  BY WaitsAreBounded DEF Longest
<1>3. now \in Nat /\ now \in Int /\ waiter \in Waiters
  BY DEF WakeInv
<1>4. waiter' \in Waiters /\ waiter'.pc = "busy" /\ waiter'.look = now /\ waiter'.watching = TRUE
  <2>1. \A w \in Waiters, i \in Int :
           LET v == [w EXCEPT !.pc = "busy", !.watching = TRUE, !.look = i]
           IN  v \in Waiters /\ v.pc = "busy" /\ v.look = i /\ v.watching = TRUE
    BY DEF Waiters
  <2> QED BY <1>1, <1>3, <2>1
<1>5. /\ now' = now /\ hint' = hint /\ reading' = reading
      /\ Moment' = Moment /\ Moment \in Int /\ HintDigest' = HintDigest
      /\ \A e \in dueEvents' : e.target \in Int /\ e.target <= now
      /\ HintDigest \notin dueEvents' => HintDigest \notin dueEvents /\ now < Moment
  BY <1>1, LookHears
<1>6. now <= now + Longest /\ (now < Moment => now <= Moment + Longest)
  BY <1>2, <1>3, <1>5
<1> QED BY <1>1, <1>2, <1>4, <1>5, <1>6, <1>3 DEF WakeInv

\* The watcher that has looked waits no longer than allowed for its next look.
LEMMA LookKeeps ==
    ASSUME WakeInv, WatcherLooks
    PROVE  WakeInv'
<1> DEFINE wait == WatcherWait
<1>1. /\ waiter.watching /\ ObserveHint /\ upSince' = upSince
      /\ waiter' = [waiter EXCEPT !.look = now + wait]
  BY DEF WatcherLooks
<1>2. wait \in Nat /\ wait <= Longest /\ Longest \in Nat /\ Longest' = Longest
  BY WaitsAreBounded DEF Longest
<1> HIDE DEF wait
<1>3. now \in Nat /\ waiter \in Waiters /\ waiter.pc = "busy" /\ waiter.watching
  BY <1>1 DEF WakeInv
<1>4. waiter' \in Waiters /\ waiter'.pc = "busy" /\ waiter'.look = now + wait
      /\ waiter'.watching
  <2> DEFINE i == now + wait
  <2>1. i \in Int /\ waiter' = [waiter EXCEPT !.look = i]
    BY <1>1, <1>2, <1>3
  <2> HIDE DEF i
  <2>2. \A w \in Waiters : /\ [w EXCEPT !.look = i] \in Waiters
                           /\ [w EXCEPT !.look = i].pc = w.pc
                           /\ [w EXCEPT !.look = i].look = i
                           /\ [w EXCEPT !.look = i].watching = w.watching
    BY <2>1 DEF Waiters
  <2>3. /\ waiter' \in Waiters /\ waiter'.pc = waiter.pc /\ waiter'.look = i
        /\ waiter'.watching = waiter.watching
    BY <1>3, <2>1, <2>2
  <2> QED BY <1>3, <2>3 DEF i
<1>5. /\ now' = now /\ hint' = hint /\ reading' = reading
      /\ Moment' = Moment /\ Moment \in Int /\ HintDigest' = HintDigest
      /\ \A e \in dueEvents' : e.target \in Int /\ e.target <= now
      /\ HintDigest \notin dueEvents' => HintDigest \notin dueEvents /\ now < Moment
  BY <1>1, LookHears
<1> DEFINE look == waiter'.look
<1>6. look = now + wait /\ look \in Int
  BY <1>2, <1>3, <1>4
<1>7. now <= look /\ look <= now + Longest /\ (now < Moment => look <= Moment + Longest /\ now <= Moment + Longest)
  <2> HIDE DEF look
  <2> QED BY <1>2, <1>3, <1>5, <1>6
<1> QED BY <1>1, <1>2, <1>4, <1>5, <1>7 DEF WakeInv

\* The steps that only end a wait, or the worker.
LEMMA EndOfWaitKeeps ==
    ASSUME WakeInv, WakeUp \/ BatchEnds \/ WorkerDies
    PROVE  WakeInv'
<1>1. /\ now' = now /\ hint' = hint /\ reading' = reading /\ upSince' = upSince
      /\ dueEvents' = dueEvents
  BY DEF WakeUp, BatchEnds, WorkerDies
<1>2. Moment' = Moment /\ Longest' = Longest /\ HintDigest' = HintDigest
  BY <1>1 DEF Moment, Longest, HintDigest
<1>3. waiter' \in Waiters /\ waiter'.watching = FALSE
      /\ (waiter'.pc = "down" \/ (waiter'.pc = "loop" /\ waiter.pc # "down"))
  <2>1. waiter \in Waiters
    BY DEF WakeInv
  <2>2. CASE WakeUp
    <3>1. waiter.pc = "asleep" /\ waiter' = [waiter EXCEPT !.pc = "loop"] /\ waiter.watching = FALSE
      BY <2>1, <2>2 DEF WakeUp, WakeInv, Waiters
    <3>2. \A w \in Waiters : /\ [w EXCEPT !.pc = "loop"] \in Waiters
                             /\ [w EXCEPT !.pc = "loop"].pc = "loop"
                             /\ [w EXCEPT !.pc = "loop"].watching = w.watching
      BY DEF Waiters
    <3> QED BY <2>1, <3>1, <3>2
  <2>3. CASE BatchEnds
    <3>1. waiter.pc = "busy"
          /\ waiter' = [waiter EXCEPT !.pc = "loop", !.watching = FALSE, !.look = Absent]
      BY <2>3 DEF BatchEnds
    <3>2. \A w \in Waiters, i \in Int :
             LET v == [w EXCEPT !.pc = "loop", !.watching = FALSE, !.look = i]
             IN  v \in Waiters /\ v.pc = "loop" /\ v.watching = FALSE
      BY DEF Waiters
    <3>3. Absent \in Int
      BY DEF Absent
    <3> QED BY <2>1, <3>1, <3>2, <3>3
  <2>4. CASE WorkerDies
    BY <2>4, DownIs DEF WorkerDies
  <2> QED BY <2>2, <2>3, <2>4
<1> QED BY <1>1, <1>2, <1>3 DEF WakeInv

\* Time does not pass a wait.
LEMMA TimeKeeps ==
    ASSUME WakeInv, TimePasses
    PROVE  WakeInv'
<1>1. /\ now' = now + 1 /\ hint' = hint /\ reading' = reading /\ upSince' = upSince
      /\ dueEvents' = dueEvents /\ waiter' = waiter /\ waiter.pc # "loop"
      /\ waiter.pc = "asleep" => waiter.wake > now
      /\ waiter.watching => waiter.look > now
  BY DEF TimePasses
<1>2. Moment' = Moment /\ Longest' = Longest /\ HintDigest' = HintDigest /\ Longest \in Nat
  BY <1>1, WaitsAreBounded DEF Moment, Longest, HintDigest
<1>3. waiter.wake \in Int /\ waiter.look \in Int /\ now \in Nat /\ Moment \in Int
      /\ reading.at \in Int /\ upSince \in Int
      /\ waiter.pc \in {"down", "loop", "asleep", "busy"}
  BY MomentIs DEF WakeInv, Waiters
<1>4. /\ waiter.pc = "asleep" => now + 1 <= waiter.wake /\ waiter.wake <= now + 1 + Longest
      /\ waiter.pc = "busy" => waiter.watching /\ now + 1 <= waiter.look
                               /\ waiter.look <= now + 1 + Longest
      /\ reading.at <= now + 1 /\ upSince <= now + 1 /\ now + 1 \in Nat
  BY <1>1, <1>2, <1>3 DEF WakeInv
<1>5. \A e \in dueEvents : e.target \in Int /\ e.target <= now + 1
  <2> SUFFICES ASSUME NEW e \in dueEvents PROVE e.target \in Int /\ e.target <= now + 1
    OBVIOUS
  <2>1. e.target <= now /\ e.target \in Int
    BY DEF WakeInv
  <2> QED BY <1>3, <2>1
<1>6. waiter.pc # "down" /\ hint # NoHint /\ HintDigest \notin dueEvents =>
         /\ now + 1 <= Moment + Longest
         /\ waiter.pc = "asleep" => waiter.wake <= Moment + Longest
         /\ waiter.pc = "busy" => waiter.look <= Moment + Longest
  BY <1>1, <1>2, <1>3, <1>4 DEF WakeInv
<1> QED BY <1>1, <1>2, <1>4, <1>5, <1>6 DEF WakeInv

\* QuotaReturnsInTime for any pools, readings and waits.
THEOREM QuotaAlwaysReturns == QuotaSpec => QuotaReturnsInTime
<1>1. QuotaInit => WakeInv
  <2> SUFFICES ASSUME QuotaInit PROVE WakeInv
    OBVIOUS
  <2>1. hint = NoHint /\ hint.target = Absent /\ reading.at = Absent /\ waiter = Down
        /\ now = 0 /\ upSince = 0 /\ dueEvents = {}
    BY DEF QuotaInit, NoHint
  <2> QED BY <2>1, DownIs DEF WakeInv, Absent
<1>2. WakeInv /\ [QuotaNext]_quotaVars => WakeInv' /\ (hint' # hint => WakesForReset')
  <2> SUFFICES ASSUME WakeInv, [QuotaNext]_quotaVars
               PROVE  WakeInv' /\ (hint' # hint => WakesForReset')
    OBVIOUS
  <2>1. CASE \E files \in SnapshotFiles, invalid \in BOOLEAN : SaveDecision(files, invalid)
    BY <2>1, DecisionKeeps, DecisionWakesForReset
  <2>2. CASE StartWorker
    BY <2>2, WatchKeeps DEF StartWorker
  <2>3. CASE \E retryIn \in {0, IdleBackoff + 1} : IdleRound(retryIn)
    <3>1. PICK retryIn \in {0, IdleBackoff + 1} : IdleRound(retryIn)
      BY <2>3
    <3>2. retryIn \in Nat
      BY WakeAssumption
    <3>3. hint' = hint
      BY <3>1 DEF IdleRound, ObserveHint
    <3> QED BY <3>1, <3>2, <3>3, IdleKeeps
  <2>4. CASE LaunchBatch
    BY <2>4, BatchKeeps DEF LaunchBatch, ObserveHint
  <2>5. CASE WatcherLooks
    BY <2>5, LookKeeps DEF WatcherLooks, ObserveHint
  <2>6. CASE WakeUp \/ BatchEnds \/ WorkerDies
    BY <2>6, EndOfWaitKeeps DEF WakeUp, BatchEnds, WorkerDies
  <2>7. CASE TimePasses
    BY <2>7, TimeKeeps DEF TimePasses
  <2>8. CASE UNCHANGED quotaVars
    BY <2>8 DEF quotaVars, WakeInv, Moment, Longest, HintDigest
  <2> QED BY <2>1, <2>2, <2>3, <2>4, <2>5, <2>6, <2>7, <2>8 DEF QuotaNext
<1>3. WakeInv => HeardInTime
  <2> SUFFICES ASSUME WakeInv PROVE HeardInTime
    OBVIOUS
  <2>1. Moment \in Int /\ Longest \in Nat /\ now \in Nat
    BY MomentIs, WaitsAreBounded DEF WakeInv
  <2>2. waiter.pc # "down" /\ hint # NoHint /\ HintDigest \notin dueEvents => now - Moment <= Longest
    BY <2>1 DEF WakeInv
  <2>3. waiter.pc # "down" /\ hint # NoHint /\ now - Moment > Longest => HintDigest \in dueEvents
    BY <2>1, <2>2
  <2> QED BY <2>3 DEF HeardInTime, Moment, Longest, WakeInv
<1>4. WakeInv /\ [QuotaNext]_quotaVars => WakeInv' /\ [HeardInTime' /\ (hint' # hint => WakesForReset')]_quotaVars
  <2>1. WakeInv' => HeardInTime'
    BY <1>3, PTL
  <2> QED BY <1>2, <2>1
<1> QED BY <1>1, <1>4, PTL DEF QuotaSpec, QuotaReturnsInTime

-----------------------------------------------------------------------------
(* AdaptiveConcurrency *)

\* A ceiling that comes down and a floor that goes up from layer to layer.
LEMMA LayersMoveOneWay ==
    ASSUME NEW inherited \in Nat, NEW wish \in Quantities
    PROVE  /\ Lowered(inherited, wish) \in Nat /\ Lowered(inherited, wish) <= inherited
           /\ Raised(inherited, wish) \in Nat /\ Raised(inherited, wish) >= inherited
<1>1. CASE wish = None
  BY <1>1 DEF Lowered, Raised
<1>2. CASE wish # None
  <2>1. wish \in Nat
    BY <1>2 DEF Quantities, None
  <2>2. /\ Min({inherited, wish}) = (IF inherited <= wish THEN inherited ELSE wish)
        /\ Max({inherited, wish}) = (IF inherited >= wish THEN inherited ELSE wish)
    BY <2>1, MinMaxOfTwo
  <2>3. /\ Lowered(inherited, wish) = Min({inherited, wish})
        /\ Raised(inherited, wish) = Max({inherited, wish})
    BY <1>2 DEF Lowered, Raised
  <2> QED BY <2>1, <2>2, <2>3
<1> QED BY <1>1, <1>2

\* What the layers, the estimate and the readings are, field by field.
LEMMA AdaptTypes ==
    /\ MaxStamp \in Nat
    /\ {Safety.hardMax, Safety.ramReserve, Safety.diskReserve} \subseteq Nat
    /\ {Task.min, Task.max, Task.ramReserve, Task.diskReserve} \subseteq Quantities
    /\ Len(Organizations) \in Nat \ {0}
    /\ \A i \in 1..Len(Organizations) :
          LET o == Organizations[i] IN
          /\ {o.min, o.max, o.windows, o.increase} \subseteq Nat
          /\ {o.ramReserve, o.diskReserve} \subseteq Quantities
          /\ o.decrease[1] \in Nat /\ o.decrease[2] \in Nat /\ o.decrease[1] < o.decrease[2]
    /\ \A d \in Dimensions : Estimate[d] \in Quantities
    /\ \A d \in {"cpu", "ram", "disk"} : Estimate[d] # 0
    /\ \A r \in Snapshots :
          /\ r.active \in Nat /\ (r.trusted => r.providerMax \in Nat)
          /\ \A d \in Dimensions \ {"gpu"} : r.free[d] \in Quantities
          /\ \A d \in Dimensions : r.actual[d] \in Quantities
          /\ {r.cpuQuota, r.ramLimit, r.ramUsed} \subseteq Quantities
          /\ r.gpus \in Seq(Quantities)
<1>1. /\ MaxStamp \in Nat /\ SchedulingPolicyBundle /\ TaskResourceEstimate(Estimate)
      /\ \A r \in Snapshots : SchedulerDecisionInput(r)
  BY AdaptAssumption
<1>2. \A i \in 1..Len(Organizations) :
          LET o == Organizations[i] IN
          /\ {o.min, o.max, o.windows, o.increase} \subseteq Nat
          /\ {o.ramReserve, o.diskReserve} \subseteq Quantities
          /\ o.decrease[1] \in Nat /\ o.decrease[2] \in Nat /\ o.decrease[1] < o.decrease[2]
  BY <1>1 DEF SchedulingPolicyBundle, OrganizationPolicy
<1>3. ASSUME NEW r \in Snapshots
      PROVE  /\ r.active \in Nat /\ (r.trusted => r.providerMax \in Nat)
             /\ \A d \in Dimensions \ {"gpu"} : r.free[d] \in Quantities
             /\ \A d \in Dimensions : r.actual[d] \in Quantities
             /\ {r.cpuQuota, r.ramLimit, r.ramUsed} \subseteq Quantities
             /\ r.gpus \in Seq(Quantities)
  <2>1. /\ CpuMemoryAndCgroup(r) /\ MountGpusAndProcesses(r) /\ ResourceUsage(r.actual)
        /\ r.active \in Nat /\ ProviderSignals(r)
    BY <1>1 DEF SchedulerDecisionInput
  <2>2. \A d \in Dimensions \ {"gpu"} : r.free[d] \in Quantities
    BY <2>1 DEF CpuMemoryAndCgroup, MountGpusAndProcesses, Dimensions
  <2> QED BY <2>1, <2>2 DEF CpuMemoryAndCgroup, MountGpusAndProcesses, ResourceUsage, ProviderSignals
<1>4. /\ {Safety.hardMax, Safety.ramReserve, Safety.diskReserve} \subseteq Nat
      /\ {Task.min, Task.max, Task.ramReserve, Task.diskReserve} \subseteq Quantities
      /\ Len(Organizations) \in Nat \ {0}
  BY <1>1 DEF SchedulingPolicyBundle, SafetyInvariants, TaskPreferences
<1> QED BY <1>1, <1>2, <1>3, <1>4 DEF TaskResourceEstimate

\* What resolve_policy makes of the layers.
LEMMA EffectiveIs ==
    ASSUME revision \in 1..Len(Organizations)
    PROVE  /\ Effective.max \in Nat /\ Effective.max <= Safety.hardMax
           /\ Effective.min \in Nat /\ Effective.min <= Organization.min
           /\ Effective.ramReserve \in Nat /\ Effective.ramReserve >= Safety.ramReserve
           /\ Effective.diskReserve \in Nat /\ Effective.diskReserve >= Safety.diskReserve
           /\ Organization.min \in Nat /\ Organization.windows \in Nat
           /\ Organization.increase \in Nat /\ Safety.hardMax \in Nat
           /\ Organization.decrease[1] \in Nat /\ Organization.decrease[2] \in Nat
           /\ Organization.decrease[1] < Organization.decrease[2]
           /\ Safety.ramReserve \in Nat /\ Safety.diskReserve \in Nat
<1>1. /\ Safety.hardMax \in Nat /\ Safety.ramReserve \in Nat /\ Safety.diskReserve \in Nat
      /\ Task.min \in Quantities /\ Task.max \in Quantities
      /\ Task.ramReserve \in Quantities /\ Task.diskReserve \in Quantities
  BY AdaptTypes
<1>2. /\ Organization.min \in Nat /\ Organization.max \in Nat /\ Organization.windows \in Nat
      /\ Organization.increase \in Nat
      /\ Organization.ramReserve \in Quantities /\ Organization.diskReserve \in Quantities
      /\ Organization.decrease[1] \in Nat /\ Organization.decrease[2] \in Nat
      /\ Organization.decrease[1] < Organization.decrease[2]
  BY AdaptTypes DEF Organization
<1>3. Organization.max \in Quantities
  BY <1>2 DEF Quantities
<1> DEFINE low == Lowered(Safety.hardMax, Organization.max)
           max == Lowered(low, Task.max)
           floor == Lowered(Organization.min, Task.min)
           ram == Raised(Safety.ramReserve, Organization.ramReserve)
           disk_ == Raised(Safety.diskReserve, Organization.diskReserve)
<1>4. low \in Nat /\ low <= Safety.hardMax /\ ram \in Nat /\ ram >= Safety.ramReserve
      /\ disk_ \in Nat /\ disk_ >= Safety.diskReserve /\ floor \in Nat /\ floor <= Organization.min
  BY <1>1, <1>2, <1>3, LayersMoveOneWay
<1> HIDE DEF low, ram, disk_, floor
<1>5. /\ max \in Nat /\ max <= low
      /\ Raised(ram, Task.ramReserve) \in Nat /\ Raised(ram, Task.ramReserve) >= ram
      /\ Raised(disk_, Task.diskReserve) \in Nat /\ Raised(disk_, Task.diskReserve) >= disk_
  BY <1>1, <1>4, LayersMoveOneWay
<1> HIDE DEF max
<1>6. Min({floor, max}) = IF floor <= max THEN floor ELSE max
  <2>1. floor \in Int /\ max \in Int
    BY <1>4, <1>5
  <2> QED BY <2>1, MinMaxOfTwo
<1>7. /\ Effective.max = max /\ Effective.min = Min({floor, max})
      /\ Effective.ramReserve = Raised(ram, Task.ramReserve)
      /\ Effective.diskReserve = Raised(disk_, Task.diskReserve)
  BY DEF Effective, low, max, floor, ram, disk_
<1>8. /\ Effective.max \in Nat /\ Effective.max <= Safety.hardMax
      /\ Effective.min \in Nat /\ Effective.min <= Organization.min
  <2> DEFINE least == Min({floor, max})
  <2>1. least \in Nat /\ least <= floor
    BY <1>4, <1>5, <1>6
  <2>2. Effective.max = max /\ Effective.min = least
    BY <1>7
  <2> HIDE DEF least
  <2>3. /\ max <= low /\ low <= Safety.hardMax /\ max \in Nat /\ low \in Nat
        /\ Safety.hardMax \in Nat /\ floor \in Nat /\ floor <= Organization.min
        /\ Organization.min \in Nat
    BY <1>1, <1>2, <1>4, <1>5
  <2> QED BY <2>1, <2>2, <2>3
<1>9. /\ Effective.ramReserve \in Nat /\ Effective.ramReserve >= Safety.ramReserve
      /\ Effective.diskReserve \in Nat /\ Effective.diskReserve >= Safety.diskReserve
  <2> DEFINE a == Raised(ram, Task.ramReserve)
             b == Raised(disk_, Task.diskReserve)
  <2>1. a \in Nat /\ b \in Nat /\ a >= ram /\ b >= disk_
        /\ Effective.ramReserve = a /\ Effective.diskReserve = b
    BY <1>5, <1>7
  <2> HIDE DEF a, b
  <2> QED BY <1>1, <1>4, <2>1
<1> QED BY <1>1, <1>2, <1>8, <1>9

\* What a reading says.
LEMMA ReadingIs ==
    ASSUME NEW r \in Snapshots
    PROVE  /\ r.active \in Nat /\ (r.trusted => r.providerMax \in Nat)
           /\ \A d \in Dimensions \ {"gpu"} : r.free[d] \in Quantities
           /\ \A d \in Dimensions : r.actual[d] \in Quantities /\ Estimate[d] \in Quantities
           /\ r.cpuQuota \in Quantities /\ r.ramLimit \in Quantities /\ r.ramUsed \in Quantities
           /\ r.gpus \in Seq(Quantities)
<1>1. /\ r.active \in Nat /\ (r.trusted => r.providerMax \in Nat)
      /\ {r.cpuQuota, r.ramLimit, r.ramUsed} \subseteq Quantities /\ r.gpus \in Seq(Quantities)
  BY AdaptTypes
<1>2. \A d \in Dimensions \ {"gpu"} : r.free[d] \in Quantities
  BY AdaptTypes
<1>3. \A d \in Dimensions : r.actual[d] \in Quantities /\ Estimate[d] \in Quantities
  BY AdaptTypes
<1> QED BY <1>1, <1>2, <1>3

\* A ceiling only takes away.
LEMMA UnderCeilingIs ==
    ASSUME NEW free \in Quantities, NEW ceiling \in Quantities, NEW used \in Quantities,
           UnderCeiling(free, ceiling, used) # None
    PROVE  /\ UnderCeiling(free, ceiling, used) \in Nat
           /\ UnderCeiling(free, ceiling, used) <= free /\ free \in Nat
<1>1. CASE ceiling = None /\ used = None
  BY <1>1 DEF UnderCeiling, Quantities, None
<1>2. CASE ~(ceiling = None /\ used = None)
  <2>1. None \notin {free, ceiling, used}
    BY <1>2 DEF UnderCeiling
  <2>2. free \in Nat /\ ceiling \in Nat /\ used \in Nat
    BY <2>1 DEF Quantities
  <2> DEFINE left == ceiling - used
             floor == Max({0, left})
  <2>3. left \in Int
    BY <2>2
  <2> HIDE DEF left
  <2>4. floor = IF 0 >= left THEN 0 ELSE left
    BY <2>3, MinMaxOfTwo
  <2>5. floor \in Nat
    BY <2>3, <2>4
  <2> HIDE DEF floor
  <2>6. Min({free, floor}) = IF free <= floor THEN free ELSE floor
    BY <2>2, <2>5, MinMaxOfTwo
  <2>7. UnderCeiling(free, ceiling, used) = Min({free, floor})
    BY <1>2, <2>1 DEF UnderCeiling, floor, left
  <2> QED BY <2>2, <2>5, <2>6, <2>7
<1> QED BY <1>1, <1>2

\* What an evident reading leaves over its reserves.
LEMMA FreeIs ==
    ASSUME revision \in 1..Len(Organizations), NEW r \in Snapshots, Evident(r), ReservesHold(r)
    PROVE  /\ \A d \in Dimensions \ {"gpu"} : Wanted(d) => FreeFor(r, d) \in Nat
           /\ FreeFor(r, "cpu") <= r.free["cpu"] /\ r.free["cpu"] \in Nat
           /\ FreeFor(r, "ram") \in Nat /\ FreeFor(r, "disk") \in Nat
           /\ FreeFor(r, "rss") = FreeFor(r, "ram")
           /\ FreeFor(r, "ram") <= r.free["ram"] - Safety.ramReserve /\ r.free["ram"] \in Nat
           /\ FreeFor(r, "disk") <= r.free["disk"] - Safety.diskReserve /\ r.free["disk"] \in Nat
           /\ \A d \in {"swap", "inodes"} : FreeFor(r, d) = r.free[d]
<1>1. CpuFree(r) \in Nat /\ CpuFree(r) <= r.free["cpu"] /\ r.free["cpu"] \in Nat
  <2>1. r.free["cpu"] \in Quantities /\ r.actual["cpu"] \in Quantities /\ r.cpuQuota \in Quantities
    BY ReadingIs DEF Dimensions
  <2>2. CpuFree(r) # None
    BY DEF Evident
  <2>3. CASE r.cpuQuota = None
    BY <2>1, <2>2, <2>3 DEF CpuFree, Quantities, None
  <2>4. CASE r.cpuQuota # None
    BY <2>1, <2>2, <2>4, UnderCeilingIs DEF CpuFree
  <2> QED BY <2>3, <2>4
<1>2. RamFree(r) \in Nat /\ RamFree(r) <= r.free["ram"] /\ r.free["ram"] \in Nat
  <2>1. r.free["ram"] \in Quantities /\ r.ramLimit \in Quantities /\ r.ramUsed \in Quantities
    BY ReadingIs DEF Dimensions
  <2>2. RamFree(r) # None
    BY DEF Evident
  <2> QED BY <2>1, <2>2, UnderCeilingIs DEF RamFree
<1>3. r.free["disk"] \in Nat
  <2>1. r.free["disk"] \in Quantities
    BY ReadingIs DEF Dimensions
  <2> QED BY <2>1 DEF Evident, Quantities
<1>4. /\ Effective.ramReserve \in Nat /\ Effective.ramReserve >= Safety.ramReserve
      /\ Effective.diskReserve \in Nat /\ Effective.diskReserve >= Safety.diskReserve
      /\ Safety.ramReserve \in Nat /\ Safety.diskReserve \in Nat
  BY EffectiveIs
<1>5. RamFree(r) >= Effective.ramReserve /\ r.free["disk"] >= Effective.diskReserve
  BY DEF ReservesHold
<1>6. /\ FreeFor(r, "cpu") = CpuFree(r)
      /\ FreeFor(r, "ram") = RamFree(r) - Effective.ramReserve
      /\ FreeFor(r, "rss") = RamFree(r) - Effective.ramReserve
      /\ FreeFor(r, "disk") = r.free["disk"] - Effective.diskReserve
      /\ \A d \in {"swap", "inodes"} : FreeFor(r, d) = r.free[d]
  BY DEF FreeFor
<1>7. /\ FreeFor(r, "ram") \in Nat /\ FreeFor(r, "disk") \in Nat
      /\ FreeFor(r, "ram") <= r.free["ram"] - Safety.ramReserve
      /\ FreeFor(r, "disk") <= r.free["disk"] - Safety.diskReserve
  <2> DEFINE ram == RamFree(r)
             storage == r.free["disk"]
             a == Effective.ramReserve
             b == Effective.diskReserve
  <2>1. /\ ram \in Nat /\ storage \in Nat /\ a \in Nat /\ b \in Nat /\ ram >= a /\ storage >= b
        /\ ram <= r.free["ram"] /\ a >= Safety.ramReserve /\ b >= Safety.diskReserve
        /\ FreeFor(r, "ram") = ram - a /\ FreeFor(r, "disk") = storage - b
        /\ r.free["ram"] \in Nat /\ Safety.ramReserve \in Nat /\ Safety.diskReserve \in Nat
    BY <1>2, <1>3, <1>4, <1>5, <1>6
  <2> HIDE DEF ram, storage, a, b
  <2>2. ram - a \in Nat /\ storage - b \in Nat
    BY <2>1
  <2>3. ram - a <= r.free["ram"] - Safety.ramReserve
    BY <2>1
  <2>4. storage - b <= r.free["disk"] - Safety.diskReserve
    BY <2>1 DEF storage
  <2> QED BY <2>1, <2>2, <2>3, <2>4
<1>8. \A d \in {"swap", "inodes"} : Wanted(d) => FreeFor(r, d) \in Nat
  <2> SUFFICES ASSUME NEW d \in {"swap", "inodes"}, Wanted(d) PROVE r.free[d] \in Nat
    BY <1>6
  <2>1. r.free[d] \in Quantities
    BY ReadingIs DEF Dimensions
  <2>2. r.free[d] # None
    BY DEF Evident
  <2> QED BY <2>1, <2>2 DEF Quantities
<1>9. \A d \in Dimensions \ {"gpu"} : Wanted(d) => FreeFor(r, d) \in Nat
  BY <1>1, <1>6, <1>7, <1>8 DEF Dimensions
<1> QED BY <1>1, <1>2, <1>3, <1>6, <1>7, <1>9

\* So many devices, each with so many slots.
LEMMA DevicesAre ==
    ASSUME revision \in 1..Len(Organizations), NEW r \in Snapshots, Evident(r), Wanted("gpu")
    PROVE  /\ SlotsOf(r, "gpu") \in Nat
           /\ \A n \in Nat : n <= SlotsOf(r, "gpu") =>
                 \E pack \in [DOMAIN r.gpus -> 0..n] :
                    /\ \A i \in DOMAIN r.gpus : pack[i] * Estimate["gpu"] <= r.gpus[i]
                    /\ SumFunction(pack) = n
<1> DEFINE S == DOMAIN r.gpus
           e == Estimate["gpu"]
           cap == [i \in S |-> r.gpus[i] \div e]
<1>1. r.gpus \in Seq(Quantities) /\ e \in Quantities
  BY ReadingIs DEF Dimensions
<1>2. e \in Nat \ {0}
  BY <1>1 DEF Wanted, Quantities, None
<1>3. \A i \in S : r.gpus[i] \in Nat
  <2> SUFFICES ASSUME NEW i \in S PROVE r.gpus[i] \in Nat
    OBVIOUS
  <2>1. r.gpus[i] \in Quantities
    BY <1>1
  <2>2. r.gpus[i] \in Range(r.gpus)
    BY DEF Range
  <2>3. None \notin Range(r.gpus)
    BY DEF Evident
  <2> QED BY <2>1, <2>2, <2>3 DEF Quantities
<1>4. IsFiniteSet(S)
  <2>1. S = 1..Len(r.gpus) /\ Len(r.gpus) \in Nat
    BY <1>1
  <2>2. IsFiniteSet(1..Len(r.gpus))
    <3> HIDE DEF S, cap, e
    <3>1. 1 \in Int /\ Len(r.gpus) \in Int
      BY <2>1
    <3> QED BY ONLY <3>1, FS_Interval
  <2> QED BY <2>1, <2>2
<1> HIDE DEF e
<1>5. \A i \in S : cap[i] \in Nat /\ cap[i] * e <= r.gpus[i]
  <2> SUFFICES ASSUME NEW i \in S PROVE cap[i] \in Nat /\ cap[i] * e <= r.gpus[i]
    OBVIOUS
  <2>1. cap[i] = r.gpus[i] \div e /\ r.gpus[i] \in Nat
    BY <1>3
  <2> DEFINE a == r.gpus[i]
             c == cap[i]
  <2>2. a \in Nat /\ c = a \div e
    BY <2>1
  <2> HIDE DEF a, c
  <2>3. a \div e \in Int /\ (a \div e) * e <= a /\ (a >= 0 => a \div e >= 0)
    BY <1>2, <2>2, QuotientIs
  <2>4. c \in Nat /\ c * e <= a
    BY <2>2, <2>3
  <2> QED BY <2>4 DEF a, c
<1>6. SlotsOf(r, "gpu") = SumOver(cap, S)
  <2>1. SlotsOf(r, "gpu") = SumFunction(cap) /\ DOMAIN cap = S
    BY DEF SlotsOf, e
  <2> HIDE DEF cap, S
  <2> QED BY <2>1 DEF SumFunction, SumFunctionOnSet, FoldFunctionOnSet, SumOver, MapThenSumSet
<1> HIDE DEF cap, S
<1>7. SumOver(cap, S) \in Nat
  BY <1>4, <1>5, SumNat
<1>8. ASSUME NEW n \in Nat, n <= SumOver(cap, S)
      PROVE  \E pack \in [S -> 0..n] :
                (\A i \in S : pack[i] * e <= r.gpus[i]) /\ SumFunction(pack) = n
  <2>1. PICK pack \in [S -> 0..n] : (\A i \in S : pack[i] <= cap[i]) /\ SumOver(pack, S) = n
    BY <1>4, <1>5, <1>8, Packing
  <2>2. SumFunction(pack) = n
    <3>1. DOMAIN pack = S
      OBVIOUS
    <3>2. SumFunction(pack) = SumOver(pack, S)
      BY <3>1 DEF SumFunction, SumFunctionOnSet, FoldFunctionOnSet, SumOver, MapThenSumSet
    <3> QED BY <2>1, <3>2
  <2>3. \A i \in S : pack[i] * e <= r.gpus[i]
    <3> SUFFICES ASSUME NEW i \in S PROVE pack[i] * e <= r.gpus[i]
      OBVIOUS
    <3> DEFINE p == pack[i]
               c == cap[i]
    <3>1. p \in Nat /\ c \in Nat /\ p <= c /\ c * e <= r.gpus[i] /\ r.gpus[i] \in Nat /\ e \in Nat
      BY <1>2, <1>3, <1>5, <2>1
    <3> HIDE DEF p, c
    <3>2. p * e <= c * e /\ p * e \in Int /\ c * e \in Int
      BY <3>1, ProductsAreOrdered
    <3>3. p * e <= r.gpus[i]
      <4> DEFINE pe == p * e
                 ce == c * e
      <4>1. pe <= ce /\ ce <= r.gpus[i] /\ pe \in Int /\ ce \in Int
        BY <3>1, <3>2
      <4> HIDE DEF pe, ce
      <4>2. pe <= r.gpus[i]
        BY <3>1, <4>1
      <4> QED BY <4>2 DEF pe
    <3> QED BY <3>3 DEF p
  <2> QED BY <2>1, <2>2, <2>3
<1> QED BY <1>6, <1>7, <1>8 DEF S, e

\* So many slots as a dimension has take no more than is free of it.
LEMMA SlotsTake ==
    ASSUME revision \in 1..Len(Organizations), NEW r \in Snapshots, Evident(r), ReservesHold(r),
           NEW d \in Dimensions \ {"gpu"}, Wanted(d)
    PROVE  /\ SlotsOf(r, d) \in Nat
           /\ \A n \in Nat : n <= SlotsOf(r, d) => n * Estimate[d] <= FreeFor(r, d)
<1> DEFINE f == FreeFor(r, d)
           e == Estimate[d]
           c == f \div e
<1>1. f \in Nat /\ SlotsOf(r, d) = c
  BY FreeIs DEF SlotsOf
<1>2. e \in Nat \ {0}
  <2>1. e \in Quantities
    BY ReadingIs
  <2> QED BY <2>1 DEF Wanted, Quantities, None
<1> HIDE DEF f, e
<1>3. c \in Nat /\ c * e <= f
  BY <1>1, <1>2, QuotientIs
<1> HIDE DEF c
<1>4. ASSUME NEW n \in Nat, n <= c PROVE n * e <= f
  <2>1. n * e <= c * e /\ n * e \in Int /\ c * e \in Int
    BY <1>2, <1>3, <1>4, ProductsAreOrdered
  <2> DEFINE ne == n * e
             ce == c * e
  <2>2. ne <= ce /\ ce <= f /\ ne \in Int /\ ce \in Int
    BY <1>3, <2>1
  <2> HIDE DEF ne, ce
  <2>3. ne <= f
    BY <1>1, <2>2
  <2> QED BY <2>3 DEF ne
<1> QED BY <1>1, <1>3, <1>4 DEF e, f

\* What _resource_cap allows beyond what runs fits the reading.
LEMMA CapFits ==
    ASSUME revision \in 1..Len(Organizations), NEW r \in Snapshots, Evident(r), ReservesHold(r)
    PROVE  /\ ResourceCap(r) \in Nat
           /\ \A n \in Nat : n <= ResourceCap(r) - r.active => Fits(r, n)
<1> DEFINE W == {d \in Dimensions : Wanted(d)}
           slots == {SlotsOf(r, d) : d \in W}
           m == Min(slots)
<1>1. \A d \in Dimensions : Estimate[d] \in Nat
  <2> SUFFICES ASSUME NEW d \in Dimensions PROVE Estimate[d] \in Nat
    OBVIOUS
  <2>1. Estimate[d] \in Quantities
    BY ReadingIs
  <2>2. Estimate[d] # None
    BY DEF Evident
  <2> QED BY <2>1, <2>2 DEF Quantities
<1>2. {"cpu", "ram", "disk"} \subseteq W
  <2> SUFFICES ASSUME NEW d \in {"cpu", "ram", "disk"} PROVE Wanted(d) /\ d \in Dimensions
    OBVIOUS
  <2>1. d \in Dimensions
    BY DEF Dimensions
  <2>2. Estimate[d] # 0
    BY AdaptTypes
  <2>3. Estimate[d] \in Nat
    BY <1>1, <2>1
  <2> QED BY <2>1, <2>2, <2>3 DEF Wanted
<1>3. \A d \in W : SlotsOf(r, d) \in Nat
  <2> SUFFICES ASSUME NEW d \in W PROVE SlotsOf(r, d) \in Nat
    OBVIOUS
  <2>1. CASE d = "gpu"
    BY <2>1, DevicesAre
  <2>2. CASE d # "gpu"
    BY <2>2, SlotsTake
  <2> QED BY <2>1, <2>2
<1>4. m \in slots /\ \A t \in slots : m <= t
  <2>1. slots \in SUBSET Nat
    BY <1>3
  <2>2. slots # {}
    BY <1>2
  <2> HIDE DEF slots
  <2> QED BY <2>1, <2>2, LeastOfNumbers
<1>5. m \in Nat /\ \A d \in W : m <= SlotsOf(r, d)
  BY <1>3, <1>4
<1>6. ResourceCap(r) = r.active + m
  BY DEF ResourceCap
<1>7. r.active \in Nat
  BY ReadingIs
<1> HIDE DEF m, slots
<1>8. ASSUME NEW n \in Nat, n <= ResourceCap(r) - r.active PROVE Fits(r, n)
  <2>1. n <= m
    BY <1>5, <1>6, <1>7, <1>8
  <2>2. \A d \in W : n <= SlotsOf(r, d)
    BY <1>3, <1>5, <2>1
  <2>3. ASSUME NEW d \in W \ {"gpu"} PROVE n * Estimate[d] <= FreeFor(r, d)
    BY <2>2, SlotsTake
  <2>4. \A d \in Dimensions : n * Estimate[d] \in Int
    BY <1>1
  <2> DEFINE taken == [d \in Dimensions |-> n * Estimate[d]]
  <2>5. \A d \in Dimensions : taken[d] = n * Estimate[d] /\ taken[d] \in Int
    BY <2>4
  <2>6. \A d \in W \ {"gpu"} : taken[d] <= FreeFor(r, d)
    BY <2>3, <2>5
  <2> HIDE DEF taken
  <2>7. taken["cpu"] <= r.free["cpu"]
    <3>1. taken["cpu"] <= FreeFor(r, "cpu") /\ taken["cpu"] \in Int
      BY <1>2, <2>5, <2>6 DEF Dimensions
    <3>2. FreeFor(r, "cpu") <= r.free["cpu"] /\ FreeFor(r, "cpu") \in Nat /\ r.free["cpu"] \in Nat
      BY FreeIs, <1>2 DEF Dimensions
    <3> QED BY <3>1, <3>2
  <2>8. taken["disk"] <= r.free["disk"] - Safety.diskReserve
    <3>1. taken["disk"] <= FreeFor(r, "disk") /\ taken["disk"] \in Int
      BY <1>2, <2>5, <2>6 DEF Dimensions
    <3>2. FreeFor(r, "disk") <= r.free["disk"] - Safety.diskReserve /\ FreeFor(r, "disk") \in Nat
          /\ r.free["disk"] \in Nat /\ Safety.diskReserve \in Nat
      BY FreeIs, EffectiveIs
    <3> QED BY <3>1, <3>2
  <2>9. FreeFor(r, "ram") <= r.free["ram"] - Safety.ramReserve /\ FreeFor(r, "ram") \in Nat
        /\ r.free["ram"] \in Nat /\ Safety.ramReserve \in Nat
        /\ FreeFor(r, "rss") = FreeFor(r, "ram")
    BY FreeIs, EffectiveIs
  <2>10. taken["ram"] <= r.free["ram"] - Safety.ramReserve
    <3>1. taken["ram"] <= FreeFor(r, "ram") /\ taken["ram"] \in Int
      BY <1>2, <2>5, <2>6 DEF Dimensions
    <3> QED BY <2>9, <3>1
  <2>11. taken["rss"] <= r.free["ram"] - Safety.ramReserve
    <3>1. taken["rss"] \in Int /\ taken["rss"] = n * Estimate["rss"] /\ Estimate["rss"] \in Nat
      BY <1>1, <2>5 DEF Dimensions
    <3>2. CASE Wanted("rss")
      <4>1. taken["rss"] <= FreeFor(r, "rss")
        BY <2>6, <3>2 DEF Dimensions
      <4> QED BY <2>9, <3>1, <4>1
    <3>3. CASE ~Wanted("rss")
      <4>1. Estimate["rss"] = 0
        BY <3>1, <3>3 DEF Wanted
      <4>2. taken["rss"] = 0
        BY <3>1, <4>1
      <4> QED BY <2>9, <4>2
    <3> QED BY <3>2, <3>3
  <2>12. ASSUME NEW d \in {"swap", "inodes"}, Wanted(d) PROVE taken[d] <= r.free[d]
    <3>1. d \in W \ {"gpu"}
      BY <2>12 DEF Dimensions
    <3> QED BY <2>6, <3>1, FreeIs
  <2>13. Wanted("gpu") => \E pack \in [DOMAIN r.gpus -> 0..n] :
            /\ \A i \in DOMAIN r.gpus : pack[i] * Estimate["gpu"] <= r.gpus[i]
            /\ SumFunction(pack) = n
    <3> SUFFICES ASSUME Wanted("gpu")
                 PROVE  \E pack \in [DOMAIN r.gpus -> 0..n] :
                           /\ \A i \in DOMAIN r.gpus : pack[i] * Estimate["gpu"] <= r.gpus[i]
                           /\ SumFunction(pack) = n
      OBVIOUS
    <3>1. n <= SlotsOf(r, "gpu")
      BY <2>2 DEF Dimensions
    <3> QED BY <3>1, DevicesAre
  <2>14. /\ n * Estimate["cpu"] <= r.free["cpu"]
         /\ n * Estimate["disk"] <= r.free["disk"] - Safety.diskReserve
         /\ \A d \in {"ram", "rss"} : n * Estimate[d] <= r.free["ram"] - Safety.ramReserve
         /\ \A d \in {"swap", "inodes"} : Wanted(d) => n * Estimate[d] <= r.free[d]
    BY <2>5, <2>7, <2>8, <2>10, <2>11, <2>12 DEF Dimensions
  <2> QED BY <2>13, <2>14 DEF Fits
<1>9. ResourceCap(r) \in Nat
  BY <1>5, <1>6, <1>7
<1> QED BY <1>8, <1>9

-----------------------------------------------------------------------------
(* The limit of a provider *)

AdaptInv ==
    /\ revision \in 1..Len(Organizations)
    /\ limit \in Nat /\ healthy \in Nat
    /\ last \in [Streams -> Int]
    /\ witnessed \subseteq Stamps /\ IsFiniteSet(witnessed)
    /\ healthy <= Cardinality(witnessed)
    /\ \A w \in witnessed : \A s \in Streams : w[s] <= last[s]

\* A hard cap that admits anything is one of an evident reading.
LEMMA HardCapIs ==
    ASSUME AdaptInv, NEW r \in Snapshots, NEW stamp \in Stamps, ~Shut(r, stamp)
    PROVE  /\ HardCap(r) \in Nat
           /\ HardCap(r) # 0 =>
                 /\ HardCap(r) <= Safety.hardMax /\ Safety.hardMax \in Nat
                 /\ HardCap(r) <= r.providerMax /\ r.providerMax \in Nat
                 /\ \A n \in Nat : n <= HardCap(r) /\ n > r.active => Fits(r, n - r.active)
<1>1. r.trusted /\ Evident(r)
  BY DEF Shut
<1>2. r.providerMax \in Nat /\ r.active \in Nat
  BY <1>1, ReadingIs
<1>3. Effective.max \in Nat /\ Effective.max <= Safety.hardMax /\ Safety.hardMax \in Nat
  BY EffectiveIs DEF AdaptInv
<1>4. CASE ~r.quotaLeft
  BY <1>4 DEF HardCap
<1>5. CASE r.quotaLeft /\ ~ReservesHold(r)
  <2>1. ResourceCap(r) = 0
    BY <1>5 DEF ResourceCap
  <2> DEFINE m == Effective.max
             c == ResourceCap(r)
  <2>2. HardCap(r) = Min({m, r.providerMax, c})
    BY <1>5 DEF HardCap
  <2>3. m \in Nat /\ c \in Nat /\ c = 0
    BY <1>3, <2>1
  <2> HIDE DEF m, c
  <2>4. HardCap(r) \in Nat /\ HardCap(r) <= c
    BY <1>2, <2>2, <2>3, LeastOfThree
  <2> QED BY <2>3, <2>4
<1>6. CASE r.quotaLeft /\ ReservesHold(r)
  <2> DEFINE m == Effective.max
             c == ResourceCap(r)
  <2>1. HardCap(r) = Min({m, r.providerMax, c})
    BY <1>6 DEF HardCap
  <2>2. m \in Nat /\ m <= Safety.hardMax
    BY <1>3
  <2>3. /\ c \in Nat
        /\ \A n \in Nat : n <= c - r.active => Fits(r, n)
    BY <1>1, <1>6, CapFits DEF AdaptInv
  <2> HIDE DEF m, c
  <2>4. HardCap(r) \in Nat /\ HardCap(r) <= m /\ HardCap(r) <= r.providerMax /\ HardCap(r) <= c
    BY <1>2, <2>1, <2>2, <2>3, LeastOfThree
  <2>5. ASSUME NEW n \in Nat, n <= HardCap(r), n > r.active PROVE Fits(r, n - r.active)
    <3>1. n - r.active \in Nat /\ n - r.active <= c - r.active
      BY <1>2, <2>3, <2>4, <2>5
    <3> QED BY <2>3, <3>1
  <2>6. HardCap(r) <= Safety.hardMax
    BY <1>3, <2>2, <2>4
  <2> QED BY <1>2, <1>3, <2>4, <2>5, <2>6
<1> QED BY <1>4, <1>5, <1>6

\* What a step of adapt_concurrency decides.
LEMMA DecisionIs ==
    ASSUME NEW r, NEW stamp, NEW target, NEW windows, Decide(r, stamp, target, windows)
    PROVE  /\ limit' = target /\ healthy' = windows /\ revision' = revision
           /\ last' \in {last, stamp} /\ (~Regressed(stamp) => last' = stamp)
           /\ target > limit => given' = [reading |-> r, stamp |-> stamp]
BY DEF Decide

\* A stamp that is not behind is either the last one or a new one.
LEMMA StampIsNew ==
    ASSUME AdaptInv, NEW stamp \in Stamps, ~Regressed(stamp)
    PROVE  /\ \A s \in Streams : last[s] <= stamp[s]
           /\ stamp \in witnessed => SameWindow(stamp)
           /\ \A w \in witnessed \cup {stamp} : \A s \in Streams : w[s] <= stamp[s]
           /\ stamp \in [Streams -> Int]
<1>1. stamp \in [Streams -> Int]
  BY AdaptTypes DEF Stamps
<1>2. last \in [Streams -> Int] /\ witnessed \in SUBSET [Streams -> Int]
      /\ \A w \in witnessed : \A s \in Streams : w[s] <= last[s]
  BY AdaptTypes DEF AdaptInv, Stamps
<1>3. \A s \in Streams : last[s] <= stamp[s]
  BY <1>1, <1>2 DEF Regressed
<1>4. ASSUME stamp \in witnessed PROVE stamp = last
  <2>1. \A s \in Streams : stamp[s] = last[s]
    BY <1>1, <1>2, <1>3, <1>4
  <2> QED BY <1>1, <1>2, <2>1
<1>5. \A w \in witnessed \cup {stamp} : \A s \in Streams : w[s] <= stamp[s]
  BY <1>1, <1>2, <1>3
<1> QED BY <1>1, <1>3, <1>4, <1>5 DEF SameWindow

\* Healthy windows are counted by different stamps.
LEMMA WindowsAreWitnessed ==
    ASSUME AdaptInv, NEW stamp \in Stamps, ~Regressed(stamp)
    PROVE  /\ Windows(stamp) \in Nat
           /\ IsFiniteSet(witnessed \cup {stamp})
           /\ Cardinality(witnessed \cup {stamp}) \in Nat
           /\ Windows(stamp) <= Cardinality(witnessed \cup {stamp})
<1> DEFINE w == witnessed \cup {stamp}
<1>1. /\ IsFiniteSet(witnessed) /\ healthy \in Nat /\ healthy <= Cardinality(witnessed)
      /\ Organization.windows \in Nat
  BY EffectiveIs DEF AdaptInv
<1>2. /\ IsFiniteSet(w) /\ Cardinality(w) \in Nat /\ Cardinality(witnessed) \in Nat
      /\ Cardinality(w) = IF stamp \in witnessed THEN Cardinality(witnessed)
                          ELSE Cardinality(witnessed) + 1
  BY <1>1, FS_AddElement, FS_CardinalityType
<1> HIDE DEF w
<1>3. CASE SameWindow(stamp)
  <2>1. Windows(stamp) = healthy
    BY <1>3 DEF Windows
  <2> QED BY <1>1, <1>2, <2>1 DEF w
<1>4. CASE ~SameWindow(stamp)
  <2>1. stamp \notin witnessed
    BY <1>4, StampIsNew
  <2> DEFINE o == Organization.windows
             h == healthy + 1
  <2>2. Windows(stamp) = Min({o, h})
    BY <1>4 DEF Windows
  <2>3. o \in Int /\ h \in Int /\ o \in Nat /\ h \in Nat /\ h <= Cardinality(w)
    BY <1>1, <1>2, <2>1
  <2> HIDE DEF o, h
  <2>4. Min({o, h}) = IF o <= h THEN o ELSE h
    BY <2>3, MinMaxOfTwo
  <2>5. Min({o, h}) \in Nat /\ Min({o, h}) <= h
    BY <2>3, <2>4
  <2>6. Windows(stamp) \in Nat /\ Windows(stamp) <= Cardinality(w)
    BY <1>2, <2>2, <2>3, <2>5
  <2> QED BY <1>2, <2>6 DEF w
<1> QED BY <1>3, <1>4

\* The multiplicative decrease only falls, or takes the minimum.
LEMMA BackOffIs ==
    ASSUME AdaptInv, NEW cap \in Nat
    PROVE  LET halved == (limit * Organization.decrease[1]) \div Organization.decrease[2]
               target == Min({Max({Effective.min, halved}), cap})
           IN  /\ target \in Nat /\ target <= cap
               /\ target > limit => target <= Effective.min
<1> DEFINE a == Organization.decrease[1]
           b == Organization.decrease[2]
           halved == (limit * a) \div b
           least == Effective.min
           higher == Max({least, halved})
           target == Min({higher, cap})
<1>1. a \in Nat /\ b \in Nat \ {0} /\ a <= b /\ least \in Nat /\ limit \in Nat
  <2>1. revision \in 1..Len(Organizations) /\ limit \in Nat
    BY DEF AdaptInv
  <2>2. least \in Nat /\ a \in Nat /\ b \in Nat /\ a < b
    BY <2>1, EffectiveIs
  <2> HIDE DEF a, b, least
  <2> QED BY <2>1, <2>2
<1> HIDE DEF a, b, least
<1>2. halved \in Nat /\ halved <= limit
  BY <1>1, FractionIsLess
<1> HIDE DEF halved
<1>3. higher = IF least >= halved THEN least ELSE halved
  BY <1>1, <1>2, MinMaxOfTwo
<1>4. higher \in Nat /\ (higher > limit => higher <= least)
  BY <1>1, <1>2, <1>3
<1> HIDE DEF higher
<1>5. target = IF higher <= cap THEN higher ELSE cap
  BY <1>4, MinMaxOfTwo
<1> HIDE DEF target
<1>6. target \in Nat /\ target <= cap /\ (target > limit => target <= least)
  BY <1>1, <1>4, <1>5
<1> QED BY <1>6 DEF target, higher, halved, least, a, b

\* What earns a higher limit.
Earned(r, stamp) ==
    /\ r.trusted /\ r.worker # "closed" /\ ~r.outage
    /\ \A s \in Streams : stamp[s] >= last[s]
    /\ limit' <= Safety.hardMax
    /\ limit' <= r.providerMax
    /\ limit' > r.active => Fits(r, limit' - r.active)
    /\ \/ limit' <= Organization.min
       \/ /\ Cardinality(witnessed \cup {stamp}) >= Organization.windows
          /\ ~cooling
          /\ limit' - limit <= Organization.increase

\* A decision that starts the count of healthy readings again.
LEMMA CountStartsAgain ==
    ASSUME AdaptInv, NEW r \in Snapshots, NEW stamp \in Stamps, NEW target \in Nat,
           Decide(r, stamp, target, 0), Unhealthy
    PROVE  AdaptInv'
<1>1. /\ limit' = target /\ healthy' = 0 /\ revision' = revision
      /\ last' \in {last, stamp} /\ witnessed' = {}
  BY DecisionIs DEF Unhealthy
<1>2. stamp \in [Streams -> Int]
  BY AdaptTypes DEF Stamps
<1>3. last' \in [Streams -> Int]
  BY <1>1, <1>2 DEF AdaptInv
<1>4. IsFiniteSet({}) /\ Cardinality({}) = 0
  BY FS_EmptySet
<1> QED BY <1>1, <1>3, <1>4 DEF AdaptInv

\* A decision within the cap that goes beyond the minimum only as Grow does.
LEMMA CapIsEarned ==
    ASSUME AdaptInv, NEW r \in Snapshots, NEW stamp \in Stamps, ~Shut(r, stamp),
           NEW target \in Nat, NEW windows, Decide(r, stamp, target, windows),
           target <= HardCap(r),
           target > limit =>
              \/ target <= Effective.min
              \/ /\ Cardinality(witnessed \cup {stamp}) >= Organization.windows
                 /\ ~cooling
                 /\ target - limit <= Organization.increase
    PROVE  limit' > limit =>
              given'.reading = r /\ given'.stamp = stamp /\ Earned(r, stamp)
<1> SUFFICES ASSUME limit' > limit
             PROVE  given'.reading = r /\ given'.stamp = stamp /\ Earned(r, stamp)
  OBVIOUS
<1>1. limit' = target /\ limit \in Nat
  BY DecisionIs DEF AdaptInv
<1>2. target > limit /\ target # 0
  BY <1>1
<1>3. given' = [reading |-> r, stamp |-> stamp]
  BY <1>2, DecisionIs
<1>4. r.trusted /\ r.worker # "closed" /\ ~r.outage /\ PolicyValid /\ ~Regressed(stamp)
  BY DEF Shut
<1>5. \A s \in Streams : stamp[s] >= last[s]
  <2>1. \A s \in Streams : last[s] <= stamp[s] /\ last[s] \in Int /\ stamp[s] \in Int
    BY <1>4, StampIsNew DEF AdaptInv
  <2> QED BY <2>1
<1>6. HardCap(r) \in Nat /\ HardCap(r) # 0
  BY <1>2, HardCapIs
<1>7. /\ HardCap(r) <= Safety.hardMax /\ Safety.hardMax \in Nat
      /\ HardCap(r) <= r.providerMax /\ r.providerMax \in Nat
      /\ \A n \in Nat : n <= HardCap(r) /\ n > r.active => Fits(r, n - r.active)
  BY <1>6, HardCapIs
<1>8. /\ target <= Safety.hardMax /\ target <= r.providerMax
      /\ target > r.active => Fits(r, target - r.active)
  BY <1>6, <1>7
<1>9. \/ target <= Organization.min
      \/ /\ Cardinality(witnessed \cup {stamp}) >= Organization.windows
         /\ ~cooling
         /\ target - limit <= Organization.increase
  <2>1. Effective.min \in Nat /\ Effective.min <= Organization.min /\ Organization.min \in Nat
    BY EffectiveIs DEF AdaptInv
  <2> QED BY <1>2, <2>1
<1> QED BY <1>1, <1>3, <1>4, <1>5, <1>8, <1>9 DEF Earned

\* An evaluation raises the limit only on what earns it.
LEMMA EvaluationKeeps ==
    ASSUME AdaptInv, NEW r \in Snapshots, NEW stamp \in Stamps, Evaluate(r, stamp)
    PROVE  /\ AdaptInv'
           /\ limit' > limit =>
                 given'.reading = r /\ given'.stamp = stamp /\ Earned(r, stamp)
<1> DEFINE Claim == limit' > limit =>
                       given'.reading = r /\ given'.stamp = stamp /\ Earned(r, stamp)
           cap == HardCap(r)
<1>1. limit \in Nat /\ 0 \in Nat
  BY DEF AdaptInv
<1>2. ASSUME limit' = 0 PROVE Claim
  BY <1>1, <1>2
<1>3. CASE Shut(r, stamp)
  <2>1. Decide(r, stamp, 0, 0) /\ Unhealthy
    BY <1>3 DEF Evaluate, CloseAdmission
  <2>2. limit' = 0
    BY <2>1, DecisionIs
  <2>3. AdaptInv'
    BY <1>1, <2>1, CountStartsAgain
  <2> QED BY <1>2, <2>2, <2>3
<1>4. CASE ~Shut(r, stamp)
  <2>1. ~Regressed(stamp)
    BY <1>4 DEF Shut
  <2>2. cap \in Nat
    BY <1>4, HardCapIs
  <2>3. \/ (cap < limit \/ cap = 0) /\ FollowCap(r, stamp, cap)
        \/ /\ ~(cap < limit \/ cap = 0)
           /\ \/ CloseOnUnknownUsage(r, stamp) \/ BackOff(r, stamp, cap)
              \/ HoldWhileBusy(r, stamp) \/ AdmitMinimum(r, stamp, cap)
              \/ Grow(r, stamp, cap) \/ Hold(r, stamp, cap)
    BY <1>4 DEF Evaluate
  <2> HIDE DEF cap, Claim
  <2>4. CASE (cap < limit \/ cap = 0) /\ FollowCap(r, stamp, cap)
    <3>1. Decide(r, stamp, cap, 0) /\ Unhealthy
      BY <2>4 DEF FollowCap
    <3>2. limit' = cap
      BY <3>1, DecisionIs
    <3>3. Claim
      BY <1>1, <2>2, <2>4, <3>2 DEF Claim
    <3>4. AdaptInv'
      BY <2>2, <3>1, CountStartsAgain
    <3> QED BY <3>3, <3>4 DEF Claim
  <2>5. CASE CloseOnUnknownUsage(r, stamp)
    <3>1. Decide(r, stamp, 0, 0) /\ Unhealthy
      BY <2>5 DEF CloseOnUnknownUsage
    <3>2. limit' = 0
      BY <3>1, DecisionIs
    <3>3. AdaptInv'
      BY <1>1, <3>1, CountStartsAgain
    <3> QED BY <1>2, <3>2, <3>3 DEF Claim
  <2>6. CASE BackOff(r, stamp, cap)
    <3> DEFINE halved == (limit * Organization.decrease[1]) \div Organization.decrease[2]
               target == Min({Max({Effective.min, halved}), cap})
    <3>1. Decide(r, stamp, target, 0) /\ Unhealthy
      BY <2>6 DEF BackOff
    <3>2. target \in Nat /\ target <= cap /\ (target > limit => target <= Effective.min)
      BY <2>2, BackOffIs
    <3> HIDE DEF target
    <3>3. AdaptInv'
      BY <3>1, <3>2, CountStartsAgain
    <3>4. Claim
      BY <1>4, <3>1, <3>2, CapIsEarned DEF Claim, cap
    <3> QED BY <3>3, <3>4 DEF Claim
  <2>7. CASE HoldWhileBusy(r, stamp)
    <3>1. Decide(r, stamp, limit, 0) /\ Unhealthy
      BY <2>7 DEF HoldWhileBusy
    <3>2. limit' = limit
      BY <3>1, DecisionIs
    <3>3. AdaptInv'
      BY <1>1, <3>1, CountStartsAgain
    <3> QED BY <1>1, <3>2, <3>3
  <2>8. CASE AdmitMinimum(r, stamp, cap)
    <3> DEFINE least == Effective.min
               target == Min({least, cap})
    <3>1. Decide(r, stamp, target, 0) /\ Unhealthy
      BY <2>8 DEF AdmitMinimum
    <3>2. least \in Nat
      BY EffectiveIs DEF AdaptInv
    <3> HIDE DEF least
    <3>3. target = IF least <= cap THEN least ELSE cap
      BY <2>2, <3>2, MinMaxOfTwo
    <3>4. target \in Nat /\ target <= cap /\ target <= least
      BY <2>2, <3>2, <3>3
    <3> HIDE DEF target
    <3>5. AdaptInv'
      BY <3>1, <3>4, CountStartsAgain
    <3>6. Claim
      BY <1>4, <3>1, <3>4, CapIsEarned DEF Claim, cap, least
    <3> QED BY <3>5, <3>6 DEF Claim
  <2>9. CASE Grow(r, stamp, cap)
    <3> DEFINE more == limit + Organization.increase
               target == Min({cap, more})
    <3>1. Decide(r, stamp, target, 0) /\ Unhealthy /\ Ripe(stamp, cap)
      BY <2>9 DEF Grow, Unhealthy
    <3>2. Organization.increase \in Nat /\ Organization.windows \in Nat
      BY EffectiveIs DEF AdaptInv
    <3>3. more \in Nat
      BY <1>1, <3>2
    <3> HIDE DEF more
    <3>4. target = IF cap <= more THEN cap ELSE more
      BY <2>2, <3>3, MinMaxOfTwo
    <3>5. target \in Nat /\ target <= cap /\ target <= more
      BY <2>2, <3>3, <3>4
    <3> HIDE DEF target
    <3>6. AdaptInv'
      BY <3>1, <3>5, CountStartsAgain
    <3>7. ~cooling /\ Windows(stamp) >= Organization.windows
      BY <3>1 DEF Ripe
    <3>8. Cardinality(witnessed \cup {stamp}) >= Organization.windows
      <4> DEFINE seen == Cardinality(witnessed \cup {stamp})
                 counted == Windows(stamp)
      <4>1. counted \in Nat /\ seen \in Nat /\ counted <= seen /\ counted >= Organization.windows
        BY <2>1, <3>7, WindowsAreWitnessed
      <4> HIDE DEF seen, counted
      <4>2. seen >= Organization.windows
        BY <3>2, <4>1
      <4> QED BY <4>2 DEF seen
    <3>9. target - limit <= Organization.increase
      BY <1>1, <3>2, <3>5 DEF more
    <3>10. Claim
      BY <1>4, <3>1, <3>5, <3>7, <3>8, <3>9, CapIsEarned DEF Claim, cap
    <3> QED BY <3>6, <3>10 DEF Claim
  <2>10. CASE Hold(r, stamp, cap)
    <3>1. Decide(r, stamp, limit, Windows(stamp)) /\ witnessed' = witnessed \cup {stamp}
      BY <2>10 DEF Hold
    <3>2. limit' = limit /\ healthy' = Windows(stamp) /\ revision' = revision /\ last' = stamp
      BY <2>1, <3>1, DecisionIs
    <3> DEFINE seen == witnessed \cup {stamp}
    <3>3. /\ Windows(stamp) \in Nat /\ IsFiniteSet(seen) /\ Windows(stamp) <= Cardinality(seen)
      BY <2>1, WindowsAreWitnessed
    <3>4. /\ \A w \in seen : \A s \in Streams : w[s] <= stamp[s]
          /\ stamp \in [Streams -> Int]
      BY <2>1, StampIsNew
    <3>5. seen \subseteq Stamps
      BY DEF AdaptInv
    <3>6. witnessed' = seen
      BY <3>1
    <3> HIDE DEF seen
    <3>7. AdaptInv'
      BY <3>2, <3>3, <3>4, <3>5, <3>6 DEF AdaptInv
    <3> QED BY <1>1, <3>2, <3>7
  <2> QED BY <2>3, <2>4, <2>5, <2>6, <2>7, <2>8, <2>9, <2>10
<1> QED BY <1>3, <1>4

\* Every step of the limit keeps its count of healthy readings honest.
LEMMA AdaptStep == AdaptInv /\ [AdaptNext]_adaptVars => AdaptInv'
<1> SUFFICES ASSUME AdaptInv, [AdaptNext]_adaptVars PROVE AdaptInv'
  OBVIOUS
<1>1. CASE \E r \in Snapshots, stamp \in Stamps : Evaluate(r, stamp)
  BY <1>1, EvaluationKeeps
<1>2. CASE Reload
  <2>1. revision' \in 1..Len(Organizations)
    BY <1>2, AdaptTypes DEF Reload, AdaptInv
  <2> QED BY <1>2, <2>1 DEF Reload, AdaptInv
<1>3. CASE CooldownElapses
  BY <1>3 DEF CooldownElapses, AdaptInv
<1>4. CASE UNCHANGED adaptVars
  BY <1>4 DEF adaptVars, AdaptInv
<1> QED BY <1>1, <1>2, <1>3, <1>4 DEF AdaptNext

\* A caller starts with no evidence counted.
LEMMA AdaptStarts == AdaptInit => AdaptInv
<1> SUFFICES ASSUME AdaptInit PROVE AdaptInv
  OBVIOUS
<1>1. revision \in 1..Len(Organizations)
  BY AdaptTypes DEF AdaptInit
<1>2. limit \in Nat
  BY <1>1, AdaptTypes DEF AdaptInit
<1>3. IsFiniteSet({}) /\ Cardinality({}) = 0
  BY FS_EmptySet
<1>4. last \in [Streams -> Int]
  BY DEF AdaptInit, NoStamp, None
<1> QED BY <1>1, <1>2, <1>3, <1>4 DEF AdaptInit, AdaptInv

\* Whatever the layers, the revisions and the readings, a limit grows only on
\* evidence that earns it: what adapt_concurrency adds fits the machine, stays
\* below every ceiling, and beyond the minimum takes as many different healthy
\* readings as healthy_windows asks for.
THEOREM LimitsAreEarned == AdaptSpec => GrowthIsEarned
<1>1. AdaptInv /\ [AdaptNext]_adaptVars =>
         [limit' > limit =>
             LET r == given'.reading
             IN  /\ r.trusted /\ r.worker # "closed" /\ ~r.outage
                 /\ \A s \in Streams : given'.stamp[s] >= last[s]
                 /\ limit' <= Safety.hardMax
                 /\ limit' <= r.providerMax
                 /\ limit' > r.active => Fits(r, limit' - r.active)
                 /\ \/ limit' <= Organization.min
                    \/ /\ Cardinality(witnessed \cup {given'.stamp}) >= Organization.windows
                       /\ ~cooling
                       /\ limit' - limit <= Organization.increase]_adaptVars
  <2> SUFFICES ASSUME AdaptInv, AdaptNext, limit' > limit
               PROVE  Earned(given'.reading, given'.stamp)
    BY DEF Earned
  <2>1. limit \in Nat
    BY DEF AdaptInv
  <2>2. CASE \E r \in Snapshots, stamp \in Stamps : Evaluate(r, stamp)
    BY <2>2, EvaluationKeeps
  <2>3. CASE Reload
    BY <2>1, <2>3 DEF Reload
  <2>4. CASE CooldownElapses
    BY <2>1, <2>4 DEF CooldownElapses
  <2> QED BY <2>2, <2>3, <2>4 DEF AdaptNext
<1> QED BY <1>1, AdaptStarts, AdaptStep, PTL DEF AdaptSpec, GrowthIsEarned

-----------------------------------------------------------------------------
(* FakeReplay *)

\* Why a job may not be done.
Reasons == {"none", "no_route", "quota_unknown", "rate_limited", "route_lost", "crash",
            "worker_lost", "lease_expired", "mount_lost", "vram_pressure", "quota_exhausted",
            "artifact_invalid", "human_review_missed", "not_arrived", "censored_at_horizon"}
ReplayedJobs == [state : {"created", "planned", "done", "failed"}, model : SimModels \cup {0},
          host : SimHosts \cup {"none"}, failure : Reasons, charges : Nat, validated : BOOLEAN,
          reviewDone : BOOLEAN, missed : BOOLEAN, forced : BOOLEAN, redelivered : Nat]

\* What is charged is over; what is over says what became of it.
Told(j, job) ==
    /\ job.charges <= 1
    /\ job.state \in {"created", "planned"} => job.charges = 0 /\ ~job.validated
    /\ job.state = "failed" => job.failure # "none"
    /\ job.state = "done" => /\ job.charges = 1 /\ job.validated
                             /\ j \in NeedsReview => job.reviewDone /\ ~job.forced

ReplayInv ==
    /\ jobs \in [SimJobs -> ReplayedJobs]
    /\ \A j \in SimJobs : Told(j, jobs[j])
    /\ stage = "ended" => \A j \in SimJobs : jobs[j].state # "done" => jobs[j].failure # "none"

\* A step that changes one job, and that to one with an account.
LEMMA OneJobChanges ==
    ASSUME ReplayInv, stage' # "ended", NEW j \in SimJobs, NEW job \in ReplayedJobs, Told(j, job),
           jobs' = [jobs EXCEPT ![j] = job]
    PROVE  ReplayInv'
<1>1. jobs' \in [SimJobs -> ReplayedJobs]
  BY DEF ReplayInv
<1>2. ASSUME NEW i \in SimJobs PROVE Told(i, jobs'[i])
  <2>1. jobs'[i] = IF i = j THEN job ELSE jobs[i]
    BY DEF ReplayInv
  <2> QED BY <2>1 DEF ReplayInv
<1> QED BY <1>1, <1>2 DEF ReplayInv, Told

\* What may become of a job.
LEMMA Outcomes ==
    ASSUME NEW j \in SimJobs, NEW job \in ReplayedJobs, Told(j, job)
    PROVE  /\ \A reason \in Reasons \ {"none"} :
                 [job EXCEPT !.state = "failed", !.failure = reason] \in ReplayedJobs
                 /\ Told(j, [job EXCEPT !.state = "failed", !.failure = reason])
           /\ \A m \in SimModels, h \in SimHosts : job.state = "created" =>
                 [job EXCEPT !.state = "planned", !.model = m, !.host = h] \in ReplayedJobs
                 /\ Told(j, [job EXCEPT !.state = "planned", !.model = m, !.host = h])
           /\ [job EXCEPT !.redelivered = @ + 1] \in ReplayedJobs
              /\ Told(j, [job EXCEPT !.redelivered = @ + 1])
           /\ ~job.reviewDone => [job EXCEPT !.forced = TRUE] \in ReplayedJobs
                                 /\ Told(j, [job EXCEPT !.forced = TRUE])
<1> USE DEF ReplayedJobs, Told, Reasons
<1>1. ASSUME NEW reason \in Reasons \ {"none"}
      PROVE  [job EXCEPT !.state = "failed", !.failure = reason] \in ReplayedJobs
             /\ Told(j, [job EXCEPT !.state = "failed", !.failure = reason])
  <2> SUFFICES ASSUME NEW over, over = [job EXCEPT !.state = "failed", !.failure = reason]
               PROVE  over \in ReplayedJobs /\ Told(j, over)
    OBVIOUS
  <2>1. over \in ReplayedJobs
    OBVIOUS
  <2>2. over.charges = job.charges /\ over.state = "failed" /\ over.failure # "none"
    OBVIOUS
  <2> QED BY <2>1, <2>2
<1>2. ASSUME NEW m \in SimModels, NEW h \in SimHosts, job.state = "created"
      PROVE  [job EXCEPT !.state = "planned", !.model = m, !.host = h] \in ReplayedJobs
             /\ Told(j, [job EXCEPT !.state = "planned", !.model = m, !.host = h])
  BY <1>2
<1>3. [job EXCEPT !.redelivered = @ + 1] \in ReplayedJobs
      /\ Told(j, [job EXCEPT !.redelivered = @ + 1])
  OBVIOUS
<1>4. ASSUME ~job.reviewDone
      PROVE  [job EXCEPT !.forced = TRUE] \in ReplayedJobs /\ Told(j, [job EXCEPT !.forced = TRUE])
  BY <1>4
<1> HIDE DEF ReplayedJobs, Told, Reasons
<1> QED BY <1>1, <1>2, <1>3, <1>4

LEMMA RunOutcomes ==
    ASSUME NEW j \in SimJobs, NEW job \in ReplayedJobs, Told(j, job), job.state = "planned"
    PROVE  /\ \A reason \in Reasons :
                 [job EXCEPT !.failure = reason] \in ReplayedJobs
                 /\ Told(j, [job EXCEPT !.failure = reason])
           /\ \A reason \in Reasons \ {"none"} :
                 LET over == [[job EXCEPT !.state = "failed", !.failure = reason]
                                 EXCEPT !.charges = @ + 1]
                 IN  over \in ReplayedJobs /\ Told(j, over)
           /\ \A reason \in Reasons \ {"none"} :
                 LET over == [[job EXCEPT !.state = "failed", !.failure = reason]
                                 EXCEPT !.charges = @ + 1, !.validated = TRUE, !.missed = TRUE]
                 IN  over \in ReplayedJobs /\ Told(j, over)
           /\ j \notin NeedsReview =>
                 LET over == [job EXCEPT !.charges = @ + 1, !.validated = TRUE, !.state = "done"]
                 IN  over \in ReplayedJobs /\ Told(j, over)
           /\ ~job.forced =>
                 LET over == [job EXCEPT !.charges = @ + 1, !.validated = TRUE,
                                         !.reviewDone = TRUE, !.state = "done"]
                 IN  over \in ReplayedJobs /\ Told(j, over)
<1> USE DEF ReplayedJobs, Told, Reasons
<1>1. ASSUME NEW reason \in Reasons
      PROVE  [job EXCEPT !.failure = reason] \in ReplayedJobs /\ Told(j, [job EXCEPT !.failure = reason])
  OBVIOUS
<1>2. ASSUME NEW reason \in Reasons \ {"none"}
      PROVE  LET over == [[job EXCEPT !.state = "failed", !.failure = reason]
                             EXCEPT !.charges = @ + 1]
             IN  over \in ReplayedJobs /\ Told(j, over)
  <2> DEFINE mid == [job EXCEPT !.state = "failed", !.failure = reason]
  <2>1. /\ mid \in ReplayedJobs /\ mid.state = "failed" /\ mid.failure = reason
        /\ mid.charges = job.charges /\ job.charges = 0
    OBVIOUS
  <2> HIDE DEF mid
  <2>2. ASSUME NEW over, over = [mid EXCEPT !.charges = @ + 1]
        PROVE  over \in ReplayedJobs /\ Told(j, over)
    BY <2>1, <2>2
  <2> QED BY <2>2 DEF mid
<1>3. ASSUME NEW reason \in Reasons \ {"none"}
      PROVE  LET over == [[job EXCEPT !.state = "failed", !.failure = reason]
                             EXCEPT !.charges = @ + 1, !.validated = TRUE, !.missed = TRUE]
             IN  over \in ReplayedJobs /\ Told(j, over)
  <2> DEFINE mid == [job EXCEPT !.state = "failed", !.failure = reason]
  <2>1. /\ mid \in ReplayedJobs /\ mid.state = "failed" /\ mid.failure = reason
        /\ mid.charges = job.charges /\ job.charges = 0
    OBVIOUS
  <2> HIDE DEF mid
  <2>2. ASSUME NEW over, over = [mid EXCEPT !.charges = 1, !.validated = TRUE, !.missed = TRUE]
        PROVE  over \in ReplayedJobs /\ Told(j, over)
    <3>1. over \in ReplayedJobs
      BY <2>1, <2>2
    <3>2. over.charges = 1 /\ over.state = "failed" /\ over.failure # "none"
      BY <2>1, <2>2
    <3> QED BY <3>1, <3>2
  <2>3. mid.charges + 1 = 1
    BY <2>1
  <2> QED BY <2>2, <2>3 DEF mid
<1>4. ASSUME j \notin NeedsReview
      PROVE  LET over == [job EXCEPT !.charges = @ + 1, !.validated = TRUE, !.state = "done"]
             IN  over \in ReplayedJobs /\ Told(j, over)
  <2>1. job.charges = 0 /\ job.charges + 1 = 1
    OBVIOUS
  <2>2. ASSUME NEW over, over = [job EXCEPT !.charges = 1, !.validated = TRUE, !.state = "done"]
        PROVE  over \in ReplayedJobs /\ Told(j, over)
    <3>1. over \in ReplayedJobs
      BY <1>4, <2>2
    <3>2. over.charges = 1 /\ over.state = "done"
      BY <1>4, <2>2
    <3>3. over.validated
      BY <1>4, <2>2
    <3> QED BY <3>1, <3>2, <3>3, <1>4, <2>2
  <2> QED BY <2>1, <2>2
<1>5. ASSUME ~job.forced
      PROVE  LET over == [job EXCEPT !.charges = @ + 1, !.validated = TRUE,
                                     !.reviewDone = TRUE, !.state = "done"]
             IN  over \in ReplayedJobs /\ Told(j, over)
  <2>1. job.charges = 0 /\ job.charges + 1 = 1
    OBVIOUS
  <2>2. ASSUME NEW over, over = [job EXCEPT !.charges = 1, !.validated = TRUE,
                                          !.reviewDone = TRUE, !.state = "done"]
        PROVE  over \in ReplayedJobs /\ Told(j, over)
    <3>1. over \in ReplayedJobs
      BY <1>5, <2>2
    <3>2. over.charges = 1 /\ over.state = "done"
      BY <1>5, <2>2
    <3>3. over.validated
      BY <1>5, <2>2
    <3>4. over.reviewDone
      BY <1>5, <2>2
    <3>5. ~over.forced
      BY <1>5, <2>2
    <3> QED BY <3>1, <3>2, <3>3, <3>4, <3>5, <1>5, <2>2
  <2> QED BY <2>1, <2>2
<1> HIDE DEF ReplayedJobs, Told, Reasons
<1> QED BY <1>1, <1>2, <1>3, <1>4, <1>5

\* A reason given to any job, and what the horizon makes of it.
LEMMA Closings ==
    ASSUME NEW j \in SimJobs, NEW job \in ReplayedJobs, Told(j, job)
    PROVE  /\ [job EXCEPT !.failure = "crash"] \in ReplayedJobs
              /\ Told(j, [job EXCEPT !.failure = "crash"])
           /\ [job EXCEPT !.failure = "censored_at_horizon"] \in ReplayedJobs
              /\ Told(j, [job EXCEPT !.failure = "censored_at_horizon"])
              /\ [job EXCEPT !.failure = "censored_at_horizon"].failure # "none"
           /\ [job EXCEPT !.state = "failed", !.failure = "not_arrived"].failure # "none"
           /\ job.state # "done" /\ job.failure = "none" =>
                 job.state \in {"created", "planned"} /\ ~job.validated
BY DEF ReplayedJobs, Told, Reasons

\* Planning: a failed attempt changes no job unless it is the last.
LEMMA PlanKeeps ==
    ASSUME ReplayInv, NEW j \in SimJobs,
           PlanNoRoute(j) \/ PlanQuotaUnknown(j) \/ PlanRateLimited(j) \/ PlanRouteLost(j)
           \/ PlanJob(j)
    PROVE  ReplayInv'
<1> DEFINE job == jobs[j]
<1>1. stage' = "arrive" /\ job \in ReplayedJobs /\ Told(j, job) /\ job.state = "created" /\ stage = "arrive"
  BY DEF PlanNoRoute, PlanQuotaUnknown, PlanRateLimited, PlanRouteLost, PlanJob, DueJob, ReplayInv
<1>2. ASSUME NEW reason \in Reasons \ {"none"}, Unplanned(j, reason) PROVE ReplayInv'
  <2> DEFINE over == [job EXCEPT !.state = "failed", !.failure = reason]
  <2>1. over \in ReplayedJobs /\ Told(j, over)
    BY <1>1, Outcomes
  <2>2. jobs' = [jobs EXCEPT ![j] = over]
    BY <1>2 DEF Unplanned, ReplayInv
  <2> HIDE DEF over
  <2> QED BY <1>1, <2>1, <2>2, OneJobChanges
<1>3. ASSUME UNCHANGED jobs PROVE ReplayInv'
  BY <1>1, <1>3 DEF ReplayInv, Told
<1>4. CASE PlanJob(j)
  <2>1. PICK m \in SimModels, h \in SimHosts :
           jobs' = [jobs EXCEPT ![j].state = "planned", ![j].model = m, ![j].host = h]
    BY <1>4 DEF PlanJob, Choice, Greedy, QuotaAware, Routable
  <2> DEFINE over == [job EXCEPT !.state = "planned", !.model = m, !.host = h]
  <2>2. over \in ReplayedJobs /\ Told(j, over)
    BY <1>1, Outcomes
  <2>3. jobs' = [jobs EXCEPT ![j] = over]
    BY <2>1 DEF ReplayInv
  <2> HIDE DEF over
  <2> QED BY <1>1, <2>2, <2>3, OneJobChanges
<1>5. CASE PlanNoRoute(j)
  BY <1>2, <1>5 DEF PlanNoRoute, Reasons
<1>6. CASE PlanQuotaUnknown(j)
  BY <1>2, <1>3, <1>6 DEF PlanQuotaUnknown, AttemptFails, Reasons
<1>7. CASE PlanRateLimited(j)
  BY <1>2, <1>3, <1>7 DEF PlanRateLimited, AttemptFails, Reasons
<1>8. CASE PlanRouteLost(j)
  BY <1>2, <1>3, <1>8 DEF PlanRouteLost, AttemptFails, Reasons
<1> QED BY <1>4, <1>5, <1>6, <1>7, <1>8

LEMMA FaultKeeps ==
    ASSUME ReplayInv, NEW j \in SimJobs, DuplicateDelivery(j) \/ MissingHumanReview(j)
    PROVE  ReplayInv'
<1> DEFINE job == jobs[j]
<1>1. stage' = "faults" /\ job \in ReplayedJobs /\ Told(j, job)
  BY DEF DuplicateDelivery, MissingHumanReview, Inject, ReplayInv
<1>2. CASE DuplicateDelivery(j)
  <2> DEFINE over == [job EXCEPT !.redelivered = @ + 1]
  <2>1. over \in ReplayedJobs /\ Told(j, over)
    BY <1>1, Outcomes
  <2>2. jobs' = [jobs EXCEPT ![j] = over]
    BY <1>2 DEF DuplicateDelivery, ReplayInv
  <2> HIDE DEF over
  <2> QED BY <1>1, <2>1, <2>2, OneJobChanges
<1>3. CASE MissingHumanReview(j)
  <2> DEFINE over == [job EXCEPT !.forced = TRUE]
  <2>1. over \in ReplayedJobs /\ Told(j, over)
    BY <1>1, <1>3, Outcomes DEF MissingHumanReview
  <2>2. jobs' = [jobs EXCEPT ![j] = over]
    BY <1>3 DEF MissingHumanReview, ReplayInv
  <2> HIDE DEF over
  <2> QED BY <1>1, <2>1, <2>2, OneJobChanges
<1> QED BY <1>2, <1>3

LEMMA RunKeeps ==
    ASSUME ReplayInv, NEW j \in SimJobs, NEW a, NEW l, NEW wait,
           RunInterrupted(j) \/ RunOnBadHost(j) \/ RunExhausted(j)
           \/ RunInvalid(j, a, l) \/ RunUnreviewed(j, a, l) \/ RunReviewMissed(j, a, l)
           \/ RunReviewed(j, a, l, wait)
    PROVE  ReplayInv'
<1> DEFINE job == jobs[j]
<1>1. stage' = "run" /\ job \in ReplayedJobs /\ Told(j, job) /\ job.state = "planned"
  <2>1. OnTurn(j) /\ stage' = stage
    BY DEF RunInterrupted, RunOnBadHost, RunExhausted, RunInvalid, RunUnreviewed, RunReviewMissed,
           RunReviewed, Execute
  <2> QED BY <2>1 DEF OnTurn, ReplayInv
<1>2. ASSUME NEW over \in ReplayedJobs, Told(j, over), jobs' = [jobs EXCEPT ![j] = over] PROVE ReplayInv'
  <2>1. stage' # "ended"
    BY <1>1
  <2> QED BY <1>2, <2>1, OneJobChanges
<1>3. CASE RunInterrupted(j)
  <2> DEFINE reason == IF \E w \in Runners(j) : ~workers[w].alive THEN "worker_lost"
                       ELSE IF Runners(j) # {} THEN "lease_expired" ELSE job.failure
             over == [job EXCEPT !.failure = reason]
  <2>1. jobs' = [jobs EXCEPT ![j] = over]
    BY <1>3 DEF RunInterrupted, ReplayInv
  <2>2. job.failure \in Reasons
    BY <1>1 DEF ReplayedJobs, Reasons
  <2>3. reason \in Reasons
    BY <2>2 DEF Reasons
  <2> HIDE DEF reason
  <2>4. over \in ReplayedJobs /\ Told(j, over)
    BY <1>1, <2>3, RunOutcomes
  <2> HIDE DEF over
  <2> QED BY <1>2, <2>1, <2>4
<1>4. ASSUME NEW reason \in Reasons \ {"none"}, jobs' = [jobs EXCEPT ![j] = Failed(@, reason)]
      PROVE  ReplayInv'
  <2> DEFINE over == [job EXCEPT !.state = "failed", !.failure = reason]
  <2>1. jobs' = [jobs EXCEPT ![j] = over]
    BY <1>4 DEF Failed
  <2>2. over \in ReplayedJobs /\ Told(j, over)
    BY <1>1, Outcomes
  <2> HIDE DEF over
  <2> QED BY <1>2, <2>1, <2>2
<1>5. CASE RunOnBadHost(j)
  <2>1. HostFailure(job.host) \in Reasons \ {"none"}
    BY <1>5 DEF RunOnBadHost, HostFailure, Reasons
  <2> QED BY <1>4, <1>5, <2>1 DEF RunOnBadHost
<1>6. CASE RunExhausted(j)
  BY <1>4, <1>6 DEF RunExhausted, Reasons
<1>7. CASE RunInvalid(j, a, l)
  <2> DEFINE over == [[job EXCEPT !.state = "failed", !.failure = "artifact_invalid"]
                         EXCEPT !.charges = @ + 1]
  <2>1. jobs' = [jobs EXCEPT ![j] = over]
    BY <1>7 DEF RunInvalid, Failed, ReplayInv
  <2>2. over \in ReplayedJobs /\ Told(j, over)
    BY <1>1, RunOutcomes DEF Reasons
  <2> HIDE DEF over
  <2> QED BY <1>2, <2>1, <2>2
<1>8. CASE RunUnreviewed(j, a, l)
  <2> DEFINE over == [job EXCEPT !.charges = @ + 1, !.validated = TRUE, !.state = "done"]
  <2>1. jobs' = [jobs EXCEPT ![j] = over] /\ j \notin NeedsReview
    BY <1>8 DEF RunUnreviewed, ReplayInv
  <2>2. over \in ReplayedJobs /\ Told(j, over)
    BY <1>1, <2>1, RunOutcomes
  <2> HIDE DEF over
  <2> QED BY <1>2, <2>1, <2>2
<1>9. CASE RunReviewMissed(j, a, l)
  <2> DEFINE over == [[job EXCEPT !.state = "failed", !.failure = "human_review_missed"]
                         EXCEPT !.charges = @ + 1, !.validated = TRUE, !.missed = TRUE]
  <2>1. jobs' = [jobs EXCEPT ![j] = over]
    BY <1>9 DEF RunReviewMissed, Failed, ReplayInv
  <2>2. over \in ReplayedJobs /\ Told(j, over)
    BY <1>1, RunOutcomes DEF Reasons
  <2> HIDE DEF over
  <2> QED BY <1>2, <2>1, <2>2
<1>10. CASE RunReviewed(j, a, l, wait)
  <2> DEFINE over == [job EXCEPT !.charges = @ + 1, !.validated = TRUE,
                                 !.reviewDone = TRUE, !.state = "done"]
  <2>1. jobs' = [jobs EXCEPT ![j] = over] /\ ~job.forced
    BY <1>10 DEF RunReviewed, ReplayInv
  <2>2. over \in ReplayedJobs /\ Told(j, over)
    BY <1>1, <2>1, RunOutcomes
  <2> HIDE DEF over
  <2> QED BY <1>2, <2>1, <2>2
<1> QED BY <1>3, <1>5, <1>6, <1>7, <1>8, <1>9, <1>10

LEMMA CrashKeeps ==
    ASSUME ReplayInv, NEW ws, Crash(ws)
    PROVE  ReplayInv'
<1>1. stage' = "faults"
      /\ jobs' = [j \in SimJobs |->
                    IF \E w \in ws : workers[w].alive /\ workers[w].busy = j
                    THEN [jobs[j] EXCEPT !.failure = "crash"] ELSE jobs[j]]
  BY DEF Crash, Inject
<1>2. ASSUME NEW j \in SimJobs PROVE jobs'[j] \in ReplayedJobs /\ Told(j, jobs'[j])
  <2>1. jobs[j] \in ReplayedJobs /\ Told(j, jobs[j])
    BY DEF ReplayInv
  <2>2. [jobs[j] EXCEPT !.failure = "crash"] \in ReplayedJobs
        /\ Told(j, [jobs[j] EXCEPT !.failure = "crash"])
    BY <2>1, Closings
  <2>3. jobs'[j] = jobs[j] \/ jobs'[j] = [jobs[j] EXCEPT !.failure = "crash"]
    BY <1>1
  <2> QED BY <2>1, <2>2, <2>3
<1>3. jobs' \in [SimJobs -> ReplayedJobs]
  BY <1>1, <1>2
<1> QED BY <1>1, <1>2, <1>3 DEF ReplayInv, Told

\* The horizon gives a reason to every job that is not done.
LEMMA CensorKeeps ==
    ASSUME ReplayInv, Censor
    PROVE  ReplayInv'
<1>1. jobs' = [j \in SimJobs |-> Censored(j)]
  BY DEF Censor
<1>2. ASSUME NEW j \in SimJobs
      PROVE  /\ Censored(j) \in ReplayedJobs /\ Told(j, Censored(j))
             /\ Censored(j).state # "done" => Censored(j).failure # "none"
  <2> DEFINE job == jobs[j]
  <2>1. job \in ReplayedJobs /\ Told(j, job)
    BY DEF ReplayInv
  <2> HIDE DEF job
  <2> DEFINE late == [job EXCEPT !.state = "failed", !.failure = "not_arrived"]
             cut == [job EXCEPT !.failure = "censored_at_horizon"]
  <2>2. late \in ReplayedJobs /\ Told(j, late) /\ late.failure # "none"
    BY <2>1, Outcomes, Closings DEF Reasons
  <2>3. cut \in ReplayedJobs /\ Told(j, cut) /\ cut.failure # "none"
    BY <2>1, Closings
  <2>4. job.state # "done" /\ job.failure = "none" =>
           job.state \in {"created", "planned"} /\ ~job.validated
    BY <2>1, Closings
  <2>5. Censored(j) = IF Arrival[j] > Horizon THEN late
                      ELSE IF /\ job.state \in {"created", "planned"}
                              /\ ~job.validated /\ job.failure = "none"
                           THEN cut ELSE job
    BY DEF Censored, Failed, job
  <2> HIDE DEF late, cut
  <2> QED BY <2>1, <2>2, <2>3, <2>4, <2>5
<1>3. jobs' \in [SimJobs -> ReplayedJobs]
  BY <1>1, <1>2
<1> QED BY <1>1, <1>2, <1>3 DEF ReplayInv, Told

\* EveryJobAccounted for any manifest and any draws.
THEOREM JobsStayAccounted == ReplaySpec => []EveryJobAccounted
<1>1. ReplayInit => ReplayInv
  <2> SUFFICES ASSUME ReplayInit PROVE ReplayInv
    OBVIOUS
  <2>1. jobs = [j \in SimJobs |-> NewJob] /\ stage = "arrive"
    BY DEF ReplayInit
  <2>2. NewJob \in ReplayedJobs
    BY DEF NewJob, ReplayedJobs, Reasons
  <2>3. NewJob.charges = 0 /\ NewJob.state = "created" /\ ~NewJob.validated
    BY DEF NewJob
  <2>4. \A j \in SimJobs : Told(j, NewJob)
    BY <2>3 DEF Told
  <2> QED BY <2>1, <2>2, <2>4 DEF ReplayInv
<1>2. ReplayInv /\ [ReplayNext]_replayVars => ReplayInv'
  <2> SUFFICES ASSUME ReplayInv, [ReplayNext]_replayVars PROVE ReplayInv'
    OBVIOUS
  <2>1. ASSUME UNCHANGED jobs, stage' # "ended" \/ stage' = stage PROVE ReplayInv'
    BY <2>1 DEF ReplayInv, Told
  <2>2. ASSUME NEW j \in SimJobs,
               PlanNoRoute(j) \/ PlanQuotaUnknown(j) \/ PlanRateLimited(j) \/ PlanRouteLost(j)
               \/ PlanJob(j)
        PROVE  ReplayInv'
    BY <2>2, PlanKeeps
  <2>3. ASSUME NEW j \in SimJobs, DuplicateDelivery(j) \/ MissingHumanReview(j) PROVE ReplayInv'
    BY <2>3, FaultKeeps
  <2>4. ASSUME NEW j \in SimJobs, NEW a, NEW l, NEW wait,
               RunInterrupted(j) \/ RunOnBadHost(j) \/ RunExhausted(j)
               \/ RunInvalid(j, a, l) \/ RunUnreviewed(j, a, l) \/ RunReviewMissed(j, a, l)
               \/ RunReviewed(j, a, l, wait)
        PROVE  ReplayInv'
    BY <2>4, RunKeeps
  <2>5. ASSUME NEW h, SshDisconnect(h) \/ MountLoss(h) PROVE ReplayInv'
    BY <2>1, <2>5 DEF SshDisconnect, MountLoss, Inject
  <2>6. ASSUME NEW p, QuotaExhaustion(p) \/ QuotaReset(p) \/ CapabilityRejection(p)
        PROVE  ReplayInv'
    BY <2>1, <2>6 DEF QuotaExhaustion, QuotaReset, CapabilityRejection, Inject
  <2>7. ASSUME NEW ws, Crash(ws) PROVE ReplayInv'
    BY <2>7, CrashKeeps
  <2>8. CASE Arrived \/ BeginTick \/ NextTick
    BY <2>1, <2>8 DEF Arrived, BeginTick, NextTick
  <2>9. CASE Censor
    BY <2>9, CensorKeeps
  <2>10. CASE UNCHANGED replayVars
    BY <2>1, <2>10 DEF replayVars
  <2> QED BY <2>2, <2>3, <2>4, <2>5, <2>6, <2>7, <2>8, <2>9, <2>10 DEF ReplayNext
<1>3. ReplayInv => EveryJobAccounted
  BY DEF ReplayInv, Told, EveryJobAccounted
<1> QED BY <1>1, <1>2, <1>3, PTL DEF ReplaySpec

-----------------------------------------------------------------------------
(* PackageCatalog: the resolver finds what there is *)

\* The catalog is made of manifests that coordinates may have.
CatalogTyped ==
    /\ DOMAIN catalog \subseteq CatalogCoords
    /\ \A c \in DOMAIN catalog : catalog[c] \in Manifests[c]

\* Requirements and manifests ask for packages by their numbers.
Numbered(roots) == \A d \in roots : d.name \in Nat

\* No name is selected in two versions.
OneVersion(selected) == \A c, d \in selected : c[1] = d[1] => c = d

\* The resolutions that extend a selection.
Solutions(selected, roots, optional) ==
    {pins \in SUBSET DOMAIN catalog :
        selected \subseteq pins /\ Closed(pins, roots, optional)}

\* Coordinates are pairs of a positive and a natural number, and there are
\* finitely many of them.
LEMMA CoordinatesAre ==
    ASSUME CatalogTyped
    PROVE  /\ IsFiniteSet(DOMAIN catalog)
           /\ \A c \in DOMAIN catalog : c[1] \in Nat \ {0} /\ c[2] \in Nat
           /\ NoResult \notin SUBSET DOMAIN catalog
<1>1. \A c \in DOMAIN catalog : c[1] \in Nat \ {0} /\ c[2] \in Nat
  BY CatalogAssumption DEF CatalogTyped, CatalogCoords
<1>2. IsFiniteSet(CatalogCoords)
  BY CatalogAssumption, FS_Product DEF CatalogCoords
<1>3. IsFiniteSet(DOMAIN catalog)
  BY <1>2, FS_Subset DEF CatalogTyped
<1>4. <<0, 0>> \notin DOMAIN catalog
  BY <1>1
<1> QED BY <1>1, <1>3, <1>4 DEF NoResult

\* What a selection asks for is asked for by number, and a larger selection
\* asks for no less.
LEMMA DemandsAreNumbered ==
    ASSUME CatalogTyped, NEW roots, Numbered(roots), NEW optional,
           NEW selected \in SUBSET DOMAIN catalog
    PROVE  Numbered(Demanded(selected, roots, optional))
<1>1. \A c \in selected : \A d \in catalog[c] : d.name \in Nat
  BY CatalogAssumption DEF CatalogTyped, CatalogCoords
<1> QED BY <1>1 DEF Numbered, Demanded, Followed

LEMMA DemandsGrow ==
    ASSUME NEW roots, NEW optional, NEW pins, NEW selected \in SUBSET pins
    PROVE  Demanded(selected, roots, optional) \subseteq Demanded(pins, roots, optional)
BY DEF Demanded

\* The lowest of some numbered names is one of them.
LEMMA LowestIsOne ==
    ASSUME NEW names \in SUBSET Nat, names # {}
    PROVE  Lowest(names) \in names
<1>1. \E n \in names : \A m \in names : n <= m
  BY SmallestNumber
<1> QED BY <1>1 DEF Lowest

\* The highest of some coordinates is one of them.
LEMMA HighestIsOne ==
    ASSUME CatalogTyped, NEW coords \in SUBSET DOMAIN catalog, coords # {}
    PROVE  Highest(coords) \in coords
<1> DEFINE versions == {c[2] : c \in coords}
<1>1. \A c \in coords : c[2] \in CatalogVersions
  BY DEF CatalogTyped, CatalogCoords
<1>2. versions \subseteq CatalogVersions /\ versions # {}
  BY <1>1
<1> HIDE DEF versions
<1>3. IsFiniteSet(versions) /\ \A v \in versions : v \in Int
  <2>1. IsFiniteSet(CatalogVersions) /\ CatalogVersions \subseteq Nat
    BY CatalogAssumption
  <2>2. \A v \in versions : v \in Int
    BY <1>2, <2>1
  <2>3. IsFiniteSet(versions)
    BY <1>2, <2>1, FS_Subset
  <2> QED BY <2>2, <2>3
<1>4. \E c \in coords : \A d \in coords : d[2] <= c[2]
  <2>1. PICK v \in versions : \A w \in versions : w <= v
    BY <1>2, <1>3, GreatestOf
  <2> QED BY <2>1 DEF versions
<1> QED BY <1>4 DEF Highest

\* The loop returns with a candidate whose search succeeded, if there is one.
LEMMA ChosenIsGood ==
    ASSUME CatalogTyped, NEW candidates, NEW good \in SUBSET DOMAIN catalog
    PROVE  IF good = {} THEN FirstGood(candidates, good) = {}
           ELSE /\ FirstGood(candidates, good) # {}
                /\ (CHOOSE c \in FirstGood(candidates, good) : TRUE) \in good
<1>1. CASE good = {}
  BY <1>1 DEF FirstGood
<1>2. CASE good # {}
  <2> DEFINE h == Highest(good)
  <2>1. h \in good
    BY <1>2, HighestIsOne
  <2>2. FirstGood(candidates, good) = {h}
    BY <1>2 DEF FirstGood
  <2> HIDE DEF h
  <2>3. (CHOOSE c \in {h} : TRUE) = h
    OBVIOUS
  <2> QED BY <1>2, <2>1, <2>2, <2>3
<1> QED BY <1>1, <1>2

-----------------------------------------------------------------------------
\* A call of _search reads the results of calls with one more selected package.
LEMMA StepLooksAbove ==
    ASSUME CatalogTyped, NEW roots, Numbered(roots), NEW optional,
           NEW s \in SUBSET DOMAIN catalog, NEW f, NEW g,
           \A c \in DOMAIN catalog \ s : f[s \cup {c}] = g[s \cup {c}]
    PROVE  SearchStep(s, f, roots, optional) = SearchStep(s, g, roots, optional)
<1> DEFINE constraints == Demanded(s, roots, optional)
           open == {d.name : d \in constraints} \ {c[1] : c \in s}
           candidates == {c \in DOMAIN catalog : c[1] = Lowest(open) /\ Allows(constraints, c)}
           good(h) == {c \in candidates : h[s \cup {c}] # NoResult}
           chosen(h) == FirstGood(candidates, good(h))
           result(h) == IF \E c \in s : ~Allows(constraints, c) THEN NoResult
                        ELSE IF open = {} THEN IF Ordered(s, optional) THEN s ELSE NoResult
                        ELSE IF candidates = {} \/ chosen(h) = {} THEN NoResult
                        ELSE h[s \cup {CHOOSE c \in chosen(h) : TRUE}]
<1>1. SearchStep(s, f, roots, optional) = result(f) /\ SearchStep(s, g, roots, optional) = result(g)
  BY DEF SearchStep
<1>2. CASE open = {}
  BY <1>1, <1>2
<1>3. CASE open # {}
  <2>1. open \subseteq Nat
    BY DemandsAreNumbered DEF Numbered
  <2>2. Lowest(open) \in open
    <3> HIDE DEF open
    <3> QED BY <1>3, <2>1, LowestIsOne
  <2>3. \A c \in candidates : c \in DOMAIN catalog \ s
    BY <2>2
  <2> HIDE DEF open, candidates
  <2>4. good(f) = good(g)
    BY <2>3
  <2>5. good(f) \in SUBSET DOMAIN catalog /\ good(f) \subseteq candidates
    BY <2>3
  <2>6. CASE chosen(f) = {}
    <3>1. chosen(g) = {}
      BY <2>4, <2>6
    <3> HIDE DEF chosen, constraints
    <3> QED BY <1>1, <1>3, <2>6, <3>1
  <2>7. CASE chosen(f) # {}
    <3> DEFINE c == CHOOSE c \in chosen(f) : TRUE
    <3>1. c \in good(f)
      <4> HIDE DEF good
      <4> QED BY <2>5, <2>7, ChosenIsGood
    <3>2. c \in DOMAIN catalog \ s
      BY <2>3, <2>5, <3>1
    <3>3. chosen(f) = chosen(g) /\ c = CHOOSE d \in chosen(g) : TRUE
      BY <2>4
    <3> HIDE DEF c, chosen
    <3>4. f[s \cup {c}] = g[s \cup {c}]
      BY <3>2
    <3>5. (CHOOSE d \in chosen(f) : TRUE) = c /\ (CHOOSE d \in chosen(g) : TRUE) = c
      BY <3>3 DEF c
    <3> QED BY <1>1, <2>7, <3>3, <3>4, <3>5
  <2> QED BY <2>6, <2>7
<1> QED BY <1>2, <1>3

\* The partial functions that answer every selection with few packages left.
Answered(k) == {s \in SUBSET DOMAIN catalog :
                    Cardinality(s) + k > Cardinality(DOMAIN catalog)}
Answers(f, k, roots, optional) ==
    f = [s \in Answered(k) |-> SearchStep(s, f, roots, optional)]

\* One more package in a selection leaves one less for the calls below.
LEMMA OneMoreSelected ==
    ASSUME CatalogTyped, NEW s \in SUBSET DOMAIN catalog, NEW c \in DOMAIN catalog \ s
    PROVE  /\ s \cup {c} \in SUBSET DOMAIN catalog
           /\ Cardinality(s) \in Nat /\ Cardinality(s \cup {c}) = Cardinality(s) + 1
           /\ Cardinality(s \cup {c}) <= Cardinality(DOMAIN catalog)
           /\ Cardinality(DOMAIN catalog) \in Nat
<1>1. IsFiniteSet(DOMAIN catalog)
  BY CoordinatesAre
<1>2. IsFiniteSet(s) /\ s \cup {c} \subseteq DOMAIN catalog
  BY <1>1, FS_Subset
<1>3. Cardinality(s \cup {c}) = Cardinality(s) + 1
  BY <1>2, FS_AddElement
<1>4. Cardinality(s) \in Nat /\ Cardinality(DOMAIN catalog) \in Nat
  BY <1>1, <1>2, FS_CardinalityType
<1>5. Cardinality(s \cup {c}) <= Cardinality(DOMAIN catalog)
  BY <1>1, <1>2, FS_Subset
<1> QED BY <1>2, <1>3, <1>4, <1>5

\* The search comes to an end: a function that answers every selection exists.
LEMMA SearchIsDefined ==
    ASSUME CatalogTyped, NEW roots, Numbered(roots), NEW optional
    PROVE  \E f : f = [s \in SUBSET DOMAIN catalog |-> SearchStep(s, f, roots, optional)]
<1> DEFINE Has(k) == \E f : Answers(f, k, roots, optional)
           Lacks == {k \in Nat : ~Has(k)}
           N == Cardinality(DOMAIN catalog)
<1>1. N \in Nat /\ \A s \in SUBSET DOMAIN catalog :
                      Cardinality(s) \in Nat /\ Cardinality(s) <= N
  BY CoordinatesAre, FS_Subset, FS_CardinalityType
<1>2. Has(0)
  <2>1. Answered(0) = {}
    BY <1>1 DEF Answered
  <2> DEFINE f == [s \in {} |-> {}]
  <2>2. f = [s \in Answered(0) |-> SearchStep(s, f, roots, optional)]
    BY <2>1
  <2> QED BY <2>2 DEF Answers
<1>3. ASSUME NEW k \in Nat, Has(k) PROVE Has(k + 1)
  <2>1. PICK f : f = [s \in Answered(k) |-> SearchStep(s, f, roots, optional)]
    BY <1>3 DEF Answers
  <2> DEFINE step(s) == SearchStep(s, f, roots, optional)
             g == [s \in Answered(k + 1) |-> step(s)]
  <2>2. Answered(k) \subseteq Answered(k + 1) /\ Answered(k + 1) \subseteq SUBSET DOMAIN catalog
    BY <1>1 DEF Answered
  <2>3. ASSUME NEW s \in Answered(k) PROVE f[s] = g[s]
    BY <2>1, <2>2, <2>3
  <2>4. ASSUME NEW s \in Answered(k + 1), NEW c \in DOMAIN catalog \ s
        PROVE  f[s \cup {c}] = g[s \cup {c}]
    <3>1. s \cup {c} \in Answered(k)
      BY <2>2, OneMoreSelected DEF Answered
    <3> QED BY <2>3, <3>1
  <2> HIDE DEF g
  <2>5. ASSUME NEW s \in Answered(k + 1)
        PROVE  step(s) = SearchStep(s, g, roots, optional)
    BY <2>2, <2>4, StepLooksAbove
  <2>6. g = [s \in Answered(k + 1) |-> SearchStep(s, g, roots, optional)]
    BY <2>5 DEF g
  <2> QED BY <2>6 DEF Answers
<1> HIDE DEF Has
<1>4. Lacks = {}
  <2> SUFFICES ASSUME Lacks # {} PROVE FALSE
    OBVIOUS
  <2>1. PICK k \in Lacks : \A j \in Lacks : k <= j
    <3>1. Lacks \subseteq Nat
      OBVIOUS
    <3> HIDE DEF Lacks
    <3> QED BY <3>1, SmallestNumber
  <2>2. k # 0 /\ k \in Nat /\ ~Has(k)
    BY <1>2, <2>1
  <2>3. k - 1 \in Nat /\ ~(k <= k - 1) /\ (k - 1) + 1 = k
    BY <2>2
  <2>4. Has(k - 1)
    BY <2>1, <2>3
  <2> QED BY <1>3, <2>2, <2>3, <2>4
<1>5. Has(N + 1)
  BY <1>1, <1>4
<1>6. Answered(N + 1) = SUBSET DOMAIN catalog
  BY <1>1 DEF Answered
<1> QED BY <1>5, <1>6 DEF Has, Answers

\* What a call of _search has to return for a selection.
Solved(result, s, roots, optional) ==
    IF result = NoResult THEN Solutions(s, roots, optional) = {}
    ELSE result \in Solutions(s, roots, optional)

\* A conflict with the selection leaves no resolution of it.
LEMMA ConflictEnds ==
    ASSUME NEW roots, NEW optional, NEW s \in SUBSET DOMAIN catalog, NEW c \in s,
           ~Allows(Demanded(s, roots, optional), c)
    PROVE  Solutions(s, roots, optional) = {}
<1> SUFFICES ASSUME NEW pins \in Solutions(s, roots, optional) PROVE FALSE
  OBVIOUS
<1>1. s \subseteq pins /\ Closed(pins, roots, optional)
  BY DEF Solutions
<1>2. PICK d \in Demanded(s, roots, optional) : d.name = c[1] /\ c[2] \notin d.accepts
  BY DEF Allows
<1>3. d \in Demanded(pins, roots, optional)
  BY <1>1, <1>2, DemandsGrow
<1>4. PICK e \in pins : e[1] = d.name /\ e[2] \in d.accepts
  BY <1>1, <1>3 DEF Closed, Demanded
<1>5. e = c
  BY <1>1, <1>2, <1>4 DEF Closed
<1> QED BY <1>2, <1>4, <1>5

\* A selection without a conflict that leaves no name open is a resolution if
\* it has an order, and without one no resolution extends it.
LEMMA NothingOpen ==
    ASSUME NEW roots, NEW optional, NEW s \in SUBSET DOMAIN catalog, OneVersion(s),
           \A c \in s : Allows(Demanded(s, roots, optional), c),
           \A d \in Demanded(s, roots, optional) : \E c \in s : c[1] = d.name
    PROVE  IF Ordered(s, optional) THEN s \in Solutions(s, roots, optional)
           ELSE Solutions(s, roots, optional) = {}
<1>1. CASE Ordered(s, optional)
  <2>1. \A c, d \in s : c[1] = d[1] => c = d
    BY DEF OneVersion
  <2>2. \A d \in Demanded(s, roots, optional) : \E c \in s : c[1] = d.name /\ c[2] \in d.accepts
    BY DEF Allows
  <2>3. \E rank \in [s -> 1..Cardinality(CatalogNames)] : \A c, e \in s :
            (\E d \in Followed(c, optional) : d.name = e[1]) => rank[e] < rank[c]
    BY <1>1 DEF Ordered
  <2>4. Closed(s, roots, optional)
    BY <2>1, <2>2, <2>3 DEF Closed, Demanded
  <2> QED BY <1>1, <2>4 DEF Solutions
<1>2. ASSUME NEW pins \in Solutions(s, roots, optional) PROVE Ordered(s, optional)
  <2>1. s \subseteq pins /\ Closed(pins, roots, optional)
    BY DEF Solutions
  <2>2. PICK rank \in [pins -> 1..Cardinality(CatalogNames)] : \A c, e \in pins :
            (\E d \in Followed(c, optional) : d.name = e[1]) => rank[e] < rank[c]
    BY <2>1 DEF Closed
  <2> DEFINE part == [c \in s |-> rank[c]]
  <2>3. part \in [s -> 1..Cardinality(CatalogNames)] /\ \A c \in s : part[c] = rank[c]
    BY <2>1
  <2> HIDE DEF part
  <2>4. \A c, d \in s : (\E dep \in Followed(c, optional) : dep.name = d[1]) => part[d] < part[c]
    BY <2>1, <2>2, <2>3
  <2> QED BY <2>3, <2>4 DEF Ordered
<1> QED BY <1>1, <1>2

\* A resolution that extends a selection selects an allowed version of every
\* name the selection leaves open: no choice of a name to go on with is wrong.
LEMMA OpenNameIsFilled ==
    ASSUME NEW roots, NEW optional, NEW s \in SUBSET DOMAIN catalog,
           NEW pins \in Solutions(s, roots, optional),
           NEW d \in Demanded(s, roots, optional)
    PROVE  \E c \in DOMAIN catalog :
              /\ c[1] = d.name /\ Allows(Demanded(s, roots, optional), c)
              /\ pins \in Solutions(s \cup {c}, roots, optional)
<1>1. pins \subseteq DOMAIN catalog /\ s \subseteq pins /\ Closed(pins, roots, optional)
  BY DEF Solutions
<1>2. Demanded(s, roots, optional) \subseteq Demanded(pins, roots, optional)
  BY <1>1, DemandsGrow
<1>3. \A e \in Demanded(pins, roots, optional) :
          \E c \in pins : c[1] = e.name /\ c[2] \in e.accepts
  BY <1>1 DEF Closed, Demanded
<1>4. PICK c \in pins : c[1] = d.name
  BY <1>2, <1>3
<1>5. Allows(Demanded(s, roots, optional), c)
  <2> SUFFICES ASSUME NEW e \in Demanded(s, roots, optional), e.name = c[1]
               PROVE  c[2] \in e.accepts
    BY DEF Allows
  <2>1. PICK b \in pins : b[1] = e.name /\ b[2] \in e.accepts
    BY <1>2, <1>3
  <2>2. b = c
    BY <1>1, <2>1 DEF Closed
  <2> QED BY <2>1, <2>2
<1>6. pins \in Solutions(s \cup {c}, roots, optional)
  BY <1>1 DEF Solutions
<1> QED BY <1>1, <1>4, <1>5, <1>6

\* The step of _search is right where the calls it makes are.
LEMMA StepSolves ==
    ASSUME CatalogTyped, NEW roots, Numbered(roots), NEW optional,
           NEW s \in SUBSET DOMAIN catalog, OneVersion(s), NEW f,
           \A c \in DOMAIN catalog \ s :
              OneVersion(s \cup {c}) => Solved(f[s \cup {c}], s \cup {c}, roots, optional)
    PROVE  Solved(SearchStep(s, f, roots, optional), s, roots, optional)
<1> DEFINE constraints == Demanded(s, roots, optional)
           open == {d.name : d \in constraints} \ {c[1] : c \in s}
           candidates == {c \in DOMAIN catalog : c[1] = Lowest(open) /\ Allows(constraints, c)}
           good == {c \in candidates : f[s \cup {c}] # NoResult}
           chosen == FirstGood(candidates, good)
           result == SearchStep(s, f, roots, optional)
<1>1. result = IF \E c \in s : ~Allows(constraints, c) THEN NoResult
               ELSE IF open = {} THEN IF Ordered(s, optional) THEN s ELSE NoResult
               ELSE IF candidates = {} \/ chosen = {} THEN NoResult
               ELSE f[s \cup {CHOOSE c \in chosen : TRUE}]
  BY DEF SearchStep
<1>2. CASE \E c \in s : ~Allows(constraints, c)
  <2>1. Solutions(s, roots, optional) = {}
    BY <1>2, ConflictEnds
  <2> QED BY <1>1, <1>2, <2>1 DEF Solved
<1>3. CASE (\A c \in s : Allows(constraints, c)) /\ open = {}
  <2>1. IF Ordered(s, optional) THEN s \in Solutions(s, roots, optional)
        ELSE Solutions(s, roots, optional) = {}
    <3>1. \A d \in constraints : \E c \in s : c[1] = d.name
      BY <1>3
    <3> QED BY <1>3, <3>1, NothingOpen
  <2>2. s # NoResult
    BY CoordinatesAre
  <2>3. result = IF Ordered(s, optional) THEN s ELSE NoResult
    BY <1>1, <1>3
  <2> HIDE DEF result
  <2>4. Solved(result, s, roots, optional)
    BY <2>1, <2>2, <2>3 DEF Solved
  <2> QED BY <2>4 DEF result
<1>4. CASE (\A c \in s : Allows(constraints, c)) /\ open # {}
  <2>1. Lowest(open) \in open
    <3>1. open \subseteq Nat
      BY DemandsAreNumbered DEF Numbered
    <3> HIDE DEF open
    <3> QED BY <1>4, <3>1, LowestIsOne
  <2>2. PICK d \in constraints : d.name = Lowest(open)
    BY <2>1
  <2>3. ASSUME NEW c \in candidates
        PROVE  c \in DOMAIN catalog \ s /\ OneVersion(s \cup {c})
    <3>1. \A e \in s : e[1] # c[1]
      BY <2>1
    <3> HIDE DEF open
    <3>2. OneVersion(s \cup {c})
      BY <3>1 DEF OneVersion
    <3> QED BY <3>1, <3>2
  <2>4. \A pins \in Solutions(s, roots, optional) :
            \E c \in candidates : pins \in Solutions(s \cup {c}, roots, optional)
    <3> HIDE DEF open
    <3> QED BY <2>2, OpenNameIsFilled
  <2>5. \A c \in candidates :
            Solutions(s \cup {c}, roots, optional) \subseteq Solutions(s, roots, optional)
    BY DEF Solutions
  <2>6. \A c \in candidates : Solved(f[s \cup {c}], s \cup {c}, roots, optional)
    BY <2>3
  <2>7. good \subseteq candidates /\ good \in SUBSET DOMAIN catalog
    OBVIOUS
  <2>8. IF good = {} THEN chosen = {} ELSE chosen # {} /\ (CHOOSE c \in chosen : TRUE) \in good
    <3> HIDE DEF good
    <3> QED BY <2>7, ChosenIsGood
  <2> HIDE DEF open, candidates, chosen, result
  <2>9. CASE good = {}
    <3>1. Solutions(s, roots, optional) = {}
      BY <2>4, <2>6, <2>9 DEF Solved
    <3>2. result = NoResult
      BY <1>1, <1>4, <2>8, <2>9
    <3> QED BY <3>1, <3>2 DEF Solved, result
  <2>10. CASE good # {}
    <3> DEFINE c == CHOOSE c \in chosen : TRUE
    <3>1. c \in candidates /\ f[s \cup {c}] # NoResult
      BY <2>8, <2>10
    <3>2. result = f[s \cup {c}]
      BY <1>1, <1>4, <2>8, <2>10, <3>1
    <3> HIDE DEF c
    <3>3. f[s \cup {c}] \in Solutions(s, roots, optional)
      BY <2>5, <2>6, <3>1 DEF Solved
    <3> QED BY <3>1, <3>2, <3>3 DEF Solved, result
  <2> QED BY <2>9, <2>10
<1> QED BY <1>2, <1>3, <1>4

\* What the search answers is right.
LEMMA SearchSolves ==
    ASSUME CatalogTyped, NEW roots, Numbered(roots), NEW optional
    PROVE  Solved(Search(roots, optional), {}, roots, optional)
<1> DEFINE D == DOMAIN catalog
           found == CHOOSE f : f = [s \in SUBSET D |-> SearchStep(s, f, roots, optional)]
           Right(s) == OneVersion(s) => Solved(found[s], s, roots, optional)
           Bad == {s \in SUBSET D : ~Right(s)}
           left == [s \in SUBSET D |-> Cardinality(D) - Cardinality(s)]
<1>1. Search(roots, optional) = found[{}]
  BY DEF Search
<1>2. found = [s \in SUBSET D |-> SearchStep(s, found, roots, optional)]
  BY SearchIsDefined
<1> HIDE DEF found
<1>3. \A s \in SUBSET D : found[s] = SearchStep(s, found, roots, optional)
  BY <1>2
<1>4. \A s \in SUBSET D :
          /\ Cardinality(s) \in Nat /\ Cardinality(D) \in Nat /\ Cardinality(s) <= Cardinality(D)
          /\ left[s] = Cardinality(D) - Cardinality(s)
          /\ left[s] \in Nat
  BY CoordinatesAre, FS_Subset, FS_CardinalityType
<1> HIDE DEF left
<1>5. ASSUME NEW s \in SUBSET D, \A c \in D \ s : Right(s \cup {c}) PROVE Right(s)
  BY <1>3, <1>5, StepSolves
<1>6. ASSUME NEW s \in SUBSET D, NEW c \in D \ s
      PROVE  s \cup {c} \in SUBSET D /\ left[s \cup {c}] < left[s]
  BY <1>4, OneMoreSelected
<1> HIDE DEF Right
<1>7. Bad = {}
  <2> SUFFICES ASSUME Bad # {} PROVE FALSE
    OBVIOUS
  <2>1. PICK s \in Bad : \A t \in Bad : left[s] <= left[t]
    <3>1. \A s \in Bad : left[s] \in Nat
      BY <1>4
    <3> HIDE DEF Bad
    <3> QED BY <3>1, LeastOf
  <2>2. \A c \in D \ s : s \cup {c} \notin Bad
    <3> SUFFICES ASSUME NEW c \in D \ s PROVE s \cup {c} \notin Bad
      OBVIOUS
    <3>1. s \cup {c} \in SUBSET D /\ left[s \cup {c}] < left[s]
      BY <1>6
    <3>2. left[s] \in Nat /\ left[s \cup {c}] \in Nat
      BY <1>4, <3>1
    <3>3. ~(left[s] <= left[s \cup {c}])
      BY <3>1, <3>2
    <3> QED BY <2>1, <3>3
  <2> QED BY <1>5, <1>6, <2>1, <2>2
<1>8. {} \in SUBSET D /\ OneVersion({})
  BY DEF OneVersion
<1> QED BY <1>1, <1>7, <1>8 DEF Right

\* The invariant of the resolver: its catalog is typed and its lock is right.
CatalogInv == CatalogTyped /\ ResolutionComplete

LEMMA CatalogKeeps ==
    ASSUME CatalogInv, [CatalogNext]_catalogVars
    PROVE  CatalogInv'
<1>1. ASSUME NEW c \in CatalogCoords, NEW deps \in Manifests[c], AddManifest(c, deps)
      PROVE  CatalogInv'
  <2>1. CatalogTyped'
    BY <1>1 DEF AddManifest, CatalogInv, CatalogTyped
  <2>2. lockfile' = NoLockfile
    BY <1>1 DEF AddManifest
  <2> QED BY <2>1, <2>2 DEF CatalogInv, ResolutionComplete
<1>2. ASSUME NEW roots \in RootSets, NEW optional \in BOOLEAN, ResolveToLock(roots, optional)
      PROVE  CatalogInv'
  <2>1. CatalogTyped /\ catalog' = catalog
    BY <1>2 DEF ResolveToLock, CatalogInv
  <2>2. CatalogTyped'
    BY <2>1 DEF CatalogTyped
  <2> DEFINE pins == Search(roots, optional)
  <2>3. lockfile' = [pins |-> pins, roots |-> roots, optional |-> optional]
    BY <1>2 DEF ResolveToLock
  <2>4. Solved(pins, {}, roots, optional)
    <3>1. Numbered(roots)
      BY CatalogAssumption DEF Numbered
    <3> QED BY <2>1, <3>1, SearchSolves
  <2> HIDE DEF pins
  <2>5. Solutions({}, roots, optional) = {p \in SUBSET DOMAIN catalog : Closed(p, roots, optional)}
    BY DEF Solutions
  <2>6. \A p : Closed(p, roots, optional)' <=> Closed(p, roots, optional)
    BY <2>1 DEF Closed, Followed
  <2>7. lockfile'.pins = pins /\ lockfile'.roots = roots /\ lockfile'.optional = optional
    BY <2>3
  <2>8. ResolutionComplete'
    BY <2>1, <2>4, <2>5, <2>6, <2>7 DEF ResolutionComplete, Solved, Closed, Followed
  <2> QED BY <2>2, <2>8 DEF CatalogInv
<1>3. ASSUME UNCHANGED catalogVars PROVE CatalogInv'
  BY <1>3 DEF catalogVars, CatalogInv, CatalogTyped, ResolutionComplete, Closed, Followed
<1> QED BY <1>1, <1>2, <1>3 DEF CatalogNext

\* Whatever manifests are added and whatever is asked for, the resolver finds
\* a closed pin set without a cycle exactly when there is one.
THEOREM ResolverIsComplete == CatalogSpec => []ResolutionComplete
<1>1. CatalogInit => CatalogInv
  BY DEF CatalogInit, CatalogInv, CatalogTyped, ResolutionComplete
<1>2. CatalogInv /\ [CatalogNext]_catalogVars => CatalogInv'
  BY CatalogKeeps
<1>3. CatalogInv => ResolutionComplete
  BY DEF CatalogInv
<1> QED BY <1>1, <1>2, <1>3, PTL DEF CatalogSpec
=============================================================================
