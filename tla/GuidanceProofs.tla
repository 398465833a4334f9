--------------------------- MODULE GuidanceProofs ---------------------------
(***************************************************************************)
(* What is proved of the guidance of a user: how many insights a day brings *)
(* and how often each (module Outreach), and what the rules say of a risk   *)
(* and of a perfect log (module Insights).                                  *)
(***************************************************************************)
EXTENDS Insights, Outreach, Sums

-----------------------------------------------------------------------------
(* What a request selects.                                                  *)

(* The places of a list are finitely many.                                  *)
LEMMA Places ==
    ASSUME NEW n \in Nat
    PROVE  IsFiniteSet(1 .. n)
  BY FS_Interval

(* The image of a finite set is finite, and no larger.                      *)
LEMMA Image ==
    ASSUME NEW S, IsFiniteSet(S), NEW f
    PROVE  /\ IsFiniteSet({f[x] : x \in S})
           /\ Cardinality({f[x] : x \in S}) <= Cardinality(S)
<1> DEFINE g == [x \in S |-> f[x]]
           T == {f[x] : x \in S}
<1>1. g \in Surjection(S, T)
  BY DEF Surjection
<1> QED
  BY <1>1, FS_Surjection

(* A smaller part of a finite set.                                          *)
LEMMA Part ==
    ASSUME NEW S, IsFiniteSet(S), NEW T, T \subseteq S
    PROVE  /\ IsFiniteSet(T) /\ Cardinality(T) \in Nat
           /\ Cardinality(T) <= Cardinality(S)
  BY FS_Subset, FS_CardinalityType

(* An element more, an element less.                                        *)
LEMMA Taken ==
    ASSUME NEW S, IsFiniteSet(S), NEW x
    PROVE  /\ Cardinality(S) \in Nat
           /\ IsFiniteSet(S \cup {x}) /\ Cardinality(S \cup {x}) <= Cardinality(S) + 1
           /\ IsFiniteSet(S \ {x})
           /\ Cardinality(S \ {x}) = Cardinality(S) - (IF x \in S THEN 1 ELSE 0)
  BY FS_CardinalityType, FS_AddElement, FS_RemoveElement

(* The offers a request may be considering.                                 *)
Offers(S) ==
    /\ IsFiniteSet(S)
    /\ \A c \in S : /\ c = [place |-> c.place, fp |-> c.fp]
                    /\ c.place \in Int \X Int /\ c.fp \in Fingerprints
    /\ \A b, c \in S : b.place = c.place => b = c

(* The order of the offers: total, and none comes before itself.            *)
LEMMA RankIsKey ==
    ASSUME NEW c
    PROVE  Key(c) \in Int
<1>1. Rank(c.fp.type) \in Int
  BY DEF Rank
<1>2. InterventionPriority(c.fp.type) \in Int
  BY DEF InterventionPriority
<1> QED
  BY <1>1, <1>2 DEF Key

(* The order is total and strict.                                           *)
LEMMA BeforeOrders ==
    ASSUME NEW S, Offers(S)
    PROVE  /\ \A b \in S : ~ Before(b, b)
           /\ \A b, c \in S : b = c \/ Before(b, c) \/ Before(c, b)
           /\ \A b, c, d \in S : Before(b, c) /\ Before(c, d) => Before(b, d)
<1>1. \A b \in S : Key(b) \in Int /\ b.place[1] \in Int /\ b.place[2] \in Int
  BY RankIsKey DEF Offers
<1>2. \A b, c \in S : b.place[1] = c.place[1] /\ b.place[2] = c.place[2] => b = c
  BY DEF Offers
<1> QED
  BY <1>1, <1>2 DEF Before

(* At most MaxCandidates offers have fewer than that many before them: of    *)
(* these, the one with the most before it has all others before it.         *)
LEMMA SelectedAreFew ==
    ASSUME NEW S, Offers(S)
    PROVE  /\ IsFiniteSet(Selected(S)) /\ Cardinality(Selected(S)) <= MaxCandidates
           /\ \A fp \in Selected(S) : \E c \in S : fp = c.fp
<1> DEFINE above(d) == {b \in S : Before(b, d)}
           T == {d \in S : Cardinality(above(d)) < MaxCandidates}
           n == MaxCandidates
<1>1. n \in Nat \ {0}
  BY OutreachAssumption
<1>2. IsFiniteSet(S)
  BY DEF Offers
<1>3. ASSUME NEW d \in S
      PROVE  IsFiniteSet(above(d)) /\ Cardinality(above(d)) \in Nat
  BY <1>2, Part
<1>4. IsFiniteSet(T) /\ Cardinality(T) <= n
  <2>1. CASE T = {}
    <3> HIDE DEF T, n
    <3> QED
      BY <1>1, <2>1, FS_EmptySet
  <2>2. CASE T # {}
    <3> DEFINE left == {n - Cardinality(above(d)) : d \in T}
    <3>1. left \subseteq Nat /\ left # {}
      <4>1. \A d \in T : n - Cardinality(above(d)) \in Nat
        BY <1>1, <1>3
      <4> HIDE DEF T, n
      <4> QED
        BY <2>2, <4>1
    <3>2. PICK k \in left : \A m \in left : k <= m
      <4> HIDE DEF left
      <4> QED
        BY <3>1, Least
    <3>3. PICK d \in T : k = n - Cardinality(above(d))
      BY <3>2
    <3>4. \A e \in T : Cardinality(above(e)) <= Cardinality(above(d))
      <4>1. \A e \in T : n - Cardinality(above(d)) <= n - Cardinality(above(e))
        BY <3>2, <3>3
      <4>2. \A e \in T : e \in S /\ Cardinality(above(e)) \in Nat
        BY <1>3
      <4> HIDE DEF T, n, above
      <4> QED
        BY <1>1, <4>1, <4>2
    <3>5. ASSUME NEW e \in T, e # d PROVE e \in above(d)
      <4>1. SUFFICES ASSUME Before(d, e) PROVE FALSE
        BY <3>5, BeforeOrders
      <4>2. above(d) \cup {d} \subseteq above(e) /\ d \notin above(d)
        BY <4>1, BeforeOrders
      <4> HIDE DEF above
      <4>3. IsFiniteSet(above(d)) /\ IsFiniteSet(above(e))
        BY <1>3
      <4>4. Cardinality(above(d) \cup {d}) = Cardinality(above(d)) + 1
        BY <4>2, <4>3, FS_AddElement
      <4>5. Cardinality(above(d) \cup {d}) <= Cardinality(above(e))
        BY <4>2, <4>3, Part
      <4> QED
        BY <1>3, <3>4, <4>4, <4>5
    <3>6. T \subseteq above(d) \cup {d}
      BY <3>5
    <3>7. Cardinality(above(d)) < n
      OBVIOUS
    <3> HIDE DEF above, T, n
    <3>8. IsFiniteSet(above(d)) /\ Cardinality(above(d)) \in Nat
      BY <1>3, <3>3 DEF T
    <3>9. /\ IsFiniteSet(above(d) \cup {d})
          /\ Cardinality(above(d) \cup {d}) <= Cardinality(above(d)) + 1
      BY <3>8, Taken
    <3>10. /\ IsFiniteSet(T) /\ Cardinality(T) \in Nat
           /\ Cardinality(T) <= Cardinality(above(d) \cup {d})
      BY <3>6, <3>9, Part
    <3>11. Cardinality(above(d) \cup {d}) \in Nat
      BY <3>9, FS_CardinalityType
    <3> QED
      BY <1>1, <3>7, <3>8, <3>9, <3>10, <3>11
  <2> QED
    BY <2>1, <2>2
<1> DEFINE f == [x \in S |-> x.fp]
<1>5. \A c \in T : c \in S /\ c.fp = f[c]
  OBVIOUS
<1> HIDE DEF f
<1>6. Selected(S) = {f[c] : c \in T}
  BY <1>5 DEF Selected
<1> HIDE DEF T
<1>7. IsFiniteSet(Selected(S)) /\ Cardinality(Selected(S)) <= Cardinality(T)
  BY <1>4, <1>6, Image
<1>8. Cardinality(Selected(S)) \in Nat /\ Cardinality(T) \in Nat
  BY <1>4, <1>7, FS_CardinalityType
<1>9. Cardinality(Selected(S)) <= n
  BY <1>1, <1>4, <1>7, <1>8
<1> QED
  BY <1>7, <1>9 DEF Selected

(* The week in the name of an insight.                                      *)
WeekOf(type) == IF type = "ADAPTATION_OUTCOME" THEN 0 ELSE day \div UserWeek

(* What is due now is named by this week.                                   *)
LEMMA FingerprintIs ==
    ASSUME day \in Nat, NEW type \in NotificationTypes, NEW subject \in Nat
    PROVE  /\ Fingerprint(type, subject) \in Fingerprints
           /\ Fingerprint(type, subject).type = type
           /\ Fingerprint(type, subject).week = WeekOf(type)
<1>1. day \div UserWeek \in Nat
  BY OutreachAssumption
<1> QED
  BY <1>1 DEF Fingerprint, Fingerprints, WeekOf

(* What a request considers: offers that pass.                              *)
LEMMA CandidatesAreOffers ==
    ASSUME day \in Nat, NEW due \in Situations, NEW recent, NEW quiet
    PROVE  /\ Offers(Candidates(due, recent, quiet))
           /\ \A c \in Candidates(due, recent, quiet) :
                 /\ PassesCadence(c.fp, recent, quiet)
                 /\ c.fp.week = WeekOf(c.fp.type)
<1> DEFINE S == Candidates(due, recent, quiet)
           habits == due.habits
           last == Len(habits) + 1
           offers(i) == {Offer(i, n, habits[i][n], i) : n \in DOMAIN habits[i]}
           ends == {Offer(0, 1, "OVERLOAD_DETECTED", 0), Offer(0, 2, "WEEKLY_REVIEW_READY", 0),
                    Offer(last, 1, "ADAPTIVE_PROPOSAL_AVAILABLE", 0),
                    Offer(last, 2, "ADAPTATION_OUTCOME", 0)}
           all == ends \cup UNION {offers(i) : i \in DOMAIN habits}
<1>1. habits \in Seq(Seq(NotificationTypes)) /\ Len(habits) \in Nat /\ DOMAIN habits = 1 .. Len(habits)
  BY OutreachAssumption
<1>2. \A i \in DOMAIN habits :
         /\ i \in Nat /\ i # 0 /\ i # last
         /\ habits[i] \in Seq(NotificationTypes) /\ Len(habits[i]) \in Nat
         /\ DOMAIN habits[i] = 1 .. Len(habits[i])
         /\ \A n \in DOMAIN habits[i] : n \in Nat /\ habits[i][n] \in NotificationTypes
  BY <1>1
<1>3. S \subseteq all /\ \A c \in S : PassesCadence(c.fp, recent, quiet)
  <2> DEFINE single(holds, i, n, type) == IF holds THEN {Offer(i, n, type, 0)} ELSE {}
             first == Passing(single(due.overload, 0, 1, "OVERLOAD_DETECTED") \cup
                              single(UserWeekComplete, 0, 2, "WEEKLY_REVIEW_READY"),
                              recent, quiet)
             scan == ScanHabits(habits, first, recent, quiet)
             rest == Passing(single(due.proposal, last, 1, "ADAPTIVE_PROPOSAL_AVAILABLE") \cup
                             single(due.outcome, last, 2, "ADAPTATION_OUTCOME"),
                             recent, quiet)
  <2>1. S = first \cup scan \cup rest
    BY DEF Candidates
  <2>2. first \subseteq ends /\ \A c \in first : PassesCadence(c.fp, recent, quiet)
    BY DEF Passing
  <2>3. rest \subseteq ends /\ \A c \in rest : PassesCadence(c.fp, recent, quiet)
    BY DEF Passing
  <2>4. /\ scan \subseteq UNION {offers(i) : i \in DOMAIN habits}
        /\ \A c \in scan : PassesCadence(c.fp, recent, quiet)
    <3> DEFINE found(i) ==
                 first \cup Passing(UNION {offers(k) : k \in 1 .. i - 1}, recent, quiet)
               scanned == {i \in DOMAIN habits :
                             Cardinality(found(i)) < MaxCandidates + ScanSlack}
    <3>1. scan = Passing(UNION {offers(i) : i \in scanned}, recent, quiet)
      BY DEF ScanHabits
    <3>2. scanned \subseteq DOMAIN habits
      OBVIOUS
    <3> HIDE DEF scan, scanned, habits, offers
    <3> QED
      BY <3>1, <3>2 DEF Passing
  <2> HIDE DEF S, first, scan, rest, ends, offers, habits
  <2> QED
    BY <2>1, <2>2, <2>3, <2>4
<1>4. IsFiniteSet(all)
  <2>1. ASSUME NEW i \in DOMAIN habits PROVE IsFiniteSet(offers(i))
    <3> DEFINE f == [n \in DOMAIN habits[i] |-> Offer(i, n, habits[i][n], i)]
    <3>1. IsFiniteSet(DOMAIN habits[i])
      <4> HIDE DEF f, offers, habits, ends, all, S
      <4> QED
        BY <1>2, Places
    <3>2. offers(i) = {f[n] : n \in DOMAIN habits[i]}
      OBVIOUS
    <3> HIDE DEF f, offers, habits
    <3> QED
      BY <3>1, <3>2, Image
  <2>2. IsFiniteSet({offers(i) : i \in DOMAIN habits})
    <3> DEFINE f == [i \in DOMAIN habits |-> offers(i)]
    <3>1. IsFiniteSet(DOMAIN habits)
      <4> HIDE DEF f, offers, habits, ends, all, S
      <4> QED
        BY <1>1, Places
    <3>2. {offers(i) : i \in DOMAIN habits} = {f[i] : i \in DOMAIN habits}
      OBVIOUS
    <3> HIDE DEF f, offers, habits
    <3> QED
      BY <3>1, <3>2, Image
  <2>3. IsFiniteSet(UNION {offers(i) : i \in DOMAIN habits})
    <3> HIDE DEF offers, habits
    <3> QED
      BY <2>1, <2>2, FS_UNION
  <2>4. IsFiniteSet(ends)
    <3> DEFINE a == Offer(0, 1, "OVERLOAD_DETECTED", 0)
               b == Offer(0, 2, "WEEKLY_REVIEW_READY", 0)
               c == Offer(last, 1, "ADAPTIVE_PROPOSAL_AVAILABLE", 0)
               d == Offer(last, 2, "ADAPTATION_OUTCOME", 0)
    <3>1. ends = ({a} \cup {b}) \cup ({c} \cup {d})
      OBVIOUS
    <3> HIDE DEF a, b, c, d, ends
    <3>2. IsFiniteSet({a} \cup {b}) /\ IsFiniteSet({c} \cup {d})
      BY FS_Singleton, FS_Union
    <3> QED
      BY <3>1, <3>2, FS_Union
  <2> HIDE DEF ends, offers, habits
  <2> QED
    BY <2>3, <2>4, FS_Union
<1>5. ASSUME NEW c \in all
      PROVE  /\ c = [place |-> c.place, fp |-> c.fp]
             /\ c.place \in Int \X Int /\ c.fp \in Fingerprints
             /\ c.fp.week = WeekOf(c.fp.type)
  <2>1. PICK i \in Int, n \in Int, type \in NotificationTypes, subject \in Nat :
           c = Offer(i, n, type, subject)
    <3>1. CASE c \in ends
      <4>1. last \in Int /\ 0 \in Nat /\ 0 \in Int /\ 1 \in Int /\ 2 \in Int
        BY <1>1
      <4>2. {"OVERLOAD_DETECTED", "WEEKLY_REVIEW_READY", "ADAPTIVE_PROPOSAL_AVAILABLE",
             "ADAPTATION_OUTCOME"} \subseteq NotificationTypes
        BY DEF NotificationTypes
      <4> HIDE DEF last
      <4> QED
        BY <3>1, <4>1, <4>2, Zenon
    <3>2. CASE \E i \in DOMAIN habits : c \in offers(i)
      BY <1>2, <3>2
    <3> QED
      BY <3>1, <3>2
  <2> QED
    BY <2>1, FingerprintIs DEF Offer
<1>6. ASSUME NEW b \in all, NEW c \in all, b.place = c.place PROVE b = c
  <2>1. \A e \in ends : e.place[1] \in {0, last}
    BY DEF Offer
  <2>2. \A i \in DOMAIN habits : \A e \in offers(i) : e.place[1] = i
    BY DEF Offer
  <2>3. CASE b \in ends /\ c \in ends
    <3> DEFINE at(e) == <<e.place[1], e.place[2]>>
    <3>1. last # 0
      BY <1>1
    <3>2. \A e \in ends :
             \/ e = Offer(0, 1, "OVERLOAD_DETECTED", 0) /\ at(e) = <<0, 1>>
             \/ e = Offer(0, 2, "WEEKLY_REVIEW_READY", 0) /\ at(e) = <<0, 2>>
             \/ e = Offer(last, 1, "ADAPTIVE_PROPOSAL_AVAILABLE", 0) /\ at(e) = <<last, 1>>
             \/ e = Offer(last, 2, "ADAPTATION_OUTCOME", 0) /\ at(e) = <<last, 2>>
      BY DEF Offer
    <3>3. at(b) = at(c)
      BY <1>6
    <3> HIDE DEF at, last, ends
    <3> QED
      BY <2>3, <3>1, <3>2, <3>3
  <2>4. CASE \E i, j \in DOMAIN habits : b \in offers(i) /\ c \in offers(j)
    <3>1. PICK i \in DOMAIN habits : b \in offers(i) /\ c \in offers(i)
      BY <1>6, <2>2, <2>4
    <3>2. \A n, m \in DOMAIN habits[i] :
             Offer(i, n, habits[i][n], i).place = Offer(i, m, habits[i][m], i).place => n = m
      BY DEF Offer
    <3> QED
      BY <1>6, <3>1, <3>2
  <2>5. CASE \E i \in DOMAIN habits :
                (b \in offers(i) /\ c \in ends) \/ (c \in offers(i) /\ b \in ends)
    BY <1>2, <1>6, <2>1, <2>2, <2>5
  <2>6. /\ b \in ends \/ \E i \in DOMAIN habits : b \in offers(i)
        /\ c \in ends \/ \E i \in DOMAIN habits : c \in offers(i)
    BY <1>6
  <2> HIDE DEF ends, offers, habits, all
  <2> QED
    BY <2>3, <2>4, <2>5, <2>6
<1> HIDE DEF S, all
<1>7. IsFiniteSet(S)
  BY <1>3, <1>4, FS_Subset
<1> QED
  BY <1>3, <1>5, <1>6, <1>7 DEF Offers, S

-----------------------------------------------------------------------------
(* The rows a user's deliveries leave.                                      *)

(* There are finitely many, one per fingerprint; a dispatcher pushes one    *)
(* reminder at a time.                                                      *)
Rows ==
    /\ IsFiniteSet(deliveries)
    /\ \A a, b \in deliveries : a.fp = b.fp => a = b
    /\ \A c \in Crons : sending[c] = {} \/ \E fp \in Fingerprints : sending[c] = {fp}

OutreachBase == OutreachTypeOK /\ Rows

(* What a request may keep.                                                 *)
LEMMA Kept ==
    ASSUME day \in Nat, NEW r \in Requesters, NEW due \in Situations, NEW recent, NEW quiet
    PROVE  LET batch == Batch(r, Selected(Candidates(due, recent, quiet)))
           IN  /\ IsFiniteSet(batch) /\ Cardinality(batch) \in 0 .. MaxCandidates
               /\ batch \subseteq Fingerprints
               /\ \A fp \in batch :
                     /\ PassesCadence(fp, recent, quiet)
                     /\ fp.week = WeekOf(fp.type)
                     /\ r \in Crons => fp.type = "REENGAGEMENT"
<1> DEFINE S == Candidates(due, recent, quiet)
           found == Selected(S)
           batch == Batch(r, found)
<1>1. /\ Offers(S)
      /\ \A c \in S : /\ PassesCadence(c.fp, recent, quiet)
                      /\ c.fp.week = WeekOf(c.fp.type)
  BY CandidatesAreOffers
<1> HIDE DEF S
<1>2. /\ IsFiniteSet(found) /\ Cardinality(found) <= MaxCandidates
      /\ \A fp \in found : \E c \in S : fp = c.fp
  BY <1>1, SelectedAreFew
<1>3. /\ batch \subseteq found
      /\ r \in Crons => \A fp \in batch : fp.type = "REENGAGEMENT"
  BY DEF Batch
<1>4. \A fp \in batch : fp \in Fingerprints /\ PassesCadence(fp, recent, quiet)
                        /\ fp.week = WeekOf(fp.type)
  BY <1>1, <1>2, <1>3 DEF Offers
<1> HIDE DEF found, batch
<1>5. /\ IsFiniteSet(batch) /\ Cardinality(batch) \in Nat
      /\ Cardinality(batch) <= Cardinality(found)
  BY <1>2, <1>3, Part
<1>6. Cardinality(found) \in Nat /\ MaxCandidates \in Nat
  BY <1>2, FS_CardinalityType, OutreachAssumption
<1>7. Cardinality(batch) \in 0 .. MaxCandidates
  BY <1>2, <1>5, <1>6
<1> QED
  BY <1>3, <1>4, <1>5, <1>7 DEF batch, found, S

(* What markDelivered leaves: at most one row more, of today.               *)
LEMMA Marked ==
    ASSUME OutreachBase, NEW fp \in Fingerprints, NEW stored \in BOOLEAN, NEW logged \in BOOLEAN,
           MarkDelivered(fp, stored, logged)
    PROVE  /\ \/ deliveries' = deliveries
              \/ /\ deliveries' = deliveries \cup {[fp |-> fp, day |-> day]}
                 /\ \A row \in deliveries : row.fp # fp
           /\ stored => \E row \in deliveries' : row.fp = fp
           /\ \/ events' = events
              \/ stored /\ events' = events \cup {[fp |-> fp, type |-> "DELIVERED", at |-> day]}
<1>1. CASE stored
  <2>1. CASE \E row \in deliveries : row.fp = fp
    BY <1>1, <2>1, Zenon DEF MarkDelivered, Record
  <2>2. CASE \A row \in deliveries : row.fp # fp
    <3>1. deliveries' = deliveries \cup {[fp |-> fp, day |-> day]}
      BY <1>1, <2>2, Zenon DEF MarkDelivered
    <3>2. events' = events \/ events' = events \cup {[fp |-> fp, type |-> "DELIVERED", at |-> day]}
      BY Zenon DEF MarkDelivered, Record
    <3>3. [fp |-> fp, day |-> day].fp = fp
      OBVIOUS
    <3> QED
      BY <1>1, <2>2, <3>1, <3>2, <3>3
  <2> QED
    BY <2>1, <2>2
<1>2. CASE ~ stored
  BY <1>2 DEF MarkDelivered
<1> QED
  BY <1>1, <1>2

(* What the next-state relation does, an action at a time.                  *)
LEMMA OutreachStep ==
    ASSUME OutreachBase, [OutreachNext]_outreachVars
    PROVE  \/ \E r \in Requesters : Stop(r)
           \/ \E r \in Requesters, due \in Situations, recent \in Recent, quiet \in BOOLEAN :
                 GetCandidates(r, due, quiet, recent)
           \/ \E p \in Phones, fp \in Fingerprints, stored, logged \in BOOLEAN :
                 Confirm(p, fp, stored, logged)
           \/ \E c \in Crons, fp \in Fingerprints, stored, logged \in BOOLEAN :
                 MarkPushed(c, fp, stored, logged)
           \/ \E c \in Crons, fp \in Fingerprints, accepted \in BOOLEAN : Push(c, fp, accepted)
           \/ \E row \in deliveries, type \in Steps : RecordNotificationInteraction(row, type)
           \/ PruneOldEvents
           \/ \E p \in Preferences : UpdatePreferences(p)
           \/ NextDay
           \/ UNCHANGED outreachVars
<1>1. /\ \A p \in Phones : p \in Requesters /\ held[p] \subseteq Fingerprints
      /\ \A c \in Crons : /\ c \in Requesters /\ held[c] \subseteq Fingerprints
                          /\ sending[c] \subseteq Fingerprints
      /\ \A row \in deliveries : row.fp \in Fingerprints
  BY DEF OutreachBase, OutreachTypeOK, Requesters
<1>2. CASE OutreachNext
  BY <1>1, <1>2 DEF OutreachNext
<1> QED
  BY <1>2

(* Types.                                                                   *)
LEMMA OutreachTypeStep ==
    ASSUME OutreachBase, [OutreachNext]_outreachVars
    PROVE  OutreachTypeOK'
<1> USE DEF OutreachBase, OutreachTypeOK
<1>1. ASSUME NEW r \in Requesters, Stop(r) PROVE OutreachTypeOK'
  <2>1. \A fp \in Fingerprints : Append(unconfirmed, fp) \in Seq(Fingerprints)
    OBVIOUS
  <2>2. unconfirmed' \in Seq(Fingerprints)
    BY <1>1, <2>1 DEF Stop
  <2>3. sending' \in [Crons -> SUBSET Fingerprints] /\ held' \in [Requesters -> SUBSET Fingerprints]
    BY <1>1 DEF Stop
  <2> QED
    BY <1>1, <2>2, <2>3 DEF Stop
<1>2. ASSUME NEW r \in Requesters, NEW due \in Situations, NEW recent \in Recent,
             NEW quiet \in BOOLEAN, GetCandidates(r, due, quiet, recent)
      PROVE  OutreachTypeOK'
  <2>1. Batch(r, Selected(Candidates(due, recent, quiet))) \subseteq Fingerprints
    BY Kept
  <2> QED
    BY <1>2, <2>1 DEF GetCandidates
<1>3. ASSUME NEW fp \in Fingerprints, NEW stored \in BOOLEAN, NEW logged \in BOOLEAN,
             MarkDelivered(fp, stored, logged), day' = day
      PROVE  /\ deliveries' \subseteq [fp : Fingerprints, day : 0 .. day']
             /\ events' \subseteq
                   [fp : Fingerprints, type : Steps \cup {"DELIVERED"}, at : 0 .. day']
  <2>1. /\ [fp |-> fp, day |-> day] \in [fp : Fingerprints, day : 0 .. day]
        /\ [fp |-> fp, type |-> "DELIVERED", at |-> day]
              \in [fp : Fingerprints, type : Steps \cup {"DELIVERED"}, at : 0 .. day]
    OBVIOUS
  <2> QED
    BY <1>3, <2>1, Marked
<1>4. ASSUME NEW p \in Phones, NEW fp \in Fingerprints, NEW stored \in BOOLEAN,
             NEW logged \in BOOLEAN, Confirm(p, fp, stored, logged)
      PROVE  OutreachTypeOK'
  <2>1. held' \in [Requesters -> SUBSET Fingerprints]
    BY <1>4 DEF Confirm
  <2> QED
    BY <1>3, <1>4, <2>1 DEF Confirm
<1>5. ASSUME NEW c \in Crons, NEW fp \in Fingerprints, NEW stored \in BOOLEAN,
             NEW logged \in BOOLEAN, MarkPushed(c, fp, stored, logged)
      PROVE  OutreachTypeOK'
  <2>1. sending' \in [Crons -> SUBSET Fingerprints] /\ unconfirmed' \in Seq(Fingerprints)
    BY <1>5 DEF MarkPushed
  <2> QED
    BY <1>3, <1>5, <2>1 DEF MarkPushed
<1>6. ASSUME NEW c \in Crons, NEW fp \in Fingerprints, NEW accepted \in BOOLEAN,
             Push(c, fp, accepted)
      PROVE  OutreachTypeOK'
  <2>1. held' \in [Requesters -> SUBSET Fingerprints]
    BY <1>6 DEF Push
  <2>2. \/ UNCHANGED <<sending, pushes>>
        \/ /\ sending' = [sending EXCEPT ![c] = {fp}]
           /\ pushes' = Append(pushes, fp)
    BY <1>6, Zenon DEF Push
  <2>3. pushes' \in Seq(Fingerprints)
    <3>1. Append(pushes, fp) \in Seq(Fingerprints)
      OBVIOUS
    <3> QED
      BY <2>2, <3>1
  <2>4. sending' \in [Crons -> SUBSET Fingerprints]
    BY <2>2
  <2> QED
    BY <1>6, <2>1, <2>3, <2>4 DEF Push
<1>7. ASSUME NEW row \in deliveries, NEW type \in Steps,
             RecordNotificationInteraction(row, type)
      PROVE  OutreachTypeOK'
  <2>1. [fp |-> row.fp, type |-> type, at |-> day]
          \in [fp : Fingerprints, type : Steps \cup {"DELIVERED"}, at : 0 .. day]
    OBVIOUS
  <2> QED
    BY <1>7, <2>1 DEF RecordNotificationInteraction, Record
<1>8. CASE PruneOldEvents
  BY <1>8 DEF PruneOldEvents
<1>9. ASSUME NEW p \in Preferences, UpdatePreferences(p) PROVE OutreachTypeOK'
  BY <1>9 DEF UpdatePreferences
<1>10. CASE NextDay
  <2>1. /\ [fp : Fingerprints, day : 0 .. day] \subseteq [fp : Fingerprints, day : 0 .. day + 1]
        /\ [fp : Fingerprints, type : Steps \cup {"DELIVERED"}, at : 0 .. day]
              \subseteq [fp : Fingerprints, type : Steps \cup {"DELIVERED"}, at : 0 .. day + 1]
    OBVIOUS
  <2> QED
    BY <1>10, <2>1 DEF NextDay
<1>11. CASE UNCHANGED outreachVars
  BY <1>11 DEF outreachVars
<1> QED
  BY <1>1, <1>2, <1>4, <1>5, <1>6, <1>7, <1>8, <1>9, <1>10, <1>11, OutreachStep

(* No second row for a fingerprint, no second reminder under way.           *)
LEMMA RowsStep ==
    ASSUME OutreachBase, [OutreachNext]_outreachVars
    PROVE  Rows'
<1> USE DEF OutreachBase, OutreachTypeOK, Rows
<1>1. ASSUME NEW fp \in Fingerprints, NEW stored \in BOOLEAN, NEW logged \in BOOLEAN,
             MarkDelivered(fp, stored, logged)
      PROVE  /\ IsFiniteSet(deliveries')
             /\ \A a, b \in deliveries' : a.fp = b.fp => a = b
  <2>1. IsFiniteSet(deliveries \cup {[fp |-> fp, day |-> day]})
    BY FS_AddElement
  <2>2. \/ deliveries' = deliveries
        \/ /\ deliveries' = deliveries \cup {[fp |-> fp, day |-> day]}
           /\ \A row \in deliveries : row.fp # fp
    BY <1>1, Marked
  <2>3. [fp |-> fp, day |-> day].fp = fp
    OBVIOUS
  <2>4. IsFiniteSet(deliveries) /\ \A a, b \in deliveries : a.fp = b.fp => a = b
    OBVIOUS
  <2> HIDE DEF OutreachBase, OutreachTypeOK, Rows
  <2> QED
    BY <2>1, <2>2, <2>3, <2>4
<1>2. ASSUME NEW r \in Requesters, Stop(r) PROVE Rows'
  BY <1>2 DEF Stop
<1>3. ASSUME NEW p \in Phones, NEW fp \in Fingerprints, NEW stored \in BOOLEAN, NEW logged \in BOOLEAN,
             Confirm(p, fp, stored, logged)
      PROVE  Rows'
  BY <1>1, <1>3 DEF Confirm
<1>4. ASSUME NEW c \in Crons, NEW fp \in Fingerprints, NEW stored \in BOOLEAN, NEW logged \in BOOLEAN,
             MarkPushed(c, fp, stored, logged)
      PROVE  Rows'
  BY <1>1, <1>4 DEF MarkPushed
<1>5. ASSUME NEW c \in Crons, NEW fp \in Fingerprints, NEW accepted, Push(c, fp, accepted)
      PROVE  Rows'
  BY <1>5 DEF Push
<1>6. CASE UNCHANGED <<deliveries, sending>>
  BY <1>6
<1> QED
  BY <1>2, <1>3, <1>4, <1>5, <1>6, OutreachStep
     DEF GetCandidates, RecordNotificationInteraction, PruneOldEvents, UpdatePreferences,
         NextDay, outreachVars

(* Nothing was offered yet.                                                 *)
LEMMA OutreachStarts ==
    ASSUME OutreachInit
    PROVE  OutreachBase
<1>1. OutreachTypeOK
  BY DEF OutreachInit, OutreachTypeOK
<1>2. Rows
  BY FS_EmptySet DEF OutreachInit, Rows
<1> QED
  BY <1>1, <1>2 DEF OutreachBase

(* The state of the outreach always has its type.                           *)
THEOREM OutreachTyped ==
    OutreachSpec => []OutreachTypeOK
<1>1. OutreachBase /\ [OutreachNext]_outreachVars => OutreachBase'
  BY OutreachTypeStep, RowsStep DEF OutreachBase
<1>2. OutreachBase => OutreachTypeOK
  BY DEF OutreachBase
<1> QED
  BY <1>1, <1>2, OutreachStarts, PTL DEF OutreachSpec

-----------------------------------------------------------------------------
(* The funnel.                                                              *)

(* An event is about a delivery that was there before it.                   *)
EventsOnRows ==
    \A e \in events : \E row \in deliveries : row.fp = e.fp /\ row.day <= e.at

(* Step e comes after its predecessor, or that one is past its retention.   *)
Follows(e) ==
    \E row \in deliveries :
        /\ row.fp = e.fp /\ row.day <= e.at
        /\ \/ row.day < day - Retention
           \/ \E before \in events :
                before.fp = e.fp /\ before.at <= e.at /\ before.type = Predecessor(e.type)

FunnelInv == OutreachBase /\ EventsOnRows /\ \A e \in events : e.type \in Steps => Follows(e)

(* The invariant says what the funnel promises.                             *)
LEMMA FunnelFollows ==
    FunnelInv => FunnelOrdered
  BY DEF FunnelInv, FunnelOrdered, Follows, Predecessor

(* A step comes after its predecessor; retention takes the older first.     *)
LEMMA FunnelStep ==
    ASSUME FunnelInv, [OutreachNext]_outreachVars
    PROVE  FunnelInv'
<1>0. OutreachBase /\ OutreachBase'
  BY OutreachTypeStep, RowsStep DEF FunnelInv, OutreachBase
<1>1. /\ day \in Nat /\ Retention \in Nat
      /\ \A row \in deliveries : row.day \in Nat /\ row.day <= day
      /\ \A e \in events : e.at \in Nat /\ e.at <= day
  BY <1>0, OutreachAssumption DEF OutreachBase, OutreachTypeOK
<1>2. EventsOnRows /\ \A e \in events : e.type \in Steps => Follows(e)
  BY DEF FunnelInv
<1> SUFFICES EventsOnRows' /\ \A e \in events' : e.type \in Steps => Follows(e)'
  BY <1>0 DEF FunnelInv
<1>3. ASSUME deliveries \subseteq deliveries', events \subseteq events', day' \in Nat, day <= day'
      PROVE  \A e \in events :
                /\ \E row \in deliveries' : row.fp = e.fp /\ row.day <= e.at
                /\ e.type \in Steps => Follows(e)'
  BY <1>1, <1>2, <1>3 DEF EventsOnRows, Follows
<1>4. ASSUME NEW fp \in Fingerprints, NEW stored \in BOOLEAN, NEW logged \in BOOLEAN,
             MarkDelivered(fp, stored, logged), day' = day
      PROVE  EventsOnRows' /\ \A e \in events' : e.type \in Steps => Follows(e)'
  <2>1. /\ \/ deliveries' = deliveries
           \/ deliveries' = deliveries \cup {[fp |-> fp, day |-> day]}
        /\ stored => \E row \in deliveries' : row.fp = fp
        /\ \/ events' = events
           \/ stored /\ events' = events \cup {[fp |-> fp, type |-> "DELIVERED", at |-> day]}
    BY <1>0, <1>4, Marked
  <2>2. \A row \in deliveries' : row.day <= day
    BY <1>1, <2>1
  <2>3. ASSUME NEW e \in events', e \notin events
        PROVE  /\ \E row \in deliveries' : row.fp = e.fp /\ row.day <= e.at
               /\ e.type \notin Steps
    <3>1. stored /\ e = [fp |-> fp, type |-> "DELIVERED", at |-> day]
      BY <2>1, <2>3
    <3> QED
      BY <2>1, <2>2, <3>1 DEF Steps
  <2>4. deliveries \subseteq deliveries' /\ events \subseteq events'
    BY <2>1
  <2> QED
    BY <1>1, <1>3, <1>4, <2>3, <2>4 DEF EventsOnRows
<1>5. ASSUME NEW row \in deliveries, NEW type \in Steps,
             RecordNotificationInteraction(row, type)
      PROVE  EventsOnRows' /\ \A e \in events' : e.type \in Steps => Follows(e)'
  <2>1. PICK b \in events : b.fp = row.fp /\ b.type = Predecessor(type)
    BY <1>5 DEF RecordNotificationInteraction, Recorded
  <2>2. UNCHANGED <<day, deliveries>>
    BY <1>5 DEF RecordNotificationInteraction
  <2>3. \/ events' = events
        \/ events' = events \cup {[fp |-> row.fp, type |-> type, at |-> day]}
    BY <1>5, Zenon DEF RecordNotificationInteraction, Record
  <2>4. ASSUME NEW e \in events', e \notin events
        PROVE  /\ \E r \in deliveries' : r.fp = e.fp /\ r.day <= e.at
               /\ Follows(e)'
    <3>1. e.fp = row.fp /\ e.type = type /\ e.at = day
      BY <2>3, <2>4
    <3>2. b \in events' /\ b.fp = e.fp /\ b.at <= e.at /\ b.type = Predecessor(e.type)
      BY <1>1, <2>1, <2>3, <3>1
    <3>3. row \in deliveries' /\ row.fp = e.fp /\ row.day <= e.at
      BY <1>1, <2>2, <3>1
    <3> QED
      BY <3>2, <3>3 DEF Follows
  <2> QED
    BY <1>1, <1>3, <2>2, <2>3, <2>4 DEF EventsOnRows
<1>6. CASE PruneOldEvents
  <2>1. UNCHANGED <<day, deliveries>> /\ events' = {e \in events : e.at >= day - Retention}
    BY <1>6 DEF PruneOldEvents
  <2>2. ASSUME NEW e \in events', e.type \in Steps PROVE Follows(e)'
    <3>1. e \in events /\ Follows(e)
      BY <1>2, <2>1, <2>2
    <3>2. PICK row \in deliveries :
             /\ row.fp = e.fp /\ row.day <= e.at
             /\ \/ row.day < day - Retention
                \/ \E before \in events :
                     before.fp = e.fp /\ before.at <= e.at /\ before.type = Predecessor(e.type)
      BY <3>1 DEF Follows
    <3>3. CASE row.day < day - Retention
      BY <2>1, <3>2, <3>3 DEF Follows
    <3>4. ASSUME NEW b \in events,
                 b.fp = e.fp, b.at <= e.at, b.type = Predecessor(e.type)
          PROVE  Follows(e)'
      <4>1. CASE b.at >= day - Retention
        <5>1. b \in events'
          BY <2>1, <4>1
        <5> QED
          BY <2>1, <3>2, <3>4, <5>1 DEF Follows
      <4>2. CASE b.at < day - Retention
        <5>1. PICK r \in deliveries : r.fp = b.fp /\ r.day <= b.at
          BY <1>2 DEF EventsOnRows
        <5>2. r = row
          BY <1>0, <3>2, <3>4, <5>1 DEF OutreachBase, Rows
        <5>3. row.day < day - Retention
          BY <1>1, <4>2, <5>1, <5>2
        <5> QED
          BY <2>1, <3>2, <5>3 DEF Follows
      <4> QED
        BY <1>1, <4>1, <4>2
    <3> QED
      BY <3>2, <3>3, <3>4
  <2> QED
    BY <1>2, <2>1, <2>2 DEF EventsOnRows
<1>7. CASE UNCHANGED <<deliveries, events>> /\ day' \in Nat /\ day <= day'
  BY <1>3, <1>7 DEF EventsOnRows
<1>8. CASE NextDay
  BY <1>1, <1>7, <1>8 DEF NextDay
<1> QED
  BY <1>0, <1>1, <1>4, <1>5, <1>6, <1>7, <1>8, OutreachStep
     DEF Stop, GetCandidates, Confirm, MarkPushed, Push, UpdatePreferences, outreachVars

(* The steps of the funnel follow one another: an interaction is recorded   *)
(* after the one it presupposes, on a delivery that exists, however the      *)
(* requests overlap and whatever retention removes.                         *)
THEOREM FunnelKept ==
    OutreachSpec => []FunnelOrdered
<1>1. OutreachInit => FunnelInv
  BY OutreachStarts DEF FunnelInv, EventsOnRows, OutreachInit
<1>2. FunnelInv /\ [OutreachNext]_outreachVars => FunnelInv'
  BY FunnelStep
<1> QED
  BY <1>1, <1>2, FunnelFollows, PTL DEF OutreachSpec

-----------------------------------------------------------------------------
(* How many insights a day brings.                                          *)

(* A request reads back every delivery of the longest cooldown.             *)
ReadsAll == Cardinality(Cooling) <= Take

(* What a requester has fetched or pushed and not confirmed, and what it    *)
(* may still fetch.                                                         *)
Pending(r) ==
    Cardinality(held[r]) + (IF r \in Crons THEN Cardinality(sending[r]) ELSE 0)
Room == [r \in Requesters |-> MaxCandidates - Pending(r)]

(* What is still to be confirmed counts against the day as if it had been.  *)
DayInv ==
    /\ OutreachBase
    /\ \A r \in Requesters : IsFiniteSet(held[r]) /\ Room[r] \in Nat
    /\ DeliveredOn(day) <= MaxPerDay - 1 + SumOver(Room, Requesters)

(* The sizes of what is being sent.                                         *)
LEMMA AtMostOne ==
    ASSUME NEW T, T = {} \/ \E x : T = {x}
    PROVE  /\ T = {} => Cardinality(T) = 0
           /\ T # {} => Cardinality(T) = 1
           /\ Cardinality(T) \in {0, 1}
<1>1. CASE T = {}
  BY <1>1, FS_EmptySet
<1>2. ASSUME NEW x, T = {x} PROVE Cardinality(T) = 1 /\ T # {}
  BY <1>2, FS_Singleton
<1> QED
  BY <1>1, <1>2

(* A request that passes has read all of today's deliveries.                *)
LEMMA ReadToday ==
    ASSUME OutreachBase, ReadsAll, NEW recent \in Recent
    PROVE  recent = Cooling
<1>1. IsFiniteSet(Cooling)
  BY FS_Subset DEF OutreachBase, Rows, Cooling
<1>2. Cardinality(Cooling) \in Nat /\ Take \in Nat
  BY <1>1, FS_CardinalityType, OutreachAssumption
<1>3. Min({Take, Cardinality(Cooling)}) = Cardinality(Cooling)
  BY <1>2 DEF Min, ReadsAll
<1>4. recent \in SUBSET Cooling /\ Cardinality(recent) = Cardinality(Cooling)
  BY <1>3 DEF Recent, kSubset
<1> QED
  BY <1>1, <1>4, FS_Subset

(* Whatever passes finds today below the cap.                               *)
LEMMA PassesBelowCap ==
    ASSUME OutreachBase, NEW fp, NEW quiet, PassesCadence(fp, Cooling, quiet)
    PROVE  DeliveredOn(day) <= MaxPerDay - 1
<1>1. {row \in Cooling : row.day = day} = {row \in deliveries : row.day = day}
  BY OutreachAssumption DEF Cooling, OutreachBase, OutreachTypeOK
<1>2. DeliveredOn(day) < MaxPerDay
  BY <1>1 DEF PassesCadence, DeliveredOn
<1>3. DeliveredOn(day) \in Nat
  BY Part DEF DeliveredOn, OutreachBase, Rows
<1> QED
  BY <1>2, <1>3, OutreachAssumption

(* The room that is left is a sum of naturals.                              *)
LEMMA RoomType ==
    ASSUME DayInv
    PROVE  /\ IsFiniteSet(Requesters) /\ Summands(Room, Requesters)
           /\ SumOver(Room, Requesters) \in Nat
<1>1. IsFiniteSet(Requesters)
  BY OutreachAssumption DEF Requesters
<1>2. \A r \in Requesters : Room[r] \in Nat
  BY DEF DayInv
<1> HIDE DEF Room
<1> QED
  BY <1>1, <1>2, SumNat DEF Summands

(* What today has, and the room that is left, bound the day.                *)
LEMMA RoomBounds ==
    ASSUME DayInv
    PROVE  DayBound
<1>1. /\ IsFiniteSet(Requesters) /\ Summands(Room, Requesters)
      /\ SumOver(Room, Requesters) \in Nat
  BY RoomType
<1> DEFINE full == [r \in Requesters |-> MaxCandidates]
<1>2. /\ MaxCandidates \in Nat /\ MaxPerDay \in Nat
      /\ \A r \in Requesters : full[r] = MaxCandidates
  BY OutreachAssumption
<1>3. Summands(full, Requesters)
  BY <1>2 DEF Summands
<1>4. \A r \in Requesters : Room[r] <= full[r]
  <2> SUFFICES ASSUME NEW r \in Requesters PROVE Room[r] <= full[r]
    OBVIOUS
  <2>1. IsFiniteSet(held[r])
    BY DEF DayInv
  <2>2. Pending(r) \in Nat
    <3>1. r \in Crons => Cardinality(sending[r]) \in {0, 1}
      BY AtMostOne DEF DayInv, OutreachBase, Rows
    <3> QED
      BY <2>1, <3>1, FS_CardinalityType DEF Pending
  <2> QED
    BY <1>2, <2>2 DEF Room
<1> HIDE DEF full
<1>5. SumOver(Room, Requesters) <= SumOver(full, Requesters)
  BY <1>1, <1>3, <1>4, SumGrows
<1>6. SumOver(full, Requesters) = MaxCandidates * Cardinality(Requesters)
  BY <1>1, <1>2, SumOfSame
<1>7. DeliveredOn(day) \in Nat
  BY Part DEF DeliveredOn, DayInv, OutreachBase, Rows
<1>8. SumOver(full, Requesters) \in Int
  BY <1>1, <1>3, SumType
<1>9. DeliveredOn(day) <= MaxPerDay - 1 + SumOver(full, Requesters)
  BY <1>1, <1>2, <1>5, <1>7, <1>8 DEF DayInv
<1> QED
  BY <1>6, <1>9 DEF DayBound

(* A step of requester r keeps the bound when today gains no more than r    *)
(* gives up.                                                                *)
LEMMA RoomMoves ==
    ASSUME DayInv, OutreachBase', NEW r \in Requesters, day' = day,
           \A s \in Requesters \ {r} : held'[s] = held[s],
           \A c \in Crons \ {r} : sending'[c] = sending[c],
           IsFiniteSet(held'[r]), Room'[r] \in Nat,
           \/ DeliveredOn(day)' + Room[r] <= DeliveredOn(day) + Room'[r]
           \/ DeliveredOn(day)' <= MaxPerDay - 1
    PROVE  DayInv'
<1>1. /\ IsFiniteSet(Requesters) /\ Summands(Room, Requesters)
      /\ SumOver(Room, Requesters) \in Nat /\ Room[r] \in Nat
  BY RoomType DEF DayInv
<1>2. \A s \in Requesters \ {r} : Room'[s] = Room[s] /\ Room[s] \in Nat /\ IsFiniteSet(held'[s])
  BY DEF DayInv, Room, Pending
<1>3. \A s \in Requesters : Room'[s] \in Nat /\ IsFiniteSet(held'[s])
  BY <1>2
<1>4. DeliveredOn(day) \in Nat /\ DeliveredOn(day)' \in Nat
  BY Part DEF DeliveredOn, DayInv, OutreachBase, Rows
<1> DEFINE new == Room'
<1>5. new = Room'
  OBVIOUS
<1> HIDE DEF Room, new
<1>6. Summands(new, Requesters) /\ SumOver(new, Requesters) \in Nat
  BY <1>1, <1>3, <1>5, SumNat DEF Summands
<1>7. SumOver(new, Requesters) = SumOver(Room, Requesters) - Room[r] + new[r]
  BY <1>1, <1>2, <1>5, <1>6, SumChanges
<1>8. new[r] \in Nat /\ MaxPerDay \in Nat
  BY <1>5, OutreachAssumption
<1>9. DeliveredOn(day) <= MaxPerDay - 1 + SumOver(Room, Requesters)
  BY DEF DayInv
<1>10. \/ DeliveredOn(day)' + Room[r] <= DeliveredOn(day) + new[r]
       \/ DeliveredOn(day)' <= MaxPerDay - 1
  BY <1>5
<1>11. DeliveredOn(day)' <= MaxPerDay - 1 + SumOver(new, Requesters)
  <2> DEFINE a == DeliveredOn(day)
             b == DeliveredOn(day)'
             x == SumOver(Room, Requesters)
             y == SumOver(new, Requesters)
  <2>1. /\ a \in Nat /\ b \in Nat /\ x \in Nat /\ y \in Nat /\ y = x - Room[r] + new[r]
        /\ a <= MaxPerDay - 1 + x
        /\ (b + Room[r] <= a + new[r]) \/ b <= MaxPerDay - 1
    BY <1>1, <1>4, <1>6, <1>7, <1>9, <1>10
  <2> HIDE DEF a, b, x, y
  <2>2. b <= MaxPerDay - 1 + y
    BY <1>1, <1>8, <2>1
  <2> QED
    BY <2>2 DEF b, y
<1> QED
  BY <1>3, <1>5, <1>11 DEF DayInv

(* What markDelivered adds to the day.                                      *)
LEMMA MarkedDay ==
    ASSUME OutreachBase, NEW fp \in Fingerprints, NEW stored \in BOOLEAN,
           NEW logged \in BOOLEAN, MarkDelivered(fp, stored, logged), day' = day
    PROVE  /\ DeliveredOn(day)' <= DeliveredOn(day) + 1
           /\ (\E row \in deliveries : row.fp = fp) => DeliveredOn(day)' = DeliveredOn(day)
<1> DEFINE T == {row \in deliveries : row.day = day}
           new == [fp |-> fp, day |-> day]
<1>1. IsFiniteSet(T)
  BY Part DEF OutreachBase, Rows
<1>2. \/ deliveries' = deliveries
      \/ deliveries' = deliveries \cup {new} /\ \A row \in deliveries : row.fp # fp
  BY Marked
<1>3. CASE deliveries' = deliveries
  BY <1>1, <1>3, FS_CardinalityType DEF DeliveredOn
<1>4. CASE deliveries' = deliveries \cup {new} /\ \A row \in deliveries : row.fp # fp
  <2>1. {row \in deliveries' : row.day = day'} = T \cup {new}
    BY <1>4
  <2> HIDE DEF T, new
  <2>2. Cardinality(T \cup {new}) <= Cardinality(T) + 1
    BY <1>1, Taken
  <2>3. DeliveredOn(day)' = Cardinality(T \cup {new}) /\ DeliveredOn(day) = Cardinality(T)
    BY <2>1 DEF DeliveredOn, T
  <2> QED
    BY <1>4, <2>2, <2>3
<1> QED
  BY <1>2, <1>3, <1>4

(* Every step pays for the row it adds with room of its requester.          *)
LEMMA DayStep ==
    ASSUME DayInv, ReadsAll, [OutreachNext]_outreachVars
    PROVE  DayInv'
<1>0. OutreachBase /\ OutreachBase'
  BY OutreachTypeStep, RowsStep DEF DayInv, OutreachBase
<1>1. /\ day \in Nat /\ MaxCandidates \in Nat /\ MaxPerDay \in Nat \ {0}
      /\ DOMAIN held = Requesters /\ DOMAIN sending = Crons
      /\ Crons \subseteq Requesters /\ Phones \subseteq Requesters /\ Phones \cap Crons = {}
  BY <1>0, OutreachAssumption DEF OutreachBase, OutreachTypeOK, Requesters
<1>2. \A r \in Requesters :
         IsFiniteSet(held[r]) /\ Cardinality(held[r]) \in Nat /\ Room[r] \in Nat
  BY FS_CardinalityType DEF DayInv
<1>3. \A c \in Crons :
         /\ sending[c] = {} => Cardinality(sending[c]) = 0
         /\ sending[c] # {} => Cardinality(sending[c]) = 1
         /\ Cardinality(sending[c]) \in {0, 1}
  BY <1>0, AtMostOne DEF OutreachBase, Rows
<1>a. \A r \in Requesters \ Crons :
         /\ Room[r] = MaxCandidates - (Cardinality(held[r]) + 0)
         /\ Room'[r] = MaxCandidates - (Cardinality(held'[r]) + 0)
  BY DEF Room, Pending
<1>b. \A c \in Crons :
         /\ Room[c] = MaxCandidates - (Cardinality(held[c]) + Cardinality(sending[c]))
         /\ Room'[c] = MaxCandidates - (Cardinality(held'[c]) + Cardinality(sending'[c]))
  BY <1>1 DEF Room, Pending
<1> HIDE DEF Room
<1>4. DeliveredOn(day) \in Nat /\ DeliveredOn(day)' \in Nat
  BY <1>0, Part DEF DeliveredOn, OutreachBase, Rows
<1>5. Cardinality({}) = 0 /\ IsFiniteSet({}) /\ \A x : Cardinality({x}) = 1
  BY FS_EmptySet, FS_Singleton
<1>6. ASSUME NEW r \in Requesters, Stop(r) PROVE DayInv'
  <2>1. /\ day' = day /\ held'[r] = {} /\ (r \in Crons => sending'[r] = {})
        /\ \A s \in Requesters \ {r} : held'[s] = held[s]
        /\ \A c \in Crons \ {r} : sending'[c] = sending[c]
    BY <1>1, <1>6 DEF Stop
  <2>2. DeliveredOn(day)' = DeliveredOn(day)
    BY <1>6 DEF Stop, DeliveredOn
  <2>a. /\ IsFiniteSet(held'[r]) /\ Cardinality(held'[r]) = 0
        /\ r \in Crons => Cardinality(sending'[r]) = 0
    BY <1>5, <2>1, Zenon
  <2>3. Room'[r] = MaxCandidates
    BY <1>1, <1>a, <1>b, <2>a
  <2>4. Room[r] <= MaxCandidates /\ Room[r] \in Nat
    BY <1>1, <1>2, <1>3, <1>a, <1>b
  <2>5. Room'[r] \in Nat /\ DeliveredOn(day)' + Room[r] <= DeliveredOn(day) + Room'[r]
    BY <1>1, <1>4, <2>2, <2>3, <2>4
  <2> QED
    BY <1>0, <2>1, <2>5, <2>a, RoomMoves
<1>7. ASSUME NEW r \in Requesters, NEW due \in Situations, NEW recent \in Recent,
             NEW quiet \in BOOLEAN, GetCandidates(r, due, quiet, recent)
      PROVE  DayInv'
  <2> DEFINE batch == Batch(r, Selected(Candidates(due, recent, quiet)))
  <2>1. /\ IsFiniteSet(batch) /\ Cardinality(batch) \in 0 .. MaxCandidates
        /\ \A fp \in batch : PassesCadence(fp, recent, quiet)
    BY <1>1, Kept
  <2>2. /\ day' = day /\ held'[r] = batch /\ sending' = sending
        /\ r \in Crons => sending[r] = {}
        /\ \A s \in Requesters \ {r} : held'[s] = held[s]
    BY <1>1, <1>7 DEF GetCandidates
  <2>3. DeliveredOn(day)' = DeliveredOn(day)
    BY <1>7 DEF GetCandidates, DeliveredOn
  <2> HIDE DEF batch
  <2>4. Room'[r] = MaxCandidates - Cardinality(batch) /\ Room'[r] \in Nat
    BY <1>1, <1>3, <1>a, <1>b, <2>1, <2>2
  <2>5. CASE batch = {}
    <3>1. Room[r] <= MaxCandidates /\ Room[r] \in Nat
      BY <1>1, <1>2, <1>3, <1>a, <1>b
    <3>2. Room'[r] = MaxCandidates
      BY <1>1, <1>5, <2>4, <2>5
    <3> QED
      BY <1>0, <1>1, <1>4, <2>1, <2>2, <2>3, <2>4, <3>1, <3>2, RoomMoves
  <2>6. CASE batch # {}
    <3>1. DeliveredOn(day) <= MaxPerDay - 1
      BY <1>0, <2>1, <2>6, ReadToday, PassesBelowCap
    <3> QED
      BY <1>0, <2>1, <2>2, <2>3, <2>4, <3>1, RoomMoves
  <2> QED
    BY <2>5, <2>6
<1>8. ASSUME NEW p \in Phones, NEW fp \in Fingerprints, NEW stored \in BOOLEAN,
             NEW logged \in BOOLEAN, Confirm(p, fp, stored, logged)
      PROVE  DayInv'
  <2>1. /\ day' = day /\ sending' = sending /\ held'[p] = held[p] \ {fp}
        /\ \A s \in Requesters \ {p} : held'[s] = held[s]
        /\ MarkDelivered(fp, stored, logged)
        /\ fp \in held[p] \/ \E row \in deliveries : row.fp = fp
    BY <1>1, <1>8 DEF Confirm
  <2>2. /\ DeliveredOn(day)' <= DeliveredOn(day) + 1
        /\ fp \notin held[p] => DeliveredOn(day)' = DeliveredOn(day)
    BY <1>0, <2>1, MarkedDay
  <2>3. p \in Requesters /\ p \notin Crons
    BY <1>1
  <2>4. /\ IsFiniteSet(held[p] \ {fp})
        /\ Cardinality(held[p] \ {fp}) =
              Cardinality(held[p]) - (IF fp \in held[p] THEN 1 ELSE 0)
    BY <1>2, <2>3, Taken
  <2>a. IsFiniteSet(held'[p]) /\ Cardinality(held'[p]) = Cardinality(held[p] \ {fp})
    BY <2>1, <2>4
  <2>5. Room'[p] = Room[p] + (IF fp \in held[p] THEN 1 ELSE 0) /\ Room[p] \in Nat
    BY <1>1, <1>2, <1>a, <2>3, <2>4, <2>a
  <2>6. Room'[p] \in Nat
    BY <2>5
  <2>7. DeliveredOn(day)' + Room[p] <= DeliveredOn(day) + Room'[p]
    BY <1>4, <2>2, <2>5
  <2> QED
    BY <1>0, <2>1, <2>3, <2>a, <2>6, <2>7, RoomMoves
<1>9. ASSUME NEW c \in Crons, NEW fp \in Fingerprints, NEW stored \in BOOLEAN,
             NEW logged \in BOOLEAN, MarkPushed(c, fp, stored, logged)
      PROVE  DayInv'
  <2>1. /\ day' = day /\ held' = held /\ sending[c] # {} /\ sending'[c] = {}
        /\ \A d \in Crons \ {c} : sending'[d] = sending[d]
        /\ MarkDelivered(fp, stored, logged)
    BY <1>1, <1>9 DEF MarkPushed
  <2>2. DeliveredOn(day)' <= DeliveredOn(day) + 1
    BY <1>0, <2>1, MarkedDay
  <2>3. c \in Requesters /\ IsFiniteSet(held'[c])
    BY <1>1, <1>2, <2>1
  <2>a. /\ Cardinality(sending[c]) = 1 /\ Cardinality(sending'[c]) = 0
        /\ Cardinality(held'[c]) = Cardinality(held[c])
    BY <1>3, <1>5, <2>1, Zenon
  <2>4. Room'[c] = Room[c] + 1 /\ Room[c] \in Nat
    BY <1>1, <1>2, <1>b, <2>3, <2>a
  <2>5. Room'[c] \in Nat /\ DeliveredOn(day)' + Room[c] <= DeliveredOn(day) + Room'[c]
    BY <1>4, <2>2, <2>4
  <2> QED
    BY <1>0, <2>1, <2>3, <2>5, RoomMoves
<1>10. ASSUME NEW c \in Crons, NEW fp \in Fingerprints, NEW accepted \in BOOLEAN,
              Push(c, fp, accepted)
       PROVE  DayInv'
  <2>1. /\ day' = day /\ fp \in held[c] /\ held'[c] = held[c] \ {fp} /\ sending[c] = {}
        /\ \A s \in Requesters \ {c} : held'[s] = held[s]
    BY <1>1, <1>10 DEF Push
  <2>2. sending' = sending \/ sending' = [sending EXCEPT ![c] = {fp}]
    BY <1>10, Zenon DEF Push
  <2>3. /\ \A d \in Crons \ {c} : sending'[d] = sending[d]
        /\ Cardinality(sending'[c]) \in {0, 1}
    BY <1>1, <1>3, <1>5, <2>2
  <2>4. /\ IsFiniteSet(held'[c]) /\ Cardinality(held'[c]) = Cardinality(held[c]) - 1
        /\ c \in Requesters
    BY <1>1, <1>2, <2>1, Taken
  <2>a. Cardinality(sending[c]) = 0
    BY <1>3, <2>1, Zenon
  <2>5. Room'[c] \in {Room[c], Room[c] + 1} /\ Room[c] \in Nat
    BY <1>1, <1>2, <1>b, <2>3, <2>4, <2>a
  <2>6. DeliveredOn(day)' = DeliveredOn(day)
    BY <1>10 DEF Push, DeliveredOn
  <2>7. Room'[c] \in Nat /\ DeliveredOn(day)' + Room[c] <= DeliveredOn(day) + Room'[c]
    BY <1>4, <2>5, <2>6
  <2> QED
    BY <1>0, <2>1, <2>3, <2>4, <2>7, RoomMoves
<1>11. CASE UNCHANGED <<day, deliveries, held, sending>>
  BY <1>0, <1>11 DEF DayInv, Room, Pending, DeliveredOn
<1>12. CASE NextDay
  <2>1. UNCHANGED <<deliveries, held, sending>> /\ day' = day + 1
    BY <1>12 DEF NextDay
  <2>2. {row \in deliveries' : row.day = day'} = {}
    BY <1>0, <1>1, <2>1 DEF OutreachBase, OutreachTypeOK
  <2>3. DeliveredOn(day)' = 0
    BY <1>5, <2>2 DEF DeliveredOn
  <2>4. Room' = Room
    BY <2>1 DEF Room, Pending
  <2>5. SumOver(Room, Requesters) \in Nat
    BY RoomType
  <2>6. \A r \in Requesters : IsFiniteSet(held'[r]) /\ Room'[r] \in Nat
    BY <1>2, <2>1, <2>4
  <2>7. DeliveredOn(day)' <= MaxPerDay - 1 + SumOver(Room', Requesters)
    BY <1>1, <2>3, <2>4, <2>5
  <2> QED
    BY <1>0, <2>6, <2>7 DEF DayInv
<1> QED
  BY <1>6, <1>7, <1>8, <1>9, <1>10, <1>11, <1>12, OutreachStep, <1>0
     DEF RecordNotificationInteraction, PruneOldEvents, UpdatePreferences, outreachVars

(* Before the first day all room is left.                                   *)
LEMMA DayStarts ==
    ASSUME OutreachInit
    PROVE  DayInv
<1>1. OutreachBase
  BY OutreachStarts
<1>2. /\ MaxCandidates \in Nat /\ MaxPerDay \in Nat \ {0} /\ IsFiniteSet(Requesters)
      /\ Crons \subseteq Requesters
  BY OutreachAssumption DEF Requesters
<1>3. Cardinality({}) = 0 /\ IsFiniteSet({})
  BY FS_EmptySet
<1>4. \A r \in Requesters : IsFiniteSet(held[r]) /\ Room[r] = MaxCandidates
  BY <1>2, <1>3 DEF OutreachInit, Room, Pending
<1>5. DeliveredOn(day) = 0
  <2>1. {row \in deliveries : row.day = day} = {}
    BY DEF OutreachInit
  <2> QED
    BY <1>3, <2>1 DEF DeliveredOn
<1> HIDE DEF Room
<1>6. SumOver(Room, Requesters) \in Nat
  BY <1>2, <1>4, SumNat
<1> QED
  BY <1>1, <1>2, <1>4, <1>5, <1>6 DEF DayInv

(* While a request reads back all deliveries of the longest cooldown, a day *)
(* sees fewer than MaxPerDay of them and one batch of every requester on    *)
(* top, however the requests, the confirmations and the pushes interleave.  *)
THEOREM DayBounded ==
    OutreachSpec /\ []ReadsAll => []DayBound
<1>1. DayInv /\ ReadsAll /\ [OutreachNext]_outreachVars => DayInv'
  BY DayStep
<1>2. OutreachInit => DayInv
  BY DayStarts
<1>3. DayInv => DayBound
  BY RoomBounds
<1> QED
  BY <1>1, <1>2, <1>3, PTL DEF OutreachSpec

-----------------------------------------------------------------------------
(* How often a reminder is pushed.                                          *)

(* Weeks in the order of their days.                                        *)
LEMMA WeeksInOrder ==
    ASSUME NEW a \in Nat, NEW b \in Nat
    PROVE  /\ a \div UserWeek \in Nat
           /\ a <= b => a \div UserWeek <= b \div UserWeek
           /\ a \div UserWeek <= b \div UserWeek => a - UserWeek < b
<1> DEFINE U == UserWeek
<1>1. U \in Nat \ {0}
  BY OutreachAssumption
<1>2. ASSUME NEW x \in Nat
      PROVE  /\ x \div U \in Nat
             /\ U * (x \div U) <= x
             /\ x < U * (x \div U) + U
  BY <1>1
<1> HIDE DEF U
<1> DEFINE q == a \div U
           r == b \div U
<1>3. /\ q \in Nat /\ U * q <= a /\ a < U * q + U
      /\ r \in Nat /\ U * r <= b /\ b < U * r + U
  BY <1>2
<1> HIDE DEF q, r
<1>4. q <= r => U * q <= U * r
  BY <1>1, <1>3
<1>5. ASSUME a <= b, r < q PROVE FALSE
  <2>1. r + 1 <= q
    BY <1>3, <1>5
  <2>2. U * (r + 1) <= U * q
    BY <1>1, <1>3, <2>1
  <2>3. U * (r + 1) = U * r + U
    BY <1>1, <1>3
  <2>4. U * r \in Nat /\ U * q \in Nat
    BY <1>1, <1>3
  <2> QED
    BY <1>1, <1>3, <1>5, <2>2, <2>3, <2>4
<1>6. U * r \in Nat /\ U * q \in Nat
  BY <1>1, <1>3
<1>7. q <= r => a - U < b
  BY <1>1, <1>3, <1>4, <1>6
<1> QED
  BY <1>3, <1>5, <1>7 DEF q, r, U

(* One more in a sequence.                                                  *)
LEMMA CountGrows ==
    ASSUME NEW S, NEW s \in Seq(S), NEW x \in S, NEW y
    PROVE  /\ CountOf(s, y) \in Nat
           /\ CountOf(Append(s, x), y) = CountOf(s, y) + (IF x = y THEN 1 ELSE 0)
<1> DEFINE T == {i \in DOMAIN s : s[i] = y}
           n == Len(s) + 1
<1>1. /\ Len(s) \in Nat /\ DOMAIN s = 1 .. Len(s)
      /\ DOMAIN Append(s, x) = DOMAIN s \cup {n} /\ n \notin DOMAIN s
      /\ Append(s, x)[n] = x /\ \A i \in DOMAIN s : Append(s, x)[i] = s[i]
  OBVIOUS
<1>2. IsFiniteSet(T) /\ Cardinality(T) \in Nat
  <2>1. IsFiniteSet(DOMAIN s)
    BY <1>1, FS_Interval
  <2> QED
    BY <2>1, Part
<1>3. {i \in DOMAIN Append(s, x) : Append(s, x)[i] = y} = IF x = y THEN T \cup {n} ELSE T
  BY <1>1
<1>4. n \notin T
  BY <1>1
<1> HIDE DEF T, n
<1>5. Cardinality(T \cup {n}) = Cardinality(T) + 1
  BY <1>2, <1>4, FS_AddElement
<1>6. CountOf(s, y) = Cardinality(T)
  BY DEF CountOf, T
<1>7. CountOf(Append(s, x), y) = IF x = y THEN Cardinality(T \cup {n}) ELSE Cardinality(T)
  BY <1>3 DEF CountOf
<1> QED
  BY <1>2, <1>5, <1>6, <1>7

Delivered(fp) == \E row \in deliveries : row.fp = fp

(* Nothing is held, pushed or stored before its week.                       *)
Weeks ==
    /\ \A r \in Requesters : \A fp \in held[r] : fp.week <= day \div UserWeek
    /\ \A c \in Crons : \A fp \in sending[c] : fp.week <= day \div UserWeek
    /\ \A row \in deliveries : row.fp.week <= row.day \div UserWeek

(* Every push of fp so far was lost.                                        *)
AllLost(fp) == CountOf(pushes, fp) <= CountOf(unconfirmed, fp)

(* Beyond the lost pushes there is at most one, and that one has left a row *)
(* or is about to; a reminder is held to be pushed only if there is none.   *)
PushInv ==
    /\ OutreachBase /\ Weeks
    /\ \A fp \in Fingerprints :
          \/ AllLost(fp)
          \/ /\ CountOf(pushes, fp) <= 1 + CountOf(unconfirmed, fp)
             /\ Delivered(fp) \/ \E c \in Crons : fp \in sending[c]
    /\ \A c \in Crons : \A fp \in held[c] : AllLost(fp) /\ fp \notin sending[c]

(* What a dispatch fetches has left no row.                                 *)
LEMMA FetchedIsNew ==
    ASSUME OutreachBase, Weeks, ReadsAll, NEW fp, NEW recent \in Recent, NEW quiet,
           PassesCadence(fp, recent, quiet), fp.week = day \div UserWeek
    PROVE  ~ Delivered(fp)
<1>1. recent = Cooling
  BY ReadToday
<1>2. \A row \in Cooling : row.fp # fp
  BY <1>1 DEF PassesCadence
<1>3. SUFFICES ASSUME NEW row \in deliveries, row.fp = fp PROVE row \in Cooling
  BY <1>2 DEF Delivered
<1>4. row.day \in Nat /\ day \in Nat
  BY DEF OutreachBase, OutreachTypeOK
<1>5. day \div UserWeek <= row.day \div UserWeek
  BY <1>3 DEF Weeks
<1>6. day - UserWeek < row.day
  BY <1>4, <1>5, WeeksInOrder
<1>7. UserWeek <= Cooldown + 1 /\ UserWeek \in Nat /\ Cooldown \in Nat
  BY OutreachAssumption
<1> QED
  BY <1>4, <1>6, <1>7 DEF Cooling

(* Weeks pass; what is delivered stays delivered.                           *)
LEMMA WeeksStep ==
    ASSUME OutreachBase, OutreachBase', Weeks, [OutreachNext]_outreachVars
    PROVE  Weeks' /\ \A fp : Delivered(fp) => Delivered(fp)'
<1>1. /\ day \in Nat /\ day' \in Nat /\ UserWeek \in Nat
      /\ held \in [Requesters -> SUBSET Fingerprints] /\ Crons \subseteq Requesters
      /\ sending \in [Crons -> SUBSET Fingerprints]
      /\ \A fp \in Fingerprints : fp.week \in Nat
  BY OutreachAssumption DEF OutreachBase, OutreachTypeOK, Requesters, Fingerprints
<1>2. ASSUME NEW fp \in Fingerprints, NEW stored \in BOOLEAN, NEW logged \in BOOLEAN,
             MarkDelivered(fp, stored, logged), Delivered(fp) \/ fp.week <= day \div UserWeek
      PROVE  /\ deliveries \subseteq deliveries'
             /\ \A row \in deliveries' : row.fp.week <= row.day \div UserWeek
  <2>1. \/ deliveries' = deliveries
        \/ /\ deliveries' = deliveries \cup {[fp |-> fp, day |-> day]}
           /\ \A row \in deliveries : row.fp # fp
    BY <1>2, Marked
  <2> QED
    BY <1>2, <2>1 DEF Delivered, Weeks
<1>3. ASSUME NEW p \in Phones, NEW fp \in Fingerprints, NEW stored \in BOOLEAN, NEW logged \in BOOLEAN,
             Confirm(p, fp, stored, logged)
      PROVE  Weeks' /\ deliveries \subseteq deliveries'
  <2>1. p \in Requesters
    BY DEF Requesters
  <2>2. /\ MarkDelivered(fp, stored, logged) /\ UNCHANGED <<day, sending>>
        /\ held' = [held EXCEPT ![p] = @ \ {fp}]
        /\ fp \in held[p] \/ Delivered(fp)
    BY <1>3 DEF Confirm, Delivered
  <2>3. Delivered(fp) \/ fp.week <= day \div UserWeek
    BY <2>1, <2>2 DEF Weeks
  <2>4. /\ deliveries \subseteq deliveries'
        /\ \A row \in deliveries' : row.fp.week <= row.day \div UserWeek
    BY <1>2, <2>2, <2>3
  <2>5. \A r \in Requesters : held'[r] \subseteq held[r]
    BY <1>1, <2>2
  <2> QED
    BY <2>2, <2>4, <2>5 DEF Weeks
<1>4. ASSUME NEW c \in Crons, NEW fp \in Fingerprints, NEW stored \in BOOLEAN, NEW logged \in BOOLEAN,
             MarkPushed(c, fp, stored, logged)
      PROVE  Weeks' /\ deliveries \subseteq deliveries'
  <2>1. /\ MarkDelivered(fp, stored, logged) /\ UNCHANGED <<day, held>>
        /\ sending' = [sending EXCEPT ![c] = {}] /\ fp \in sending[c]
    BY <1>4 DEF MarkPushed
  <2>2. fp.week <= day \div UserWeek
    BY <2>1 DEF Weeks
  <2>3. /\ deliveries \subseteq deliveries'
        /\ \A row \in deliveries' : row.fp.week <= row.day \div UserWeek
    BY <1>2, <2>1, <2>2
  <2>4. \A d \in Crons : sending'[d] \subseteq sending[d]
    BY <1>1, <2>1
  <2> QED
    BY <2>1, <2>3, <2>4 DEF Weeks
<1>5. ASSUME NEW r \in Requesters, NEW due \in Situations, NEW recent \in Recent,
             NEW quiet \in BOOLEAN, GetCandidates(r, due, quiet, recent)
      PROVE  Weeks' /\ deliveries \subseteq deliveries'
  <2> DEFINE batch == Batch(r, Selected(Candidates(due, recent, quiet)))
  <2>1. /\ held' = [held EXCEPT ![r] = batch]
        /\ UNCHANGED <<day, sending, deliveries>>
    BY <1>5 DEF GetCandidates
  <2>2. \A fp \in batch : fp \in Fingerprints
                          /\ fp.week = WeekOf(fp.type)
    BY <1>1, Kept
  <2>3. \A fp \in batch : fp.week <= day \div UserWeek
    <3>1. day \div UserWeek \in Nat
      BY <1>1, WeeksInOrder
    <3> HIDE DEF batch
    <3> QED
      BY <2>2, <3>1 DEF WeekOf
  <2> HIDE DEF batch
  <2> QED
    BY <1>1, <2>1, <2>3 DEF Weeks
<1>6. ASSUME NEW c \in Crons, NEW fp \in Fingerprints, NEW accepted \in BOOLEAN, Push(c, fp, accepted)
      PROVE  Weeks' /\ deliveries \subseteq deliveries'
  <2>1. /\ UNCHANGED <<day, deliveries>> /\ fp \in held[c]
        /\ held' = [held EXCEPT ![c] = @ \ {fp}]
    BY <1>6 DEF Push
  <2>2. sending' = sending \/ sending' = [sending EXCEPT ![c] = {fp}]
    BY <1>6, Zenon DEF Push
  <2>3. fp.week <= day \div UserWeek
    BY <1>1, <2>1 DEF Weeks
  <2>4. \A r \in Requesters : held'[r] \subseteq held[r]
    BY <1>1, <2>1
  <2>5. \A d \in Crons : sending'[d] \subseteq sending[d] \cup {fp}
    BY <1>1, <2>2
  <2> QED
    BY <2>1, <2>3, <2>4, <2>5 DEF Weeks
<1>7. ASSUME NEW r \in Requesters, Stop(r) PROVE Weeks' /\ deliveries \subseteq deliveries'
  <2>1. /\ UNCHANGED <<day, deliveries>> /\ held' = [held EXCEPT ![r] = {}]
        /\ sending' = [c \in Crons |-> IF c = r THEN {} ELSE sending[c]]
    BY <1>7 DEF Stop
  <2> QED
    BY <1>1, <2>1 DEF Weeks
<1>8. ASSUME NextDay PROVE Weeks' /\ deliveries \subseteq deliveries'
  <2>1. UNCHANGED <<deliveries, held, sending>> /\ day' = day + 1
    BY <1>8 DEF NextDay
  <2>2. /\ day \div UserWeek <= day' \div UserWeek
        /\ day \div UserWeek \in Nat /\ day' \div UserWeek \in Nat
    BY <1>1, <2>1, WeeksInOrder
  <2>3. \A fp \in Fingerprints : fp.week <= day \div UserWeek => fp.week <= day' \div UserWeek
    <3> DEFINE q == day \div UserWeek
               r == day' \div UserWeek
    <3>1. q \in Nat /\ r \in Nat /\ q <= r
      BY <2>2
    <3> HIDE DEF q, r
    <3>2. \A fp \in Fingerprints : fp.week <= q => fp.week <= r
      BY <1>1, <3>1
    <3> QED
      BY <3>2 DEF q, r
  <2>4. /\ \A r \in Requesters : \A fp \in held[r] : fp \in Fingerprints
        /\ \A c \in Crons : \A fp \in sending[c] : fp \in Fingerprints
    BY <1>1
  <2> QED
    BY <2>1, <2>3, <2>4 DEF Weeks
<1>9. ASSUME UNCHANGED <<day, deliveries, held, sending>>
      PROVE  Weeks' /\ deliveries \subseteq deliveries'
  BY <1>9 DEF Weeks
<1>10. Weeks' /\ deliveries \subseteq deliveries'
  BY <1>3, <1>4, <1>5, <1>6, <1>7, <1>8, <1>9, OutreachStep
     DEF RecordNotificationInteraction, PruneOldEvents, UpdatePreferences, NextDay, outreachVars
<1> QED
  BY <1>10 DEF Delivered

(* A push needs that all earlier ones were lost.                            *)
LEMMA PushStep ==
    ASSUME PushInv, ReadsAll, \A c, d \in Crons : c = d, [OutreachNext]_outreachVars
    PROVE  PushInv'
<1>0. OutreachBase /\ OutreachBase' /\ Weeks /\ Weeks' /\ \A fp : Delivered(fp) => Delivered(fp)'
  BY OutreachTypeStep, RowsStep, WeeksStep DEF PushInv, OutreachBase
<1>1. /\ held \in [Requesters -> SUBSET Fingerprints] /\ Crons \subseteq Requesters
      /\ sending \in [Crons -> SUBSET Fingerprints]
      /\ \A c \in Crons : sending[c] = {} \/ \E fp \in Fingerprints : sending[c] = {fp}
      /\ pushes \in Seq(Fingerprints) /\ unconfirmed \in Seq(Fingerprints)
      /\ Phones \cap Crons = {} /\ Phones \subseteq Requesters
  BY <1>0, OutreachAssumption DEF OutreachBase, OutreachTypeOK, Rows, Requesters
<1>2. ASSUME NEW x \in Fingerprints, NEW fp
      PROVE  /\ CountOf(pushes, fp) \in Nat /\ CountOf(unconfirmed, fp) \in Nat
             /\ CountOf(Append(pushes, x), fp) =
                   CountOf(pushes, fp) + (IF x = fp THEN 1 ELSE 0)
             /\ CountOf(Append(unconfirmed, x), fp) =
                   CountOf(unconfirmed, fp) + (IF x = fp THEN 1 ELSE 0)
  BY <1>1, CountGrows
<1>3. /\ \A fp \in Fingerprints :
            \/ AllLost(fp)
            \/ /\ CountOf(pushes, fp) <= 1 + CountOf(unconfirmed, fp)
               /\ Delivered(fp) \/ \E c \in Crons : fp \in sending[c]
      /\ \A c \in Crons : \A fp \in held[c] : AllLost(fp) /\ fp \notin sending[c]
  BY DEF PushInv
<1> DEFINE Good ==
             /\ \A fp \in Fingerprints :
                   \/ AllLost(fp)'
                   \/ /\ CountOf(pushes', fp) <= 1 + CountOf(unconfirmed', fp)
                      /\ Delivered(fp)' \/ \E c \in Crons : fp \in sending'[c]
             /\ \A c \in Crons : \A fp \in held'[c] : AllLost(fp)' /\ fp \notin sending'[c]
<1>4. SUFFICES Good
  BY <1>0 DEF PushInv, CountOf
<1>5. \A fp : AllLost(fp)' <=> CountOf(pushes', fp) <= CountOf(unconfirmed', fp)
  BY DEF AllLost, CountOf
<1>6. \A fp : AllLost(fp) <=> CountOf(pushes, fp) <= CountOf(unconfirmed, fp)
  BY DEF AllLost
<1> HIDE DEF Good
<1>7. ASSUME UNCHANGED <<sending, pushes, unconfirmed>>,
             \A c \in Crons : \A fp \in held'[c] : AllLost(fp) /\ fp \notin sending[c]
      PROVE  Good
  BY <1>0, <1>3, <1>5, <1>6, <1>7 DEF Good
<1>8. ASSUME NEW r \in Requesters, NEW due \in Situations, NEW recent \in Recent,
             NEW quiet \in BOOLEAN, GetCandidates(r, due, quiet, recent)
      PROVE  Good
  <2> DEFINE batch == Batch(r, Selected(Candidates(due, recent, quiet)))
  <2>1. /\ held' = [held EXCEPT ![r] = batch]
        /\ UNCHANGED <<day, sending, pushes, unconfirmed>>
        /\ r \in Crons => sending[r] = {}
    BY <1>8 DEF GetCandidates
  <2>2. day \in Nat
    BY <1>0 DEF OutreachBase, OutreachTypeOK
  <2>3. /\ batch \subseteq Fingerprints
        /\ \A fp \in batch :
              /\ PassesCadence(fp, recent, quiet)
              /\ fp.week = WeekOf(fp.type)
              /\ r \in Crons => fp.type = "REENGAGEMENT"
    BY <2>2, Kept
  <2> HIDE DEF batch
  <2>4. ASSUME NEW c \in Crons, NEW fp \in held'[c] PROVE AllLost(fp) /\ fp \notin sending[c]
    <3>1. CASE c # r
      BY <1>1, <1>3, <2>1, <2>4, <3>1
    <3>2. CASE c = r
      <4>1. fp \in batch /\ fp.week = day \div UserWeek
        BY <1>1, <2>1, <2>3, <2>4, <3>2 DEF WeekOf
      <4>2. ~ Delivered(fp)
        BY <1>0, <2>3, <4>1, FetchedIsNew
      <4>3. \A d \in Crons : fp \notin sending[d]
        BY <2>1, <3>2
      <4> QED
        BY <1>3, <2>3, <4>1, <4>2, <4>3
    <3> QED
      BY <3>1, <3>2
  <2> QED
    BY <1>7, <2>1, <2>4
<1>9. ASSUME NEW p \in Phones, NEW fp \in Fingerprints, NEW stored \in BOOLEAN,
             NEW logged \in BOOLEAN, Confirm(p, fp, stored, logged)
      PROVE  Good
  <2>1. /\ held' = [held EXCEPT ![p] = @ \ {fp}] /\ UNCHANGED <<sending, pushes, unconfirmed>>
    BY <1>9 DEF Confirm
  <2>2. \A c \in Crons : held'[c] = held[c]
    BY <1>1, <2>1
  <2> QED
    BY <1>3, <1>7, <2>1, <2>2
<1>10. ASSUME NEW c \in Crons, NEW fp \in Fingerprints, NEW accepted \in BOOLEAN,
              Push(c, fp, accepted)
       PROVE  Good
  <2>1. /\ held' = [held EXCEPT ![c] = @ \ {fp}] /\ UNCHANGED unconfirmed
        /\ fp \in held[c] /\ sending[c] = {}
        /\ \/ UNCHANGED <<sending, pushes>>
           \/ sending' = [sending EXCEPT ![c] = {fp}] /\ pushes' = Append(pushes, fp)
    BY <1>10, Zenon DEF Push
  <2>2. /\ \A d \in Crons : d = c
        /\ held'[c] = held[c] \ {fp}
        /\ AllLost(fp)
    BY <1>1, <1>3, <2>1
  <2>3. CASE UNCHANGED <<sending, pushes>>
    BY <1>3, <1>7, <2>1, <2>2, <2>3
  <2>4. CASE sending' = [sending EXCEPT ![c] = {fp}] /\ pushes' = Append(pushes, fp)
    <3>1. sending'[c] = {fp}
      BY <1>1, <2>4
    <3>2. /\ \A x : CountOf(pushes', x) = CountOf(pushes, x) + (IF x = fp THEN 1 ELSE 0)
          /\ \A x : CountOf(unconfirmed', x) = CountOf(unconfirmed, x)
          /\ \A x : CountOf(pushes, x) \in Nat /\ CountOf(unconfirmed, x) \in Nat
      BY <1>2, <2>1, <2>4
    <3>3. CountOf(pushes', fp) <= 1 + CountOf(unconfirmed', fp)
      BY <1>6, <2>2, <3>2
    <3>4. ASSUME NEW x, x # fp PROVE AllLost(x)' <=> AllLost(x)
      BY <1>5, <1>6, <3>2, <3>4
    <3>5. ASSUME NEW x \in Fingerprints
          PROVE  \/ AllLost(x)'
                 \/ /\ CountOf(pushes', x) <= 1 + CountOf(unconfirmed', x)
                    /\ Delivered(x)' \/ \E d \in Crons : x \in sending'[d]
      <4>1. CASE x = fp
        BY <3>1, <3>3, <4>1
      <4>2. CASE x # fp
        <5>1. \A d \in Crons : x \notin sending[d]
          BY <2>1, <2>2
        <5>2. CountOf(pushes', x) = CountOf(pushes, x)
              /\ CountOf(unconfirmed', x) = CountOf(unconfirmed, x)
          BY <3>2, <4>2
        <5> QED
          BY <1>0, <1>3, <3>4, <4>2, <5>1, <5>2
      <4> QED
        BY <4>1, <4>2
    <3>6. \A d \in Crons : \A x \in held'[d] : AllLost(x)' /\ x \notin sending'[d]
      <4>1. \A x \in held'[c] : x \in held[c] /\ x # fp
        BY <2>2
      <4>2. \A x \in held'[c] : AllLost(x)' /\ x \notin sending'[c]
        BY <1>3, <3>1, <3>4, <4>1
      <4> QED
        BY <2>2, <4>2
    <3> QED
      BY <3>5, <3>6 DEF Good
  <2> QED
    BY <2>1, <2>3, <2>4
<1>11. ASSUME NEW c \in Crons, NEW fp \in Fingerprints, sending[c] = {fp}, sending'[c] = {},
              UNCHANGED pushes, held'[c] \subseteq held[c],
              unconfirmed' = Append(unconfirmed, fp) \/ (UNCHANGED unconfirmed /\ Delivered(fp)')
       PROVE  Good
  <2>1. /\ \A d \in Crons : d = c
        /\ \A x : CountOf(pushes', x) = CountOf(pushes, x)
        /\ \A x : CountOf(pushes, x) \in Nat /\ CountOf(unconfirmed, x) \in Nat
    BY <1>2, <1>11
  <2>2. \A x : /\ CountOf(unconfirmed', x) \in Nat
               /\ CountOf(unconfirmed, x) <= CountOf(unconfirmed', x)
    <3>1. CASE unconfirmed' = Append(unconfirmed, fp)
      BY <1>2, <3>1
    <3>2. CASE UNCHANGED unconfirmed
      BY <2>1, <3>2
    <3> QED
      BY <1>11, <3>1, <3>2
  <2>3. \A x : AllLost(x) => AllLost(x)'
    BY <1>5, <1>6, <2>1, <2>2
  <2>4. CountOf(pushes, fp) <= 1 + CountOf(unconfirmed, fp)
    BY <1>3, <1>6, <2>1
  <2>5. AllLost(fp)' \/ (CountOf(pushes', fp) <= 1 + CountOf(unconfirmed', fp) /\ Delivered(fp)')
    <3>1. CASE unconfirmed' = Append(unconfirmed, fp)
      <4>1. CountOf(unconfirmed', fp) = CountOf(unconfirmed, fp) + 1
        BY <1>2, <3>1
      <4>2. CountOf(pushes', fp) <= CountOf(unconfirmed', fp)
        BY <2>1, <2>4, <4>1
      <4> QED
        BY <1>5, <4>2
    <3>2. CASE UNCHANGED unconfirmed /\ Delivered(fp)'
      BY <2>1, <2>4, <3>2
    <3> QED
      BY <1>11, <3>1, <3>2
  <2>6. ASSUME NEW x \in Fingerprints, x # fp
        PROVE  AllLost(x)' \/ (CountOf(pushes', x) <= 1 + CountOf(unconfirmed', x) /\ Delivered(x)')
    <3>1. \A d \in Crons : x \notin sending[d]
      BY <1>11, <2>1, <2>6
    <3>2. AllLost(x) \/ (CountOf(pushes, x) <= 1 + CountOf(unconfirmed, x) /\ Delivered(x))
      BY <1>3, <3>1
    <3>3. CountOf(pushes, x) <= 1 + CountOf(unconfirmed, x)
             => CountOf(pushes', x) <= 1 + CountOf(unconfirmed', x)
      BY <2>1, <2>2
    <3> QED
      BY <1>0, <2>3, <3>2, <3>3
  <2>7. \A d \in Crons : \A x \in held'[d] : AllLost(x)' /\ x \notin sending'[d]
    BY <1>3, <1>11, <2>1, <2>3
  <2> QED
    BY <2>5, <2>6, <2>7 DEF Good
<1>12. ASSUME NEW c \in Crons, NEW fp \in Fingerprints, NEW stored \in BOOLEAN,
              NEW logged \in BOOLEAN, MarkPushed(c, fp, stored, logged)
       PROVE  Good
  <2>1. /\ fp \in sending[c] /\ sending' = [sending EXCEPT ![c] = {}]
        /\ MarkDelivered(fp, stored, logged)
        /\ UNCHANGED <<held, pushes>>
    BY <1>12 DEF MarkPushed
  <2>2. (stored /\ UNCHANGED unconfirmed) \/ unconfirmed' = Append(unconfirmed, fp)
    BY <1>12, Zenon DEF MarkPushed
  <2>3. stored => Delivered(fp)'
    BY <1>0, <2>1, Marked DEF Delivered
  <2>4. sending[c] = {fp} /\ sending'[c] = {}
    BY <1>1, <2>1
  <2> QED
    BY <1>11, <2>1, <2>2, <2>3, <2>4
<1>13. ASSUME NEW r \in Requesters, Stop(r) PROVE Good
  <2>1. /\ held' = [held EXCEPT ![r] = {}]
        /\ sending' = [c \in Crons |-> IF c = r THEN {} ELSE sending[c]]
        /\ UNCHANGED <<pushes, deliveries>>
    BY <1>13 DEF Stop
  <2>2. \A c \in Crons : held'[c] \subseteq held[c]
    BY <1>1, <2>1
  <2>3. CASE r \in Crons /\ sending[r] # {}
    <3>1. PICK fp \in sending[r] : unconfirmed' = Append(unconfirmed, fp)
      BY <1>13, <2>3 DEF Stop
    <3>2. sending[r] = {fp} /\ sending'[r] = {} /\ fp \in Fingerprints
      BY <1>1, <2>1, <2>3, <3>1
    <3> QED
      BY <1>11, <2>1, <2>2, <2>3, <3>1, <3>2
  <2>4. CASE ~ (r \in Crons /\ sending[r] # {})
    <3>1. UNCHANGED unconfirmed
      BY <1>13, <2>4 DEF Stop
    <3>2. sending' = sending
      BY <1>1, <2>1, <2>4
    <3> QED
      BY <1>3, <1>7, <2>1, <2>2, <3>1, <3>2
  <2> QED
    BY <2>3, <2>4
<1>14. CASE UNCHANGED <<held, sending, pushes, unconfirmed>>
  BY <1>3, <1>7, <1>14
<1> QED
  BY <1>8, <1>9, <1>10, <1>12, <1>13, <1>14, <1>0, OutreachStep
     DEF RecordNotificationInteraction, PruneOldEvents, UpdatePreferences, NextDay, outreachVars

(* With one dispatcher, and a request reading back all deliveries of the    *)
(* longest cooldown, a reminder is pushed again only when an earlier push   *)
(* of it was lost.                                                          *)
THEOREM PushesOnce ==
    ASSUME \A c, d \in Crons : c = d
    PROVE  OutreachSpec /\ []ReadsAll => []PushedOnce
<1>1. OutreachInit => PushInv
  <2> SUFFICES ASSUME OutreachInit PROVE PushInv
    OBVIOUS
  <2>1. CountOf(<<>>, 0) = 0 /\ \A fp : CountOf(<<>>, fp) = 0
    <3>1. \A fp : {i \in DOMAIN <<>> : <<>>[i] = fp} = {}
      OBVIOUS
    <3>2. \A fp : Cardinality({i \in DOMAIN <<>> : <<>>[i] = fp}) = 0
      BY <3>1, FS_EmptySet, Zenon
    <3> QED
      BY <3>2 DEF CountOf
  <2>2. /\ day = 0 /\ deliveries = {} /\ pushes = <<>> /\ unconfirmed = <<>>
        /\ \A r \in Requesters : held[r] = {}
        /\ \A c \in Crons : sending[c] = {} /\ c \in Requesters
    BY DEF OutreachInit, Requesters
  <2> QED
    BY <2>1, <2>2, OutreachStarts DEF PushInv, Weeks, AllLost
<1>2. PushInv /\ ReadsAll /\ [OutreachNext]_outreachVars => PushInv'
  BY PushStep
<1>3. PushInv => PushedOnce
  <2> SUFFICES ASSUME PushInv, NEW i \in DOMAIN pushes
               PROVE  CountOf(pushes, pushes[i]) <= 1 + CountOf(unconfirmed, pushes[i])
    BY DEF PushedOnce
  <2>1. pushes \in Seq(Fingerprints) /\ unconfirmed \in Seq(Fingerprints)
    BY DEF PushInv, OutreachBase, OutreachTypeOK
  <2>2. pushes[i] \in Fingerprints
    BY <2>1
  <2>3. CountOf(pushes, pushes[i]) \in Nat /\ CountOf(unconfirmed, pushes[i]) \in Nat
    BY <2>1, <2>2, CountGrows
  <2> QED
    BY <2>2, <2>3 DEF PushInv, AllLost
<1> QED
  BY <1>1, <1>2, <1>3, PTL DEF OutreachSpec

-----------------------------------------------------------------------------
(* What the rules say of a risk.                                            *)

(* A report keeps what was measured and adds the labels of that.            *)
LEMMA ReportKeeps ==
    ASSUME NEW h, NEW entries, NEW now
    PROVE  LET m == Measures(h, entries, now)
               r == BuildBehaviorReport(h, entries, now)
           IN  /\ \A figure \in DOMAIN m \ {"signals"} : r[figure] = m[figure]
               /\ DOMAIN r = DOMAIN m /\ r.signals = DeriveSignals(m)
<1> DEFINE m == Measures(h, entries, now)
           r == BuildBehaviorReport(h, entries, now)
<1>1. "signals" \in DOMAIN m
  BY DEF Measures
<1>2. r = [m EXCEPT !["signals"] = DeriveSignals(m)]
  BY DEF BuildBehaviorReport, Labelled
<1>3. DOMAIN r = DOMAIN m /\ \A figure \in DOMAIN m \ {"signals"} : r[figure] = m[figure]
  <2> HIDE DEF m, r
  <2> QED
    BY <1>2
<1>4. r.signals = DeriveSignals(m)
  <2> HIDE DEF m, r
  <2> QED
    BY <1>1, <1>2
<1> QED
  BY <1>3, <1>4

(* What was measured, figure by figure.                                     *)
LEMMA ReportSays ==
    ASSUME NEW h, NEW entries, NEW now
    PROVE  LET m == Measures(h, entries, now)
               r == BuildBehaviorReport(h, entries, now)
           IN  /\ r.history = m.history /\ r.completedToday = m.completedToday
               /\ r.level = m.level /\ r.weakDay = m.weakDay
               /\ r.rate7 = m.rate7 /\ r.rate30 = m.rate30 /\ r.prev7 = m.prev7
               /\ r.expected7 = m.expected7 /\ r.completed7 = m.completed7
               /\ r.samples = m.samples
<1> DEFINE m == Measures(h, entries, now)
           figures == {"history", "completedToday", "level", "weakDay", "rate7", "rate30",
                       "prev7", "expected7", "completed7", "samples"}
<1>1. figures \subseteq DOMAIN m \ {"signals"}
  BY DEF Measures
<1> HIDE DEF m
<1>2. \A figure \in figures : BuildBehaviorReport(h, entries, now)[figure] = m[figure]
  BY <1>1, ReportKeeps DEF m
<1> QED
  BY <1>2 DEF m

(* The first rule that applies is one of the first seven, which all call    *)
(* for something.                                                           *)
LEMMA FirstRule ==
    ASSUME NEW h, NEW r, NEW ctx, ~ h.archived, r.history,
           r.level = "CRITICAL" \/ AtRiskToday(r, ctx)
    PROVE  EvaluateIntervention(h, r, ctx).type \in
              {"RECOVERY", "REDUCE_DIFFICULTY", "HABIT_STACK", "PREPARE_FOR_RISK",
               "CHANGE_TIME"}
<1> DEFINE rules == InterventionRules(r, ctx)
           matches == {i \in DOMAIN rules : rules[i].applies}
           first == CHOOSE i \in matches : \A j \in matches : i <= j
           wanted == {"RECOVERY", "REDUCE_DIFFICULTY", "HABIT_STACK", "PREPARE_FOR_RISK",
                      "CHANGE_TIME"}
<1>1. DOMAIN rules = 1 .. 10
  BY DEF InterventionRules
<1>2. rules[1].applies <=> r.level = "CRITICAL"
  BY DEF InterventionRules, Rule
<1>3. rules[7].applies <=> AtRiskToday(r, ctx)
  BY DEF InterventionRules, Rule
<1>4. \A i \in 1 .. 7 : rules[i].type \in wanted
  BY DEF InterventionRules, Rule, WeekdayDraft
<1> HIDE DEF rules
<1>5. matches \subseteq 1 .. 10 /\ matches \subseteq Nat /\ (1 \in matches \/ 7 \in matches)
  BY <1>1, <1>2, <1>3
<1>6. first \in matches /\ \A j \in matches : first <= j
  <2> HIDE DEF matches, first
  <2>1. matches # {}
    BY <1>5
  <2>2. \E i \in matches : \A j \in matches : i <= j
    BY <1>5, <2>1, Least
  <2> QED
    BY <2>2 DEF first
<1>7. first \in 1 .. 7
  <2> HIDE DEF matches, first
  <2> QED
    BY <1>5, <1>6
<1>8. EvaluateIntervention(h, r, ctx).type = rules[first].type
  <2>1. matches # {}
    BY <1>5
  <2>2. EvaluateIntervention(h, r, ctx) =
          [id |-> rules[first].id, priority |-> rules[first].priority,
           type |-> rules[first].type, action |-> SuggestedAction(rules[first], h, r),
           signals |-> SourceSignals(rules[first], r)]
    BY <2>1, Zenon DEF EvaluateIntervention, rules
  <2> QED
    BY <2>2
<1> QED
  BY <1>4, <1>7, <1>8

(* A habit at risk that is due and not done is always answered, with the    *)
(* action the engine has decided, whatever the log, the other habits, the   *)
(* cache and the model.                                                     *)
THEOREM RiskAlwaysAnswered ==
    Spec => []RiskIsAnswered
<1> SUFFICES RiskIsAnswered
  BY PTL
<1> SUFFICES ASSUME "AT_RISK" \in Report.signals, IsScheduledOnDate(habit, today),
                    log[today] = Missing, ~ habit.archived
             PROVE  /\ Intervention.type \notin {"NONE", "PROTECT_MOMENTUM", "REINFORCE_IDENTITY"}
                    /\ \A tone \in Tones :
                         \A answer \in CoachAnswers(DefaultPreferences(tone)) :
                           answer.words # NoWords /\ answer.action = Intervention.action
  BY DEF RiskIsAnswered
<1> DEFINE m == Measures(habit, log, today)
           ctx == InterventionContext(habit, OtherReports, today)
<1>1. Report.signals = DeriveSignals(m)
  BY ReportKeeps DEF Report, ReportOf
<1>2. /\ Report.history = m.history /\ Report.completedToday = m.completedToday
      /\ Report.level = m.level
  BY ReportSays DEF Report, ReportOf
<1>3. ~ m.completedToday
  <2>1. m.completedToday <=> today \in Completed(log, today) \cap Window(today, Long)
    BY DEF Measures
  <2>2. today \notin Completed(log, today)
    BY DEF Completed, Missing
  <2> QED
    BY <2>1, <2>2
<1>4. ctx.scheduledToday
  <2>1. ctx.scheduledToday <=> ~ habit.archived /\ IsScheduledOnDate(habit, today)
    BY DEF InterventionContext
  <2> QED
    BY <2>1
<1> HIDE DEF m
<1>5. m.history
  <2>1. ~ m.history => DeriveSignals(m) = {}
    BY DEF DeriveSignals
  <2> QED
    BY <1>1, <2>1
<1>6. Report.level = "CRITICAL" \/ AtRiskToday(Report, ctx)
  BY <1>2, <1>3, <1>4 DEF AtRiskToday
<1>7. Intervention.type \in {"RECOVERY", "REDUCE_DIFFICULTY", "HABIT_STACK", "PREPARE_FOR_RISK",
                             "CHANGE_TIME"}
  <2>1. Report.history
    BY <1>2, <1>5
  <2> HIDE DEF ctx
  <2>2. EvaluateIntervention(habit, Report, ctx).type \in
           {"RECOVERY", "REDUCE_DIFFICULTY", "HABIT_STACK", "PREPARE_FOR_RISK", "CHANGE_TIME"}
    BY <1>6, <2>1, FirstRule
  <2> QED
    BY <2>2 DEF Intervention, ctx
<1>8. ASSUME NEW tone \in Tones, NEW answer \in CoachAnswers(DefaultPreferences(tone))
      PROVE  answer.words # NoWords /\ answer.action = Intervention.action
  <2> DEFINE i == Intervention
             chosen == DefaultPreferences(tone)
  <2>1. PICK cached, written : answer = CoachForHabit(1, i, chosen, cached, written)
    BY <1>8 DEF CoachAnswers
  <2>2. i.type # "NONE" /\ i.type # "PROTECT_MOMENTUM"
    BY <1>7
  <2> HIDE DEF i
  <2>3. i # None /\ PassesFrequency(i, "STANDARD")
    <3>1. i # None
      BY <2>2 DEF None
    <3>2. PassesFrequency(i, "STANDARD")
      BY <2>2, Zenon DEF PassesFrequency
    <3> QED
      BY <3>1, <3>2
  <2>4. answer = Answer(CASE cached # NoWords -> cached
                          [] cached = NoWords /\ written # NoWords -> written
                          [] OTHER -> FallbackWords(1, tone), i)
    <3>1. chosen.enabled /\ chosen.frequency = "STANDARD" /\ chosen.tone = tone
      BY DEF DefaultPreferences
    <3> HIDE DEF chosen
    <3> QED
      BY <2>1, <2>3, <3>1, Zenon DEF CoachForHabit
  <2>5. FallbackWords(1, tone) # NoWords
    BY DEF FallbackWords, NoWords, Words
  <2> DEFINE words == CASE cached # NoWords -> cached
                        [] cached = NoWords /\ written # NoWords -> written
                        [] OTHER -> FallbackWords(1, tone)
  <2>6. words # NoWords
    BY <2>5, Zenon
  <2>7. answer = [words |-> words, action |-> i.action]
    BY <2>4, Zenon DEF Answer
  <2> HIDE DEF words
  <2> QED
    BY <2>6, <2>7 DEF i
<1> QED
  BY <1>7, <1>8
-----------------------------------------------------------------------------
(* What the rules say of a perfect log.                                     *)

(* The smaller and the larger of two numbers.                               *)
LEMMA OfTwo ==
    ASSUME NEW a \in Int, NEW b \in Int
    PROVE  /\ Min({a, b}) = IF a <= b THEN a ELSE b
           /\ Max({a, b}) = IF a <= b THEN b ELSE a
<1>1. CASE a <= b
  BY <1>1 DEF Min, Max
<1>2. CASE ~ (a <= b)
  BY <1>2 DEF Min, Max
<1> QED
  BY <1>1, <1>2

(* The whole part of a quotient.                                            *)
LEMMA Quotient ==
    ASSUME NEW x \in Nat, NEW d \in Nat, d >= 1, NEW q \in Nat
    PROVE  /\ x \div d \in Nat
           /\ d * q <= x => q <= x \div d
           /\ d * q <= x /\ x < d * q + d => x \div d = q
<1> DEFINE r == x \div d
<1>1. r \in Nat /\ d * r <= x /\ x < d * r + d
  OBVIOUS
<1> HIDE DEF r
<1>2. d * q \in Nat /\ d * r \in Nat
  BY <1>1
<1>3. ASSUME d * q <= x, r < q PROVE FALSE
  <2>1. d * (r + 1) <= d * q
    BY <1>1, <1>3
  <2>2. d * (r + 1) = d * r + d
    BY <1>1
  <2> QED
    BY <1>1, <1>2, <1>3, <2>1, <2>2
<1>4. ASSUME x < d * q + d, q < r PROVE FALSE
  <2>1. d * (q + 1) <= d * r
    BY <1>1, <1>4
  <2>2. d * (q + 1) = d * q + d
    OBVIOUS
  <2> QED
    BY <1>1, <1>2, <1>4, <2>1, <2>2
<1> QED
  BY <1>1, <1>3, <1>4 DEF r

LEMMA RatioIs ==
    ASSUME NEW n \in Nat, NEW d \in Nat, d >= 1
    PROVE  /\ Ratio(n, d) \in Nat
           /\ n = 0 => Ratio(n, d) = 0
           /\ n = d => Ratio(n, d) = One
           /\ d <= n => One <= Ratio(n, d)
<1> DEFINE x == n * One + d \div 2
<1>1. One \in Nat /\ n * One \in Nat /\ d * One \in Nat /\ d * 0 = 0
  BY DEF One
<1>2. d \div 2 \in Nat /\ d \div 2 < d
  OBVIOUS
<1>3. x \in Nat /\ n * One <= x /\ x < n * One + d
  BY <1>1, <1>2
<1>4. d <= n => d * One <= n * One
  BY <1>1 DEF One
<1>5. Ratio(n, d) = x \div d
  BY DEF Ratio
<1> HIDE DEF x
<1>6. x \div d \in Nat /\ (d * One <= x => One <= x \div d)
  BY <1>1, <1>3, Quotient
<1>7. n = 0 => x \div d = 0
  <2>1. n = 0 => d * 0 <= x /\ x < d * 0 + d
    BY <1>1, <1>3
  <2> QED
    BY <1>3, <2>1, Quotient
<1>8. n = d => x \div d = One
  <2>1. n = d => d * One <= x /\ x < d * One + d
    BY <1>3
  <2> QED
    BY <1>1, <1>3, <2>1, Quotient
<1>9. d <= n => d * One <= x
  BY <1>1, <1>3, <1>4
<1> QED
  BY <1>5, <1>6, <1>7, <1>8, <1>9

(* A user who keeps to the schedule.                                        *)
Keeping == TypeOK /\ Perfect

Loaded == Completed(log, today)
Since(n) == {d \in Loaded : d > today - n}
Done == Loaded \cap Window(today, Long)
RateOf(days) == RateForWindow(habit, Done, days, today)

(* Only full completions are loaded, and with them every eligible day.      *)
LEMMA KeepingLoads ==
    ASSUME Keeping
    PROVE  /\ Loaded \subseteq 0 .. today /\ IsFiniteSet(Loaded)
           /\ \A d \in Loaded : log[d].kind = "FULL"
           /\ \A d \in Window(today, Long) :
                 Scheduled(habit, d) /\ d # today => d \in Done
<1>1. /\ today \in Nat /\ DOMAIN log = 0 .. today /\ habit.start \in Nat /\ Long \in Nat
  BY InsightsAssumption, AnalyticsAssumption DEF Keeping, TypeOK
<1>2. Loaded \subseteq 0 .. today /\ \A d \in Loaded : log[d].kind # "none"
  BY <1>1 DEF Loaded, Completed
<1>3. IsFiniteSet(Loaded)
  <2>1. IsFiniteSet(0 .. today)
    BY <1>1, FS_Interval
  <2> QED
    BY <1>2, <2>1, FS_Subset
<1>4. \A d \in Loaded : log[d].kind = "FULL"
  BY <1>2 DEF Keeping, Perfect, Missing
<1>5. ASSUME NEW d \in Window(today, Long), Scheduled(habit, d), d # today PROVE d \in Done
  <2>1. d \in Int /\ d <= today /\ d > today - Long
    BY <1>1 DEF Window
  <2>2. d >= habit.start
    BY <1>5 DEF Scheduled
  <2>3. d \in 0 .. today
    BY <1>1, <2>1, <2>2
  <2>4. log[d].kind = "FULL"
    BY <1>5, <2>3 DEF Keeping, Perfect
  <2> QED
    BY <1>1, <1>5, <2>1, <2>3, <2>4 DEF Done, Loaded, Completed
<1> QED
  BY <1>2, <1>3, <1>4, <1>5

(* How many of the days of a window are expected.                           *)
LEMMA SharesOf ==
    ASSUME habit \in Habits, NEW n \in Nat, NEW size \in Nat, n <= size
    PROVE  LET share == ExpectedCompletions(habit, n, size)
           IN  share \in Nat /\ share <= n /\ (n > 0 => share > 0)
<1>1. CASE habit.schedule = "times_per_week"
  <2> DEFINE u == habit.times
             t == Max({1, u})
             x == t * size + Week - 1
  <2>1. Week \in Nat /\ Week >= 1 /\ u \in Nat
    BY AnalyticsAssumption, InsightsAssumption
  <2>2. ExpectedCompletions(habit, n, size) = Min({n, x \div Week})
    BY <1>1 DEF ExpectedCompletions
  <2> HIDE DEF u
  <2>3. t = IF 1 <= u THEN u ELSE 1
    BY <2>1, OfTwo
  <2>4. t \in Nat /\ t >= 1
    BY <2>1, <2>3
  <2> HIDE DEF t
  <2>5. t * size \in Nat /\ (n > 0 => t * size >= 1)
    BY <2>4
  <2>6. x \in Nat /\ (n > 0 => Week * 1 <= x)
    BY <2>1, <2>5
  <2> HIDE DEF x
  <2>7. x \div Week \in Nat /\ (n > 0 => 1 <= x \div Week)
    BY <2>1, <2>6, Quotient
  <2>8. Min({n, x \div Week}) = IF n <= x \div Week THEN n ELSE x \div Week
    BY <2>7, OfTwo
  <2> QED
    BY <2>2, <2>7, <2>8
<1>2. CASE habit.schedule # "times_per_week"
  BY <1>2 DEF ExpectedCompletions
<1> QED
  BY <1>1, <1>2

(* A rate is a share of One.                                                *)
LEMMA RateBounded ==
    ASSUME habit \in Habits, NEW days, IsFiniteSet(days)
    PROVE  RateOf(days).rate = Unknown \/ RateOf(days).rate \in 0 .. One
<1> DEFINE eligible == Eligible(habit, days, today)
           extra == IF today \in days \cap Done /\ today \notin eligible THEN 1 ELSE 0
           expected == ExpectedCompletions(habit, Cardinality(eligible), Cardinality(days)) + extra
           completed == Cardinality(eligible \cap Done) + extra
<1>0. One \in Nat
  BY DEF One
<1>1. eligible \subseteq days /\ eligible \cap Done \subseteq eligible
  BY DEF Eligible
<1>2. /\ IsFiniteSet(eligible) /\ Cardinality(eligible) \in Nat /\ Cardinality(days) \in Nat
      /\ Cardinality(eligible) <= Cardinality(days)
      /\ Cardinality(eligible \cap Done) \in Nat
  <2> HIDE DEF eligible
  <2> QED
    BY <1>1, FS_Subset, FS_CardinalityType
<1>3. RateOf(days).rate =
        IF expected = 0 THEN Unknown ELSE Min({One, Ratio(completed, expected)})
  BY DEF RateOf, RateForWindow
<1> HIDE DEF eligible
<1>4. ExpectedCompletions(habit, Cardinality(eligible), Cardinality(days)) \in Nat
  BY <1>2, SharesOf
<1>5. expected \in Nat /\ completed \in Nat
  BY <1>2, <1>4
<1> HIDE DEF expected, completed
<1>6. CASE expected # 0
  <2> DEFINE x == Ratio(completed, expected)
  <2>1. x \in Nat
    BY <1>5, <1>6, RatioIs
  <2> HIDE DEF x
  <2>2. Min({One, x}) = IF One <= x THEN One ELSE x
    BY <1>0, <2>1, OfTwo
  <2> QED
    BY <1>0, <1>3, <1>6, <2>1, <2>2 DEF x
<1> QED
  BY <1>3, <1>6

(* Every rate is full, or there is none.                                    *)
LEMMA KeepingRates ==
    ASSUME Keeping, NEW days, IsFiniteSet(days), days \subseteq Window(today, Long)
    PROVE  /\ RateOf(days).expected \in Nat /\ RateOf(days).completed \in Nat
           /\ RateOf(days).expected <= RateOf(days).completed
           /\ RateOf(days).rate = IF RateOf(days).expected = 0 THEN Unknown ELSE One
           /\ today \in days \cap Done => RateOf(days).rate = One
           /\ Eligible(habit, days, today) # {} => RateOf(days).rate = One
<1> DEFINE eligible == Eligible(habit, days, today)
           extra == IF today \in days \cap Done /\ today \notin eligible THEN 1 ELSE 0
           n == Cardinality(eligible)
           size == Cardinality(days)
           share == ExpectedCompletions(habit, n, size)
           expected == share + extra
           completed == Cardinality(eligible \cap Done) + extra
<1>1. eligible \subseteq days /\ today \notin eligible /\ eligible \subseteq Done
  BY KeepingLoads DEF Eligible
<1>2. IsFiniteSet(eligible) /\ n \in Nat /\ size \in Nat /\ n <= size
  BY <1>1, FS_Subset, FS_CardinalityType
<1>3. Cardinality(eligible \cap Done) = n
  BY <1>1
<1>4. (n = 0 <=> eligible = {}) /\ extra \in {0, 1}
  BY <1>2, FS_EmptySet
<1>5. share \in Nat /\ share <= n /\ (n > 0 => share > 0)
  BY <1>2, SharesOf DEF Keeping, TypeOK
<1>6. RateOf(days) =
        IF expected = 0 THEN [rate |-> Unknown, expected |-> 0, completed |-> 0]
        ELSE [rate |-> Min({One, Ratio(completed, expected)}),
              expected |-> expected, completed |-> completed]
  BY DEF RateOf, RateForWindow
<1>7. /\ expected \in Nat /\ completed \in Nat /\ expected <= completed
      /\ today \in days \cap Done => expected > 0
      /\ eligible # {} => expected > 0
  <2>1. expected = share + extra /\ completed = n + extra
    BY <1>3
  <2>2. today \in days \cap Done => extra = 1
    BY <1>1
  <2> HIDE DEF share, extra, n, expected, completed, eligible
  <2> QED
    BY <1>2, <1>4, <1>5, <2>1, <2>2
<1> HIDE DEF expected, completed, eligible
<1>8. CASE expected = 0
  BY <1>6, <1>7, <1>8 DEF eligible
<1>9. CASE expected # 0
  <2>1. Ratio(completed, expected) \in Nat /\ One <= Ratio(completed, expected)
    BY <1>7, <1>9, RatioIs
  <2>2. Min({One, Ratio(completed, expected)}) = One
    BY <2>1, OfTwo DEF One
  <2> QED
    BY <1>6, <1>7, <1>9, <2>2
<1> QED
  BY <1>8, <1>9

(* No version but the full one.                                             *)
LEMMA KeepingShares ==
    ASSUME Keeping, NEW n \in Int
    PROVE  /\ \A k \in {"MINIMUM", "EMERGENCY"} :
                 OfKind(log, Since(n), k) = 0 /\ Share(log, Since(n), k) \in {0, Unknown}
           /\ Share(log, Since(n), "FULL") \in {One, Unknown}
<1> DEFINE S == Since(n)
           of(k) == {d \in S : log[d].kind = k}
<1>1. IsFiniteSet(S) /\ \A d \in S : log[d].kind = "FULL"
  BY KeepingLoads, FS_Subset DEF Since
<1>2. Cardinality(S) \in Nat /\ (S # {} => Cardinality(S) >= 1)
  <2> HIDE DEF S
  <2> QED
    BY <1>1, FS_CardinalityType, FS_EmptySet
<1>3. of("FULL") = S /\ OfKind(log, S, "FULL") = Cardinality(S)
  BY <1>1 DEF OfKind
<1>4. ASSUME NEW k \in {"MINIMUM", "EMERGENCY"} PROVE OfKind(log, S, k) = 0
  <2>1. of(k) = {}
    BY <1>1
  <2>2. Cardinality(of(k)) = 0
    BY <2>1, FS_EmptySet, Zenon
  <2> QED
    BY <2>2 DEF OfKind
<1> HIDE DEF S, of
<1>5. S # {} => /\ Ratio(0, Cardinality(S)) = 0
                /\ Ratio(Cardinality(S), Cardinality(S)) = One
  BY <1>2, RatioIs
<1> QED
  BY <1>3, <1>4, <1>5 DEF Share, S

(* Every day of the week is as good as any other.                           *)
LEMMA KeepingWeekdays ==
    ASSUME Keeping
    PROVE  LET rates == WeekdayRates(habit, Done, today)
           IN  DOMAIN rates # {} => WeekdayRisk(rates) = Unknown
<1> DEFINE rates == WeekdayRates(habit, Done, today)
           eligible == Eligible(habit, Window(today, Long), today)
           days(w) == {d \in eligible : d % Week = w}
           judged == {w \in 0 .. Week - 1 : Cardinality(days(w)) >= MinPerWeekday}
<1>1. today \in Nat /\ Long \in Nat /\ Week \in Nat /\ MinPerWeekday \in Nat \ {0}
  BY AnalyticsAssumption DEF Keeping, TypeOK
<1>2. eligible \subseteq Window(today, Long) /\ eligible \subseteq Done
  BY KeepingLoads DEF Eligible
<1>3. IsFiniteSet(eligible)
  <2>1. IsFiniteSet(Window(today, Long))
    BY <1>1, FS_Interval DEF Window
  <2> HIDE DEF eligible
  <2> QED
    BY <1>2, <2>1, FS_Subset
<1>4. rates = [w \in judged |-> Ratio(Cardinality(days(w) \cap Done), Cardinality(days(w)))]
  BY DEF WeekdayRates
<1> HIDE DEF eligible
<1>5. ASSUME NEW w \in judged
      PROVE  Ratio(Cardinality(days(w) \cap Done), Cardinality(days(w))) = One
  <2>1. days(w) \cap Done = days(w) /\ Cardinality(days(w)) \in Nat
    BY <1>2, <1>3, FS_Subset, FS_CardinalityType
  <2>2. Cardinality(days(w)) >= 1
    BY <1>1, <1>5, <2>1
  <2> HIDE DEF days
  <2> QED
    BY <2>1, <2>2, RatioIs
<1> HIDE DEF days
<1>6. DOMAIN rates = judged /\ \A w \in judged : rates[w] = One
  BY <1>4, <1>5
<1>7. judged \subseteq Nat
  BY <1>1
<1> HIDE DEF rates, judged
<1>8. ASSUME DOMAIN rates # {} PROVE WeekdayRisk(rates) = Unknown
  <2>1. \E w \in judged : \A v \in judged : w <= v
    BY <1>6, <1>7, <1>8, Least
  <2>2. \E w \in DOMAIN rates : \A v \in DOMAIN rates :
           rates[w] < rates[v] \/ (rates[w] = rates[v] /\ w <= v)
    BY <1>6, <2>1
  <2>3. WorstDay(rates) \in DOMAIN rates
    BY <2>2 DEF WorstDay
  <2>4. rates[WorstDay(rates)] = One
    BY <1>6, <2>3
  <2> QED
    BY <2>4 DEF WeekdayRisk, One, Percent
<1> QED
  BY <1>8 DEF rates

(* Nothing but a lost week, which is none, counts against the habit.        *)
LEMMA LowRisk ==
    ASSUME NEW miss7 \in {0, Unknown}, NEW miss30 \in {0, Unknown},
           NEW decline \in {-One, 0, One},
           NEW minimum7 \in {0, Unknown}, NEW emergency7 \in {0, Unknown}
    PROVE  RiskLevelForScore(
             ComputeRiskScore(miss7, miss30, decline, Unknown, minimum7, emergency7)) = "LOW"
<1> DEFINE score == ComputeRiskScore(miss7, miss30, decline, Unknown, minimum7, emergency7)
           y == Max({0, decline})
           trend == Clamp((y * 5) \div 2)
<1>1. \A x \in {0, Unknown} : OrZero(x) = 0
  BY DEF OrZero, Unknown
<1>2. y \in {0, One}
  BY OfTwo DEF One
<1> HIDE DEF y
<1>3. trend \in {0, One}
  <2>1. ASSUME NEW z \in Int, z <= 0 \/ One <= z PROVE Clamp(z) \in {0, One}
    <3> DEFINE u == Min({One, z})
    <3>1. One \in Nat
      BY DEF One
    <3>2. u = IF One <= z THEN One ELSE z
      BY <3>1, OfTwo
    <3>3. u \in Int /\ (u <= 0 \/ u = One)
      BY <2>1, <3>1, <3>2
    <3>4. Clamp(z) = Max({0, u})
      BY DEF Clamp
    <3> HIDE DEF u
    <3>5. Max({0, u}) = IF 0 <= u THEN u ELSE 0
      <4>1. u \in Int /\ 0 \in Int
        BY <3>3
      <4> QED
        BY ONLY <4>1, OfTwo
    <3> QED
      BY <3>1, <3>3, <3>4, <3>5
  <2>2. /\ (y * 5) \div 2 \in Int
        /\ (y * 5) \div 2 <= 0 \/ One <= (y * 5) \div 2
    BY <1>2 DEF One
  <2> QED
    BY <2>1, <2>2
<1>4. score = Quantize(20 * trend)
  BY <1>1, <1>3 DEF ComputeRiskScore, y, One
<1> HIDE DEF trend
<1>5. Quantize(20 * trend) \in Int /\ Quantize(20 * trend) < 300000
  BY <1>3 DEF Quantize, One
<1> HIDE DEF score
<1>6. score \in Int /\ score < 300000
  BY <1>4, <1>5
<1>7. RiskLevelForScore(score) = "LOW"
  BY <1>6 DEF RiskLevelForScore
<1> QED
  BY <1>7 DEF score

(* What the measures of a kept schedule are.                                *)
LEMMA KeepingMeasures ==
    ASSUME Keeping
    PROVE  LET m == Measures(habit, log, today)
           IN  /\ m.rate7 \in {One, Unknown} /\ m.rate30 \in {One, Unknown}
               /\ m.prev7 = Unknown \/ m.prev7 \in 0 .. One
               /\ m.miss7 \in {0, Unknown}
               /\ m.emergency30 \in {0, Unknown}
               /\ m.expected7 \in Nat /\ m.completed7 \in Nat /\ m.expected7 <= m.completed7
               /\ m.level = "LOW" /\ m.weakDay = Unknown /\ m.samples \in Nat
               /\ m.difficulty \in 0 .. TooHardTrigger - 1
               /\ (m.samples >= MinSamples /\ habit.schedule = "times_per_week"
                     /\ RecordedSinceStart) => m.rate30 = One
<1> DEFINE m == Measures(habit, log, today)
           short == Window(today, Week)
           medium == Window(today, Medium)
           d7 == RateOf(short)
           d30 == RateOf(medium)
           decline == OrZero(d30.rate) - OrZero(d7.rate)
           rates == WeekdayRates(habit, Done, today)
           weak == IF DOMAIN rates = {} THEN Unknown ELSE WeekdayRisk(rates)
<1>1. /\ today \in Nat /\ Week \in Nat \ {0} /\ Medium \in Nat /\ Long \in Nat
      /\ Week <= Medium /\ Medium <= Long /\ habit \in Habits
  BY AnalyticsAssumption DEF Keeping, TypeOK
<1>2. /\ short \subseteq Window(today, Long) /\ IsFiniteSet(short)
      /\ medium \subseteq Window(today, Long) /\ IsFiniteSet(medium)
      /\ IsFiniteSet(Window(today - Week, Week))
  BY <1>1, FS_Interval DEF Window
<1>3. /\ m.rate7 = d7.rate /\ m.rate30 = d30.rate
      /\ m.prev7 = RateOf(Window(today - Week, Week)).rate
      /\ m.expected7 = d7.expected /\ m.completed7 = d7.completed
      /\ m.miss7 = MissRate(d7)
  BY DEF Measures, RateOf, Done, Loaded
<1>4. /\ m.samples = Cardinality(Since(Medium))
      /\ m.emergency30 = Share(log, Since(Medium), "EMERGENCY")
  BY DEF Measures, Since, Loaded
<1>5. m.weakDay = weak
  BY DEF Measures, Done, Loaded
<1>6. m.level = RiskLevelForScore(ComputeRiskScore(MissRate(d7), MissRate(d30), decline,
                  IF weak = Unknown THEN Unknown ELSE rates[weak],
                  Share(log, Since(Week), "MINIMUM"), Share(log, Since(Week), "EMERGENCY")))
  BY DEF Measures, RateOf, Done, Loaded, Since
<1>7. m.difficulty = DetectDifficulty(log, Since(Week), Since(Medium), decline)
  BY DEF Measures, RateOf, Done, Loaded, Since
<1> HIDE DEF m, short, medium, rates
<1>8. /\ d7.expected \in Nat /\ d7.completed \in Nat /\ d7.expected <= d7.completed
      /\ d7.rate \in {One, Unknown} /\ d30.rate \in {One, Unknown}
  BY <1>2, KeepingRates
<1>9. RateOf(Window(today - Week, Week)).rate = Unknown
        \/ RateOf(Window(today - Week, Week)).rate \in 0 .. One
  BY <1>1, <1>2, RateBounded
<1>10. weak = Unknown
  BY KeepingWeekdays DEF rates
<1> HIDE DEF d7, d30
<1>11. /\ MissRate(d7) \in {0, Unknown} /\ MissRate(d30) \in {0, Unknown}
       /\ decline \in {-One, 0, One}
  BY <1>8 DEF MissRate, One, Unknown, OrZero
<1> HIDE DEF decline, weak
<1>12. m.level = "LOW"
  <2>1. /\ Share(log, Since(Week), "MINIMUM") \in {0, Unknown}
        /\ Share(log, Since(Week), "EMERGENCY") \in {0, Unknown}
    BY <1>1, KeepingShares
  <2> QED
    BY <1>6, <1>10, <1>11, <2>1, LowRisk
<1>13. m.difficulty \in 0 .. TooHardTrigger - 1
  <2>1. /\ Share(log, Since(Week), "MINIMUM") \in {0, Unknown}
        /\ OfKind(log, Since(Week), "EMERGENCY") = 0
        /\ Share(log, Since(Medium), "EMERGENCY") \in {0, Unknown}
        /\ Share(log, Since(Medium), "FULL") \in {One, Unknown}
    BY <1>1, KeepingShares
  <2> QED
    BY <1>7, <1>11, <2>1
       DEF DetectDifficulty, Evidence, Percent, One, Unknown, TooHardTrigger
<1>14. (m.samples >= MinSamples /\ habit.schedule = "times_per_week" /\ RecordedSinceStart)
          => m.rate30 = One
  <2> SUFFICES ASSUME m.samples >= MinSamples, habit.schedule = "times_per_week",
                      RecordedSinceStart
               PROVE  d30.rate = One
    BY <1>3
  <2>1. PICK d \in Since(Medium) : TRUE
    <3>1. Since(Medium) # {}
      BY <1>4, GuidanceAssumption, FS_EmptySet
    <3> QED
      BY <3>1
  <2>2. d \in Loaded /\ d \in 0 .. today /\ d > today - Medium /\ d >= habit.start
    <3>1. d \in Loaded /\ d \in 0 .. today /\ d > today - Medium /\ log[d].kind = "FULL"
      BY KeepingLoads DEF Since
    <3> QED
      BY <3>1 DEF RecordedSinceStart, Missing
  <2>3. d \in medium /\ d \in Done
    BY <1>1, <2>2 DEF medium, Window, Done
  <2>4. CASE d = today
    BY <1>2, <2>3, <2>4, KeepingRates DEF d30
  <2>5. CASE d # today
    <3>1. Scheduled(habit, d)
      BY <2>2 DEF Scheduled, IsScheduledOnDate
    <3>2. Eligible(habit, medium, today) # {}
      BY <2>3, <2>5, <3>1 DEF Eligible
    <3> QED
      BY <1>2, <3>2, KeepingRates DEF d30
  <2> QED
    BY <2>4, <2>5
<1>15. m.emergency30 \in {0, Unknown} /\ m.samples \in Nat
  <2>1. IsFiniteSet(Since(Medium))
    BY KeepingLoads, FS_Subset DEF Since
  <2> QED
    BY <1>1, <1>4, <2>1, KeepingShares, FS_CardinalityType
<1> QED
  BY <1>3, <1>5, <1>8, <1>9, <1>10, <1>11, <1>12, <1>13, <1>14, <1>15 DEF m

(* The labels of a kept schedule.                                           *)
LEMMA KeepingSignals ==
    ASSUME Keeping
    PROVE  DeriveSignals(Measures(habit, log, today))
              \cap {"AT_RISK", "DECLINING", "TOO_HARD", "OVERLOADED"} = {}
<1> DEFINE m == Measures(habit, log, today)
<1>1. /\ m.rate7 \in {One, Unknown} /\ m.rate30 \in {One, Unknown}
      /\ m.miss7 \in {0, Unknown} /\ m.emergency30 \in {0, Unknown}
      /\ m.level = "LOW" /\ m.difficulty \in 0 .. TooHardTrigger - 1
  BY KeepingMeasures
<1> HIDE DEF m
<1>2. /\ ~ (m.rate30 # Unknown /\ m.rate7 # Unknown /\ m.rate30 - m.rate7 > Percent(15))
      /\ ~ (m.miss7 >= Percent(40)) /\ m.level \notin {"HIGH", "CRITICAL"}
      /\ ~ (m.emergency30 >= Percent(25))
      /\ ~ (m.difficulty >= TooHardTrigger)
  BY <1>1 DEF Percent, One, Unknown, TooHardTrigger
<1> QED
  BY <1>2 DEF DeriveSignals, m

(* A sum of one figure.                                                     *)
LEMMA OneFigure ==
    ASSUME NEW r, NEW figure, r[figure] # Unknown, r[figure] \in Nat
    PROVE  /\ DOMAIN Known(<<r>>, figure) = {1}
           /\ Total(Known(<<r>>, figure)) = r[figure]
           /\ Mean(Known(<<r>>, figure)) = r[figure]
<1> DEFINE f == Known(<<r>>, figure)
<1>1. DOMAIN f = {1} /\ f[1] = r[figure]
  BY DEF Known
<1> HIDE DEF f
<1>2. Total(f) = SumOver(f, {1})
  BY <1>1, Zenon DEF Total, SumOver
<1>3. Total(f) = r[figure]
  BY <1>1, <1>2, SumOfOne
<1>4. Cardinality({1}) = 1
  BY FS_Singleton
<1>5. Mean(f) = r[figure]
  BY <1>1, <1>3, <1>4 DEF Mean
<1> QED
  BY <1>1, <1>3, <1>5 DEF f

(* One against the shares that rules go by.                                 *)
LEMMA OneIs ==
    /\ One \in Nat /\ Percent(15) \in Nat /\ Percent(15) > 0
    /\ ~ (One < Percent(50)) /\ ~ (One <= Percent(50)) /\ One # Unknown
  BY DEF One, Percent, Unknown

(* What is not below a rate is no decline from it.                          *)
LEMMA NoDecline ==
    ASSUME NEW rate \in Nat, One <= rate, NEW before \in 0 .. One
    PROVE  ~ (rate - before <= -Percent(15))
  BY OneIs

(* A week that was kept is no worse than the one before.                    *)
LEMMA KeptWeekSteady ==
    ASSUME NEW r, NEW expected \in Nat, NEW completed \in Nat, expected <= completed,
           r.expected7 = expected, r.completed7 = completed,
           r.prev7 = Unknown \/ r.prev7 \in 0 .. One
    PROVE  WeeklyTrend(<<r>>) # "DECLINING"
<1> DEFINE before == Known(<<r>>, "prev7")
           delta == IF expected = 0 \/ DOMAIN before = {} THEN 0
                    ELSE Ratio(completed, expected) - Mean(before)
           trend == IF delta >= Percent(15) THEN "IMPROVING"
                    ELSE IF delta <= -Percent(15) THEN "DECLINING" ELSE "STEADY"
<1>1. /\ Total(Known(<<r>>, "expected7")) = expected
      /\ Total(Known(<<r>>, "completed7")) = completed
  <2>1. expected # Unknown /\ completed # Unknown
    BY DEF Unknown
  <2> QED
    BY <2>1, OneFigure
<1>2. WeeklyTrend(<<r>>) = trend
  BY <1>1, Zenon DEF WeeklyTrend
<1>3. DOMAIN before # {} => Mean(before) \in 0 .. One
  <2>1. CASE r.prev7 = Unknown
    BY <2>1 DEF Known
  <2>2. CASE r.prev7 \in 0 .. One
    <3>1. r.prev7 \in Nat /\ r.prev7 # Unknown
      BY <2>2 DEF Unknown
    <3> QED
      BY <2>2, <3>1, OneFigure
  <2> QED
    BY <2>1, <2>2
<1> HIDE DEF before
<1>4. expected # 0 => Ratio(completed, expected) \in Nat /\ One <= Ratio(completed, expected)
  BY RatioIs
<1>5. ~ (delta <= -Percent(15))
  <2>1. CASE expected = 0 \/ DOMAIN before = {}
    <3>1. delta = 0
      BY <2>1, Zenon
    <3> HIDE DEF delta
    <3>2. ~ (0 <= -Percent(15))
      BY OneIs
    <3> QED
      BY <3>1, <3>2, Zenon
  <2>2. CASE expected # 0 /\ DOMAIN before # {}
    <3>1. delta = Ratio(completed, expected) - Mean(before)
      BY <2>2, Zenon
    <3>2. ~ (Ratio(completed, expected) - Mean(before) <= -Percent(15))
      BY <1>3, <1>4, <2>2, NoDecline
    <3> HIDE DEF delta
    <3> QED
      BY <3>1, <3>2, Zenon
  <2> QED
    BY <2>1, <2>2
<1> HIDE DEF delta
<1> QED
  BY <1>2, <1>5, Zenon

(* The review of a week that was kept.                                      *)
LEMMA KeptWeekPraised ==
    ASSUME NEW r, NEW expected \in Nat, NEW completed \in Nat, expected <= completed,
           r.expected7 = expected, r.completed7 = completed,
           r.prev7 = Unknown \/ r.prev7 \in 0 .. One, r.rate7 \in {One, Unknown}
    PROVE  WeeklyCopy(<<r>>).headline # "DECLINING" /\ "RESTART" \notin WeeklyCopy(<<r>>).focus
<1>1. WeeklyTrend(<<r>>) # "DECLINING"
  BY KeptWeekSteady
<1>2. \A q \in Range(<<r>>) : ~ (q.rate7 # Unknown /\ q.rate7 < Percent(50))
  <2>1. \A q \in Range(<<r>>) : q = r
    BY DEF Range
  <2>2. ~ (One < Percent(50))
    BY OneIs
  <2> QED
    BY <2>1, <2>2
<1>3. WeeklyCopy(<<r>>).headline \in {"FORMING", WeeklyTrend(<<r>>)}
  BY DEF WeeklyCopy
<1>4. "RESTART" \notin WeeklyCopy(<<r>>).focus
  BY <1>2 DEF WeeklyCopy
<1> QED
  BY <1>1, <1>3, <1>4

(* No rule that calls for less applies to a habit that is not at risk.      *)
LEMMA NoRetreat ==
    ASSUME NEW h, NEW r, NEW ctx, r.level = "LOW",
           "AT_RISK" \notin r.signals, "DECLINING" \notin r.signals
    PROVE  EvaluateIntervention(h, r, ctx).type \notin
              {"RECOVERY", "REDUCE_DIFFICULTY", "CHANGE_TIME"}
<1> DEFINE rules == InterventionRules(r, ctx)
           matches == {i \in DOMAIN rules : rules[i].applies}
           first == CHOOSE i \in matches : \A j \in matches : i <= j
           retreat == {"RECOVERY", "REDUCE_DIFFICULTY", "CHANGE_TIME"}
<1>1. DOMAIN rules = 1 .. 10
  BY DEF InterventionRules
<1>2. \A i \in {1, 2, 3, 4, 6, 7} : ~ rules[i].applies
  <2>1. ~ rules[1].applies /\ ~ rules[2].applies /\ ~ rules[3].applies /\ ~ rules[4].applies
    BY DEF InterventionRules, Rule
  <2>2. ~ rules[6].applies
    BY DEF InterventionRules, Rule
  <2>3. ~ rules[7].applies
    BY DEF InterventionRules, Rule, AtRiskToday
  <2> HIDE DEF rules
  <2> QED
    BY <2>1, <2>2, <2>3
<1>3. \A i \in {5, 8, 9, 10} : rules[i].type \notin retreat
  BY DEF InterventionRules, Rule, WeekdayDraft
<1> HIDE DEF rules
<1>4. matches \subseteq {5, 8, 9, 10} /\ matches \subseteq Nat
  BY <1>1, <1>2
<1>5. CASE h.archived \/ ~ r.history \/ matches = {}
  <2>1. EvaluateIntervention(h, r, ctx) = None
    BY <1>5, Zenon DEF EvaluateIntervention, rules
  <2> QED
    BY <2>1 DEF None
<1>6. CASE ~ (h.archived \/ ~ r.history \/ matches = {})
  <2>1. first \in matches
    <3> HIDE DEF matches, first
    <3>1. \E i \in matches : \A j \in matches : i <= j
      BY <1>4, <1>6, Least
    <3> QED
      BY <3>1 DEF first
  <2>2. EvaluateIntervention(h, r, ctx) =
          [id |-> rules[first].id, priority |-> rules[first].priority,
           type |-> rules[first].type, action |-> SuggestedAction(rules[first], h, r),
           signals |-> SourceSignals(rules[first], r)]
    BY <1>6, Zenon DEF EvaluateIntervention, rules
  <2>3. EvaluateIntervention(h, r, ctx).type = rules[first].type
    BY <2>2
  <2> HIDE DEF matches, first
  <2> QED
    BY <1>3, <1>4, <2>1, <2>3
<1> QED
  BY <1>5, <1>6

(* A habit whose rate is full, or unknown and no matter, is not made less.  *)
LEMMA NoLess ==
    ASSUME NEW h, NEW r, "TOO_HARD" \notin r.signals, r.samples \in Nat
    PROVE  LET type == AnalyzeAdaptation(h, r).type
           IN  /\ type # "REDUCE_TARGET"
               /\ ((r.samples >= MinSamples /\ h.schedule = "times_per_week")
                       => r.rate30 = One) => type # "REDUCE_FREQUENCY"
<1> DEFINE late == Proposal("CHANGE_TIME", 50 + Min({30, 5 * r.times.bestCount}))
           fewer == /\ h.schedule = "times_per_week" /\ h.times >= 5
                    /\ OrZero(r.rate30) <= Percent(50)
<1>1. ~ ReduceTarget(h, r)
  BY DEF ReduceTarget
<1>2. ASSUME (r.samples >= MinSamples /\ h.schedule = "times_per_week") => r.rate30 = One
      PROVE  r.samples < MinSamples \/ ~ fewer
  <2>1. MinSamples \in Nat
    BY GuidanceAssumption
  <2>2. r.rate30 = One => ~ (OrZero(r.rate30) <= Percent(50))
    BY OneIs DEF OrZero
  <2> QED
    BY <1>2, <2>1, <2>2
<1> DEFINE less == Proposal("REDUCE_FREQUENCY",
                     45 + (30 * (h.times - ReducedTimes(h.times))) \div h.times
                        + Evidence("TOO_HARD" \in r.signals, 15))
           out == AnalyzeAdaptation(h, r)
<1> HIDE DEF late, less
<1>3. out \in {NoProposal, late} \/ (out = less /\ fewer /\ ~ (r.samples < MinSamples))
  <2>1. CASE ~ r.history \/ r.samples < MinSamples
    BY <2>1, Zenon DEF AnalyzeAdaptation
  <2>2. CASE Thriving(r)
    BY <2>2, Zenon DEF AnalyzeAdaptation
  <2>3. CASE ~ (~ r.history \/ r.samples < MinSamples) /\ ~ Thriving(r)
    BY <1>1, <2>3, Zenon DEF AnalyzeAdaptation, late, less
  <2> QED
    BY <2>1, <2>2, <2>3
<1>4. /\ NoProposal.type = "NONE" /\ late.type = "CHANGE_TIME"
      /\ less.type = "REDUCE_FREQUENCY"
  BY DEF NoProposal, Proposal, late, less
<1> HIDE DEF out, fewer
<1> QED
  BY <1>2, <1>3, <1>4 DEF out

(* The days and the completions of the model.                               *)
THEOREM InsightsTyped ==
    Spec => []TypeOK
<1>1. Init => TypeOK
  BY InsightsAssumption DEF Init, TypeOK
<1>2. TypeOK /\ [Next]_vars => TypeOK'
  <2> SUFFICES ASSUME TypeOK, [Next]_vars PROVE TypeOK'
    OBVIOUS
  <2>0. MaxDay \in Nat
    BY InsightsAssumption
  <2>1. ASSUME NEW d \in 0 .. today, NEW entry \in Entries, Log(d, entry) PROVE TypeOK'
    BY <2>1 DEF TypeOK, Log
  <2>2. ASSUME NEW d \in 0 .. today, Unlog(d) PROVE TypeOK'
    BY <2>2 DEF TypeOK, Unlog
  <2>3. CASE Tomorrow
    BY <2>0, <2>3 DEF TypeOK, Tomorrow
  <2>4. CASE UNCHANGED vars
    BY <2>4 DEF TypeOK, vars
  <2> QED
    BY <2>1, <2>2, <2>3, <2>4 DEF Next
<1> QED
  BY <1>1, <1>2, PTL DEF Spec

(* A user who keeps to the schedule is never told otherwise, whatever the   *)
(* schedule, the windows and the thresholds of a sample are.                *)
THEOREM PerfectAlwaysSafe ==
    Spec => []PerfectIsSafe
<1>1. ASSUME TypeOK, Perfect PROVE PerfectIsSafe
  <2> DEFINE m == Measures(habit, log, today)
             siblings == InterventionContext(habit, OtherReports, today)
  <2>1. Keeping
    BY <1>1 DEF Keeping
  <2>2. Report.signals = DeriveSignals(m)
    BY ReportKeeps DEF Report, ReportOf
  <2>3. /\ Report.level = m.level /\ Report.weakDay = m.weakDay
        /\ Report.rate7 = m.rate7 /\ Report.rate30 = m.rate30 /\ Report.prev7 = m.prev7
        /\ Report.expected7 = m.expected7 /\ Report.completed7 = m.completed7
        /\ Report.samples = m.samples
    BY ReportSays DEF Report, ReportOf
  <2>4. /\ m.rate7 \in {One, Unknown}
        /\ m.prev7 = Unknown \/ m.prev7 \in 0 .. One
        /\ m.expected7 \in Nat /\ m.completed7 \in Nat /\ m.expected7 <= m.completed7
        /\ m.level = "LOW" /\ m.weakDay = Unknown /\ m.samples \in Nat
        /\ (m.samples >= MinSamples /\ habit.schedule = "times_per_week"
              /\ RecordedSinceStart) => m.rate30 = One
    BY <2>1, KeepingMeasures
  <2>5. Report.signals \cap {"AT_RISK", "DECLINING", "TOO_HARD", "OVERLOADED"} = {}
    BY <2>1, <2>2, KeepingSignals
  <2> HIDE DEF m
  <2>6. /\ WeeklyCopy(<<Report>>).headline # "DECLINING"
        /\ "RESTART" \notin WeeklyCopy(<<Report>>).focus
    BY <2>3, <2>4, KeptWeekPraised
  <2>7. Intervention.type \notin {"RECOVERY", "REDUCE_DIFFICULTY", "CHANGE_TIME"}
    <3> HIDE DEF siblings
    <3>1. EvaluateIntervention(habit, Report, siblings).type \notin
             {"RECOVERY", "REDUCE_DIFFICULTY", "CHANGE_TIME"}
      BY <2>3, <2>4, <2>5, NoRetreat
    <3> QED
      BY <3>1 DEF Intervention, siblings
  <2>8. /\ AnalyzeAdaptation(habit, Report).type # "REDUCE_TARGET"
        /\ RecordedSinceStart => AnalyzeAdaptation(habit, Report).type # "REDUCE_FREQUENCY"
    BY <2>3, <2>4, <2>5, NoLess
  <2> QED
    BY <2>3, <2>4, <2>5, <2>6, <2>7, <2>8 DEF PerfectIsSafe
<1>2. TypeOK => PerfectIsSafe
  BY <1>1 DEF PerfectIsSafe
<1> QED
  BY <1>2, InsightsTyped, PTL
=============================================================================
