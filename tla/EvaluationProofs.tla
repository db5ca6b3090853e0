---------------------------- MODULE EvaluationProofs ---------------------------
(***************************************************************************)
(* What holds of `ptax-eval` whatever the parcel service holds, however it *)
(* is paged, wherever a fetch is cut, and whatever is drawn, skipped,      *)
(* labelled and put on sheets.                                             *)
(***************************************************************************)
EXTENDS Evaluation, FiniteSetTheorems, TLAPS

--------------------------------------------------------------------------------
(* build                                                                   *)

\* While it pages, the parcels fetched are the first pages of the service, all full; then
\* they are the first of its parcels, and all of them unless a page came back short.
Paged ==
    /\ service \in Services
    /\ page \in Nat
    /\ build \in {"idle", "paging"} =>
          /\ page * PageSize <= Len(service)
          /\ parcels = SubSeq(service, 1, page * PageSize)
    /\ build = "sampling" =>
          \E k \in 0..Len(service) : parcels = SubSeq(service, 1, k) /\ (k = Len(service) \/ short)

BuildInv == Paged /\ SetIsDrawnFromAll

LEMMA ServiceType == Paged => service \in Seq([pid : Nat, built : Nat, ok : BOOLEAN])
  BY EvalSetAssumption DEF Paged

LEMMA MinOfTwo ==
  ASSUME NEW a \in Nat, NEW b \in Nat
  PROVE  Min({a, b}) = IF a <= b THEN a ELSE b
  <1>1. \A x \in {a, b} : (\A y \in {a, b} : x =< y) <=> x = IF a <= b THEN a ELSE b
    OBVIOUS
  <1>2. (IF a <= b THEN a ELSE b) \in {a, b}
    OBVIOUS
  <1> QED BY <1>1, <1>2 DEF Min

\* A page, or what is answered of it, continues the parcels where the pages before it ended.
LEMMA PageContinues ==
  ASSUME NEW S, NEW s \in Seq(S), NEW k \in Nat, k <= Len(s), NEW m \in k..Len(s),
         NEW j \in 0..(m - k)
  PROVE  /\ SubSeq(s, 1, k) \o SubSeq(SubSeq(s, k + 1, m), 1, j) = SubSeq(s, 1, k + j)
         /\ Len(SubSeq(SubSeq(s, k + 1, m), 1, j)) = j
         /\ k + j \in 0..Len(s)
  <1>1. k + j \in k..Len(s) /\ k + j \in 0..Len(s)
    OBVIOUS
  <1>2. SubSeq(SubSeq(s, k + 1, m), 1, j) = SubSeq(s, k + 1, k + j)
    OBVIOUS
  <1>3. /\ SubSeq(s, 1, k) \o SubSeq(s, k + 1, k + j) = SubSeq(s, 1, k + j)
        /\ Len(SubSeq(s, k + 1, k + j)) = j
    BY <1>1
  <1> QED BY <1>1, <1>2, <1>3

LEMMA BuildInitInv == BuildInit => BuildInv
  <1> SUFFICES ASSUME BuildInit PROVE BuildInv OBVIOUS
  <1> USE EvalSetAssumption DEF BuildInit
  <1>1. service \in Seq([pid : Nat, built : Nat, ok : BOOLEAN]) /\ 0 * PageSize = 0
    OBVIOUS
  <1>2. SubSeq(service, 1, 0) = <<>> /\ 0 <= Len(service)
    BY <1>1
  <1> QED BY <1>1, <1>2 DEF BuildInv, Paged, SetIsDrawnFromAll

\* What is sampled: the strata of the first k parcels of the service.
LEMMA SampledFrom ==
  ASSUME Paged, build = "sampling"
  PROVE  \E k \in 0..Len(service) :
            /\ k = Len(service) \/ short
            /\ DOMAIN parcels = 1..k /\ \A n \in 1..k : parcels[n] = service[n]
            /\ \A s \in Strata : Stratify(s) = Eligible(s, k)
  <1>1. PICK k \in 0..Len(service) : /\ parcels = SubSeq(service, 1, k)
                                     /\ k = Len(service) \/ short
    BY DEF Paged
  <1>2. service \in Seq([pid : Nat, built : Nat, ok : BOOLEAN])
    BY ServiceType
  <1>3. DOMAIN parcels = 1..k /\ \A n \in 1..k : parcels[n] = service[n]
    BY <1>1, <1>2
  <1>4. \A s \in Strata : Stratify(s) = Eligible(s, k)
    BY <1>3 DEF Stratify, Eligible
  <1> QED BY <1>1, <1>3, <1>4

LEMMA EligibleFinite ==
  ASSUME Paged, NEW s, NEW k \in 0..Len(service)
  PROVE  IsFiniteSet(Eligible(s, k)) /\ Cardinality(Eligible(s, k)) \in Nat
  <1>1. k \in Nat
    BY ServiceType
  <1>2. IsFiniteSet(1..k)
    BY <1>1, FS_Interval
  <1>3. Eligible(s, k) \subseteq 1..k
    BY DEF Eligible
  <1> QED BY <1>2, <1>3, FS_Subset, FS_CardinalityType

LEMMA BuildInvNext == BuildInv /\ BuildNext => BuildInv'
  <1> SUFFICES ASSUME BuildInv, BuildNext PROVE BuildInv' OBVIOUS
  <1>0. service \in Seq([pid : Nat, built : Nat, ok : BOOLEAN])
    BY ServiceType DEF BuildInv
  <1>1. CASE BuildStart
    BY <1>1 DEF BuildStart, BuildInv, Paged, SetIsDrawnFromAll
  <1>2. CASE FetchPage
    <2> DEFINE k == page * PageSize
               m == IF k + PageSize <= Len(service) THEN k + PageSize ELSE Len(service)
    <2>1. /\ build = "paging" /\ UNCHANGED <<service, set>> /\ page' = page + 1
      BY <1>2 DEF FetchPage
    <2>2. /\ page \in Nat /\ PageSize \in Nat \ {0} /\ k \in Nat /\ k <= Len(service)
          /\ parcels = SubSeq(service, 1, k) /\ Len(service) \in Nat
          /\ (page + 1) * PageSize = k + PageSize
      BY <1>0, <2>1, EvalSetAssumption DEF BuildInv, Paged
    <2>3. Min({(page + 1) * PageSize, Len(service)}) = m
      <3>1. k + PageSize \in Nat
        BY <2>2
      <3> HIDE DEF k
      <3>2. Min({k + PageSize, Len(service)}) = m
        BY <2>2, <3>1, MinOfTwo
      <3> QED BY <2>2, <3>2
    <2>4. PageAt(page) = SubSeq(service, k + 1, m)
      BY <2>3 DEF PageAt
    <2> HIDE DEF k
    <2>5. m \in k..Len(service) /\ m - k <= PageSize /\ m - k \in Nat
      BY <2>2
    <2>6. Len(PageAt(page)) = m - k
      BY <1>0, <2>2, <2>4, <2>5
    <2>7. PICK j \in 0..(m - k) :
             LET features == SubSeq(PageAt(page), 1, j)
             IN  /\ parcels' = parcels \o features
                 /\ short' = (Len(features) < Len(PageAt(page)))
                 /\ build' = IF Len(features) < PageSize THEN "sampling" ELSE "paging"
      BY <1>2, <2>6 DEF FetchPage, Answers, LastPage
    <2> HIDE DEF m
    <2>8. /\ SubSeq(service, 1, k) \o SubSeq(SubSeq(service, k + 1, m), 1, j) = SubSeq(service, 1, k + j)
          /\ Len(SubSeq(SubSeq(service, k + 1, m), 1, j)) = j
          /\ k + j \in 0..Len(service)
      BY <1>0, <2>2, <2>5, PageContinues
    <2>9. /\ parcels' = SubSeq(service, 1, k + j)
          /\ short' = (j < m - k)
          /\ build' = IF j < PageSize THEN "sampling" ELSE "paging"
      BY <2>2, <2>4, <2>6, <2>7, <2>8
    <2>10. SetIsDrawnFromAll' /\ service' \in Services /\ page' \in Nat
      BY <2>1, <2>2, <2>9 DEF SetIsDrawnFromAll, BuildInv, Paged
    <2>11. CASE j < PageSize
      <3>1. k + j = Len(service) \/ short'
        <4>1. j <= m - k /\ m - k \in Nat /\ (k + PageSize <= Len(service) => m = k + PageSize)
          BY <2>2, <2>5, <2>7 DEF m
        <4>2. CASE j < m - k
          BY <2>9, <4>2
        <4>3. CASE ~(j < m - k)
          <5>1. k + j = m /\ m # k + PageSize
            BY <2>2, <2>5, <2>7, <2>11, <4>1, <4>3
          <5>2. m = Len(service)
            BY <5>1 DEF m
          <5> QED BY <5>1, <5>2
        <4> QED BY <4>2, <4>3
      <3>2. build' = "sampling"
        BY <2>9, <2>11
      <3> QED BY <2>1, <2>8, <2>9, <2>10, <3>1, <3>2 DEF BuildInv, Paged
    <2>12. CASE ~(j < PageSize)
      <3>1. k + j = k + PageSize
        BY <2>2, <2>5, <2>12
      <3>2. build' = "paging"
        BY <2>9, <2>12
      <3>3. page' * PageSize = k + j
        BY <2>1, <2>2, <3>1
      <3> QED BY <2>1, <2>8, <2>9, <2>10, <3>2, <3>3 DEF BuildInv, Paged
    <2> QED BY <2>11, <2>12
  <1>3. CASE BuildFails
    BY <1>3 DEF BuildFails, BuildInv, Paged, SetIsDrawnFromAll
  <1>4. CASE Sample
    <2>1. /\ build = "sampling" /\ build' = "done"
          /\ UNCHANGED <<service, page, parcels, short>>
      BY <1>4 DEF Sample
    <2>2. PICK drawn \in [Strata -> SUBSET {parcels[n].pid : n \in DOMAIN parcels}] :
             /\ \A s \in Strata : /\ drawn[s] \subseteq {parcels[n].pid : n \in Stratify(s)}
                                  /\ Cardinality(drawn[s]) = Take(s)
             /\ set' = [s \in Strata |->
                           [drawn |-> drawn[s], eligible |-> Cardinality(Stratify(s))]]
      BY <1>4 DEF Sample
    <2>3. PICK k \in 0..Len(service) :
             /\ k = Len(service) \/ short
             /\ DOMAIN parcels = 1..k /\ \A n \in 1..k : parcels[n] = service[n]
             /\ \A s \in Strata : Stratify(s) = Eligible(s, k)
      BY <2>1, SampledFrom DEF BuildInv
    <2>4. ASSUME NEW s \in Strata
          PROVE  /\ set'[s].eligible = Cardinality(Eligible(s, k))
                 /\ set'[s].drawn \subseteq {service[n].pid : n \in Eligible(s, k)}
                 /\ \/ Cardinality(set'[s].drawn) = Quota
                    \/ Cardinality(set'[s].drawn) = Cardinality(Eligible(s, k))
      <3>1. Cardinality(Eligible(s, k)) \in Nat
        BY EligibleFinite DEF BuildInv
      <3>2. set'[s].drawn = drawn[s] /\ set'[s].eligible = Cardinality(Eligible(s, k))
        BY <2>2, <2>3
      <3>3. Take(s) \in {Quota, Cardinality(Eligible(s, k))}
        BY <2>3, <3>1, MinOfTwo, EvalSetAssumption DEF Take
      <3>4. {parcels[n].pid : n \in Stratify(s)} \subseteq {service[n].pid : n \in Eligible(s, k)}
        <4>1. \A n \in Eligible(s, k) : n \in 1..k /\ parcels[n] = service[n]
          BY <2>3 DEF Eligible
        <4> QED BY <2>3, <4>1
      <3>5. drawn[s] \subseteq {service[n].pid : n \in Eligible(s, k)}
        BY <2>2, <3>4
      <3> QED BY <2>2, <3>2, <3>3, <3>5
    <2>5. \A s \in Strata : Eligible(s, k)' = Eligible(s, k)
      BY <2>1 DEF Eligible
    <2>6. SetIsDrawnFromAll'
      <3>1. \A s \in Strata :
               /\ set'[s].eligible = Cardinality(Eligible(s, k)')
               /\ set'[s].drawn \subseteq {service'[n].pid : n \in Eligible(s, k)'}
               /\ \/ Cardinality(set'[s].drawn) = Quota
                  \/ Cardinality(set'[s].drawn) = Cardinality(Eligible(s, k)')
        BY <2>1, <2>4, <2>5
      <3> QED BY <2>1, <2>3, <3>1 DEF SetIsDrawnFromAll
    <2> QED BY <2>1, <2>6 DEF BuildInv, Paged
  <1> QED BY <1>1, <1>2, <1>3, <1>4 DEF BuildNext

--------------------------------------------------------------------------------
(* fetch                                                                   *)

FetchType ==
    /\ fetch \in {"idle", "visiting", "clipping", "writing", "recording"}
    /\ fetch \in {"clipping", "writing", "recording"} => item \in Items
    /\ entries \subseteq Items
    /\ toVisit \subseteq Items
    /\ file \in [Items -> {"absent", "partial", "whole"}]
    /\ manifest \in [whole : BOOLEAN, names : SUBSET Items]

\* The manifest on disk is the one the command holds, but while it is written anew.
ManifestFollows ==
    /\ fetch \in {"visiting", "clipping", "writing"} => manifest = [whole |-> TRUE, names |-> entries]
    /\ fetch = "recording" => entries = manifest.names \cup {item} /\ file[item] = "whole"

\* A half-written file is one the manifest does not name, or the one being written, or its
\* rewriting was cut.
PartialIsCut ==
    \A i \in manifest.names :
        file[i] = "partial" => i \in cutRewriting \/ (fetch = "writing" /\ i = item)

\* An item that was visited is in the manifest, and has a file.
VisitedIsThere ==
    fetch # "idle" =>
        \A i \in Items \ toVisit : \/ i \in entries /\ file[i] # "absent"
                                   \/ fetch \in {"clipping", "writing"} /\ i = item

FetchInv == FetchType /\ ManifestFollows /\ PartialIsCut /\ VisitedIsThere

LEMMA FetchInitInv == FetchInit => FetchInv
  BY DEF FetchInit, FetchInv, FetchType, ManifestFollows, PartialIsCut, VisitedIsThere

LEMMA FetchInvNext == FetchInv /\ FetchNext => FetchInv'
  <1> SUFFICES ASSUME FetchInv, FetchNext PROVE FetchInv' OBVIOUS
  <1> USE DEF FetchInv, FetchType, ManifestFollows, PartialIsCut, VisitedIsThere
  <1>1. CASE FetchStart
    BY <1>1 DEF FetchStart
  <1>2. ASSUME NEW i \in Items, Visit(i) PROVE FetchInv'
    BY <1>2 DEF Visit, Reusable
  <1>3. CASE ClipWritten
    <2>1. FetchType'
      BY <1>3 DEF ClipWritten
    <2>2. ManifestFollows'
      BY <1>3 DEF ClipWritten
    <2>3. PartialIsCut'
      BY <1>3 DEF ClipWritten
    <2>4. VisitedIsThere'
      BY <1>3 DEF ClipWritten
    <2> QED BY <2>1, <2>2, <2>3, <2>4
  <1>4. CASE FileWritten
    <2>1. FetchType'
      BY <1>4 DEF FileWritten
    <2>2. ManifestFollows'
      BY <1>4 DEF FileWritten
    <2>3. PartialIsCut'
      BY <1>4 DEF FileWritten
    <2>4. VisitedIsThere'
      BY <1>4 DEF FileWritten
    <2> QED BY <2>1, <2>2, <2>3, <2>4
  <1>5. CASE ManifestWritten
    BY <1>5 DEF ManifestWritten
  <1>6. CASE FetchEnd
    BY <1>6 DEF FetchEnd
  <1>7. CASE FetchCut
    <2>1. FetchType'
      BY <1>7 DEF FetchCut
    <2>2. ManifestFollows'
      BY <1>7 DEF FetchCut
    <2>3. PartialIsCut'
      BY <1>7 DEF FetchCut
    <2>4. VisitedIsThere'
      BY <1>7 DEF FetchCut
    <2> QED BY <2>1, <2>2, <2>3, <2>4
  <1>8. CASE Prune
    <2>1. FetchType'
      <3>1. [whole |-> TRUE, names |-> {}] \in [whole : BOOLEAN, names : SUBSET Items]
        OBVIOUS
      <3>2. manifest' \in [whole : BOOLEAN, names : SUBSET Items]
        <4>1. CASE UNCHANGED manifest
          BY <4>1
        <4>2. CASE manifest' = [whole |-> TRUE, names |-> {}]
          BY <3>1, <4>2
        <4> QED BY <1>8, <4>1, <4>2 DEF Prune
      <3>3. file' \in [Items -> {"absent", "partial", "whole"}]
        BY <1>8 DEF Prune
      <3>4. UNCHANGED <<fetch, item, entries, toVisit>>
        BY <1>8 DEF Prune
      <3> QED BY <3>2, <3>3, <3>4
    <2>2. ManifestFollows'
      BY <1>8 DEF Prune
    <2>3. PartialIsCut'
      BY <1>8 DEF Prune
    <2>4. VisitedIsThere'
      BY <1>8 DEF Prune
    <2> QED BY <2>1, <2>2, <2>3, <2>4
  <1> QED BY <1>1, <1>2, <1>3, <1>4, <1>5, <1>6, <1>7, <1>8 DEF FetchNext

LEMMA FetchInvGives == FetchInv => FetchedIsWhole
  BY DEF FetchInv, FetchType, ManifestFollows, PartialIsCut, VisitedIsThere, FetchedIsWhole

--------------------------------------------------------------------------------
(* score                                                                   *)

Result == [stratum : Strata, skipped : BOOLEAN, score : Nat, flagged : BOOLEAN,
           seen : {"yes", "no", "unknown"}]

\* The results carry the labels from the time they are applied.
ScoreInv ==
    /\ score \in {"idle", "scoring"} => \A p \in DOMAIN results : results[p] \in Result
    /\ score \in {"labelled", "audited"} =>
          /\ DOMAIN results = Drawn
          /\ \A p \in Drawn : results[p] \in Result /\ results[p].seen = labels[p]
    /\ AuditKeepsOutcome

LEMMA ScoreInvNext ==
  ASSUME ScoreInv, EvalNext
  PROVE  ScoreInv'
  <1> USE DEF evalSet, evalCache, scoring
  <1>1. CASE UNCHANGED scoring /\ (score # "idle" => UNCHANGED evalSet)
    <2>1. CASE score = "idle"
      BY <1>1, <2>1 DEF ScoreInv, AuditKeepsOutcome
    <2>2. CASE score # "idle"
      <3>1. Drawn' = Drawn
        BY <1>1, <2>2 DEF Drawn
      <3>2. UNCHANGED <<score, results, labels, corrected>>
        BY <1>1
      <3>3. AuditKeepsOutcome'
        BY <3>1, <3>2 DEF ScoreInv, AuditKeepsOutcome, Scored, Improved
      <3> QED BY <3>1, <3>2, <3>3 DEF ScoreInv
    <2> QED BY <2>1, <2>2
  <1>2. CASE ScoreStart
    BY <1>2 DEF ScoreStart, ScoreInv, AuditKeepsOutcome
  <1>3. ASSUME NEW p \in Drawn, ScoreParcel(p) PROVE ScoreInv'
    <2>1. StratumOf(p) \in Strata
      BY DEF Drawn, StratumOf
    <2>2. PICK r \in Outcomes(StratumOf(p)) : 
             results' = [q \in DOMAIN results \cup {p} |-> IF q = p THEN r ELSE results[q]]
      BY <1>3 DEF ScoreParcel
    <2>3. r \in Result
      <3>1. 0 \in Nat /\ Scores \subseteq Nat
        BY EvaluationAssumption
      <3>2. CASE r = [stratum |-> StratumOf(p), skipped |-> TRUE, score |-> 0, flagged |-> FALSE,
                      seen |-> "unknown"]
        BY <2>1, <3>1, <3>2 DEF Result
      <3>3. CASE r \in [stratum : {StratumOf(p)}, skipped : {FALSE}, score : Scores,
                        flagged : BOOLEAN, seen : {"unknown"}]
        BY <2>1, <3>1, <3>3 DEF Result
      <3> QED BY <2>2, <3>2, <3>3 DEF Outcomes
    <2>4. \A q \in DOMAIN results' : results'[q] = r \/ (q \in DOMAIN results /\ results'[q] = results[q])
      BY <2>2
    <2>5. score = "scoring" /\ score' = "scoring"
      BY <1>3 DEF ScoreParcel
    <2> QED BY <2>3, <2>4, <2>5 DEF ScoreInv, AuditKeepsOutcome
  <1>4. CASE ApplyLabels
    <2>1. /\ score = "scoring" /\ score' = "labelled" /\ DOMAIN results = Drawn /\ Drawn' = Drawn
          /\ labels' \in [Drawn -> {"yes", "no", "unknown"}]
          /\ results' = [p \in Drawn |-> [results[p] EXCEPT !.seen = labels'[p]]]
      BY <1>4 DEF ApplyLabels, Drawn
    <2>2. \A p \in Drawn : results'[p] \in Result /\ results'[p].seen = labels'[p]
      BY <2>1 DEF ScoreInv, Result
    <2> QED BY <2>1, <2>2 DEF ScoreInv, AuditKeepsOutcome
  <1>5. CASE Audit
    <2>1. PICK p \in Drawn, s \in Strata \cup {"excluded"} : corrected' = ApplyAudit([q \in {p} |-> s])
      BY <1>5 DEF Audit
    <2>2. /\ score = "labelled" /\ score' = "audited" /\ DOMAIN results = Drawn /\ Drawn' = Drawn
          /\ UNCHANGED <<labels, results>>
          /\ \A q \in Drawn : results[q] \in Result /\ results[q].seen = labels[q]
      BY <1>5 DEF Audit, Drawn, ScoreInv
    <2>3. \A q \in DOMAIN corrected' : q \in Drawn /\ corrected'[q].seen = labels[q]
      <3>1. \A q \in Drawn : \A t : Restratified(results[q], t).seen = labels[q]
        BY <2>2 DEF Restratified, Result
      <3> QED BY <2>1, <2>2, <3>1 DEF ApplyAudit
    <2>4. AuditKeepsOutcome'
      BY <2>2, <2>3 DEF AuditKeepsOutcome, Improved, Scored
    <2> QED BY <2>2, <2>4 DEF ScoreInv
  <1>6. CASE ChipSheets
    BY <1>6 DEF ChipSheets, ScoreInv, AuditKeepsOutcome
  <1>7. CASE ScoreFails
    BY <1>7 DEF ScoreFails, ScoreInv, AuditKeepsOutcome
  <1> QED BY <1>1, <1>2, <1>3, <1>4, <1>5, <1>6, <1>7 DEF EvalNext

--------------------------------------------------------------------------------
(* Folds over finite sets.  A fold is a function of the parts of the set,  *)
(* so that nothing about it needs an operator as a parameter.              *)

\* A family of finite sets has a smallest member.
LEMMA SmallestOf ==
  ASSUME NEW S, IsFiniteSet(S), NEW F \in SUBSET SUBSET S, F # {}
  PROVE  \E T \in F : \A U \in F : U \subseteq T => U = T
  <1>1. F \subseteq FiniteSubsetsOf(S)
    BY FS_Subset DEF FiniteSubsetsOf
  <1>2. IsWellFoundedOn(StrictSubsetOrdering(S), FiniteSubsetsOf(S))
    BY FS_StrictSubsetOrderingWellFounded
  <1>3. PICK T \in F : \A U \in F : <<U, T>> \notin StrictSubsetOrdering(S)
    <2> DEFINE R == StrictSubsetOrdering(S)
    <2> HIDE DEF R
    <2> QED BY <1>1, <1>2, WFMin, Zenon DEF R
  <1>4. ASSUME NEW U \in F, U \subseteq T, U # T PROVE FALSE
    BY <1>3, <1>4 DEF StrictSubsetOrdering
  <1> QED BY <1>4

\* it folds st over the subsets of S: ch says which element is taken first.
IsFold(S, base, st, ch, it) ==
    it = [T \in SUBSET S |-> IF T = {} THEN base ELSE st[<<ch[T], it[T \ {ch[T]}]>>]]

\* What it folds a part of S to: the definition, one step.
LEMMA FoldAt ==
  ASSUME NEW S, NEW base, NEW st, NEW ch, NEW it, IsFold(S, base, st, ch, it),
         NEW T \in SUBSET S
  PROVE  it[T] = IF T = {} THEN base ELSE st[<<ch[T], it[T \ {ch[T]}]>>]
  <1> DEFINE G(X) == IF X = {} THEN base ELSE st[<<ch[X], it[X \ {ch[X]}]>>]
  <1>1. it = [X \in SUBSET S |-> G(X)]
    BY DEF IsFold
  <1> HIDE DEF G
  <1>2. it[T] = G(T)
    BY <1>1
  <1> QED BY <1>2 DEF G

\* Two of them agree on the parts of S that both are defined on.
LEMMA FoldUnique ==
  ASSUME NEW S, IsFiniteSet(S), NEW base, NEW st, NEW ch,
         \A T \in SUBSET S : T # {} => ch[T] \in T,
         NEW U \in SUBSET S, NEW g, IsFold(U, base, st, ch, g),
         NEW W \in SUBSET S, NEW h, IsFold(W, base, st, ch, h),
         NEW X \in SUBSET U, X \subseteq W
  PROVE  g[X] = h[X]
  <1> DEFINE F == {T \in SUBSET X : g[T] # h[T]}
  <1>1. /\ \A T \in SUBSET U : g[T] = IF T = {} THEN base ELSE st[<<ch[T], g[T \ {ch[T]}]>>]
        /\ \A T \in SUBSET W : h[T] = IF T = {} THEN base ELSE st[<<ch[T], h[T \ {ch[T]}]>>]
    BY FoldAt
  <1>2. ASSUME F # {} PROVE FALSE
    <2>1. F \in SUBSET SUBSET S
      OBVIOUS
    <2>2. PICK T \in F : \A V \in F : V \subseteq T => V = T
      <3> HIDE DEF F
      <3> QED BY <2>1, <1>2, SmallestOf
    <2>3. T \in SUBSET U /\ T \in SUBSET W /\ T # {}
      BY <1>1, <2>2
    <2>4. ch[T] \in T /\ T \ {ch[T]} \in SUBSET X
      BY <2>3, <2>2
    <2>5. g[T \ {ch[T]}] = h[T \ {ch[T]}]
      BY <2>2, <2>4
    <2>6. g[T] = h[T]
      BY <1>1, <2>3, <2>5
    <2> QED BY <2>2, <2>6
  <1> QED BY <1>2

\* There is one, with values in V.
LEMMA FoldExists ==
  ASSUME NEW S, IsFiniteSet(S), NEW V, NEW base \in V, NEW st, NEW ch,
         \A T \in SUBSET S : T # {} => ch[T] \in T,
         \A x \in S : \A v \in V : st[<<x, v>>] \in V
  PROVE  \E it \in [SUBSET S -> V] : IsFold(S, base, st, ch, it)
  <1> DEFINE Is(T, g) == g \in [SUBSET T -> V] /\ IsFold(T, base, st, ch, g)
             None == {T \in SUBSET S : ~ \E g : Is(T, g)}
  <1>1. ASSUME NEW T \in SUBSET S, T # {}, \A U \in SUBSET S : U \subseteq T /\ U # T => \E g : Is(U, g)
        PROVE  \E g : Is(T, g)
    <2> DEFINE At(U) == (CHOOSE g : Is(U, g))
               g == [X \in SUBSET T |->
                       IF X = {} THEN base ELSE st[<<ch[X], At(X \ {ch[X]})[X \ {ch[X]}]>>]]
    <2>1. ASSUME NEW U \in SUBSET T, U # T PROVE Is(U, At(U))
      <3>1. \E f : Is(U, f)
        BY <1>1, <2>1
      <3> HIDE DEF Is
      <3> QED BY <3>1, Zenon
    <2> HIDE DEF At
    <2>2. ASSUME NEW X \in SUBSET T, X # {}
          PROVE  /\ ch[X] \in X /\ X \ {ch[X]} \in SUBSET T /\ X \ {ch[X]} # T
                 /\ At(X \ {ch[X]})[X \ {ch[X]}] \in V
      <3>1. ch[X] \in X /\ X \ {ch[X]} \in SUBSET T /\ X \ {ch[X]} # T
        BY <2>2
      <3>2. Is(X \ {ch[X]}, At(X \ {ch[X]}))
        BY <3>1, <2>1
      <3> QED BY <3>1, <3>2
    <2>3. g \in [SUBSET T -> V]
      <3> SUFFICES ASSUME NEW X \in SUBSET T, X # {}
                   PROVE  st[<<ch[X], At(X \ {ch[X]})[X \ {ch[X]}]>>] \in V
        OBVIOUS
      <3>1. ch[X] \in S /\ At(X \ {ch[X]})[X \ {ch[X]}] \in V
        BY <2>2
      <3> QED BY <3>1
    <2>4. ASSUME NEW Y \in SUBSET T, Y # T PROVE g[Y] = At(Y)[Y]
      <3>1. Is(Y, At(Y))
        BY <2>1, <2>4
      <3>2. At(Y)[Y] = IF Y = {} THEN base ELSE st[<<ch[Y], At(Y)[Y \ {ch[Y]}]>>]
        BY <3>1, FoldAt
      <3>3. CASE Y = {}
        BY <3>2, <3>3
      <3>4. CASE Y # {}
        <4> DEFINE Z == Y \ {ch[Y]}
        <4>1. ch[Y] \in Y /\ Z \in SUBSET T /\ Z # T /\ Z \in SUBSET Y
          BY <2>2, <3>4
        <4>2. Is(Z, At(Z))
          BY <2>1, <4>1
        <4> HIDE DEF Z
        <4>3. At(Y)[Z] = At(Z)[Z]
          <5>1. IsFold(Y, base, st, ch, At(Y)) /\ IsFold(Z, base, st, ch, At(Z))
            BY <3>1, <4>2
          <5>2. Y \in SUBSET S /\ Z \in SUBSET S
            BY <4>1
          <5> HIDE DEF Is
          <5> QED BY <5>1, <5>2, <4>1, FoldUnique
        <4> QED BY <3>2, <3>4, <4>3 DEF Z
      <3> QED BY <3>3, <3>4
    <2>5. \A X \in SUBSET T : g[X] = IF X = {} THEN base ELSE st[<<ch[X], g[X \ {ch[X]}]>>]
      <3> TAKE X \in SUBSET T
      <3>1. CASE X = {}
        BY <3>1
      <3>2. CASE X # {}
        <4>1. g[X] = st[<<ch[X], At(X \ {ch[X]})[X \ {ch[X]}]>>]
          BY <3>2
        <4>2. X \ {ch[X]} \in SUBSET T /\ X \ {ch[X]} # T
          BY <2>2, <3>2
        <4> HIDE DEF g
        <4>3. g[X \ {ch[X]}] = At(X \ {ch[X]})[X \ {ch[X]}]
          BY <2>4, <4>2
        <4> QED BY <4>1, <4>3, <3>2
      <3> QED BY <3>1, <3>2
    <2>6. DOMAIN g = SUBSET T
      OBVIOUS
    <2> HIDE DEF g
    <2>7. IsFold(T, base, st, ch, g)
      BY <2>3, <2>5 DEF IsFold
    <2> QED BY <2>3, <2>7
  <1>2. \E g : Is({}, g)
    <2>1. Is({}, [X \in SUBSET {} |-> base])
      BY DEF IsFold
    <2> QED BY <2>1
  <1>3. ASSUME None # {} PROVE FALSE
    <2>1. PICK T \in None : \A U \in None : U \subseteq T => U = T
      <3> HIDE DEF Is
      <3>1. None \in SUBSET SUBSET S
        OBVIOUS
      <3> HIDE DEF None
      <3> QED BY <3>1, <1>3, SmallestOf
    <2> HIDE DEF Is
    <2>2. T # {}
      BY <2>1, <1>2
    <2>3. \A U \in SUBSET S : U \subseteq T /\ U # T => \E g : Is(U, g)
      BY <2>1
    <2>4. \E g : Is(T, g)
      BY <2>1, <2>2, <2>3, <1>1
    <2> QED BY <2>1, <2>4
  <1> HIDE DEF Is
  <1>4. \E g : Is(S, g)
    BY <1>3
  <1> QED BY <1>4 DEF Is

--------------------------------------------------------------------------------
(* Sums.                                                                   *)

NatOn(S, w) == \A x \in S : w[x] \in Nat

\* The sums over the parts of S, as one function.
AreSums(S, w, it) ==
    /\ it \in [SUBSET S -> Nat]
    /\ it[{}] = 0
    /\ \A T \in SUBSET S : T # {} => \E c \in T : it[T] = w[c] + it[T \ {c}]
    /\ \A U \in SUBSET S : SumFunctionOnSet(w, U) = it[U]

\* SumFunctionOnSet of Functions is such a function: its definition, a CHOOSE of a function
\* of the parts of the set it is asked for, is the same for every part of S.
LEMMA SumIsFold ==
  ASSUME NEW S, IsFiniteSet(S), NEW w, NatOn(S, w)
  PROVE  \E it : AreSums(S, w, it)
  <1> DEFINE pick(T) == CHOOSE x \in T : TRUE
             st == [p \in S \X Nat |-> w[p[1]] + p[2]]
             ch == [T \in SUBSET S |-> pick(T)]
  <1>0. \A x \in S : w[x] \in Nat
    BY DEF NatOn
  <1>1. \A T \in SUBSET S : T # {} => ch[T] \in T
    OBVIOUS
  <1>2. \A x \in S, v \in Nat : st[<<x, v>>] = w[x] + v /\ w[x] \in Nat
    BY <1>0
  <1>3. \A T \in SUBSET S : ch[T] = pick(T)
    OBVIOUS
  <1> HIDE DEF st, ch
  <1>4. \A U \in SUBSET S : \E it \in [SUBSET U -> Nat] : IsFold(U, 0, st, ch, it)
    <2> TAKE U \in SUBSET S
    <2>1. IsFiniteSet(U) /\ 0 \in Nat
      BY FS_Subset
    <2>2. \A x \in U : \A v \in Nat : st[<<x, v>>] \in Nat
      <3> TAKE x \in U
      <3> TAKE v \in Nat
      <3>1. st[<<x, v>>] = w[x] + v /\ w[x] \in Nat
        BY <1>2
      <3> QED BY <3>1
    <2>3. \A T \in SUBSET U : T # {} => ch[T] \in T
      BY <1>1
    <2> QED BY <2>1, <2>2, <2>3, FoldExists
  <1>5. PICK it \in [SUBSET S -> Nat] : IsFold(S, 0, st, ch, it)
    BY <1>4
  <1>6. ASSUME NEW U \in SUBSET S PROVE SumFunctionOnSet(w, U) = it[U]
    <2> DEFINE Q(g) == g = [s \in SUBSET U |-> IF s = {} THEN 0
                                               ELSE LET x == CHOOSE x \in s : TRUE
                                                    IN  w[x] + g[s \ {x}]]
               sum == CHOOSE g : Q(g)
    <2>1. SumFunctionOnSet(w, U) = sum[U]
      BY DEF SumFunctionOnSet, FoldFunctionOnSet, MapThenFoldSet
    <2>2. PICK g \in [SUBSET U -> Nat] : IsFold(U, 0, st, ch, g)
      BY <1>4
    <2>3. ASSUME NEW T \in SUBSET U
          PROVE  g[T] = IF T = {} THEN 0 ELSE w[pick(T)] + g[T \ {pick(T)}]
      <3>1. g[T] = IF T = {} THEN 0 ELSE st[<<ch[T], g[T \ {ch[T]}]>>]
        <4>1. \A t, c : IsFold(U, 0, t, c, g) =>
                \A X \in SUBSET U : g[X] = IF X = {} THEN 0 ELSE t[<<c[X], g[X \ {c[X]}]>>]
          BY FoldAt
        <4> QED BY <2>2, <4>1
      <3>2. T # {} => ch[T] = pick(T) /\ ch[T] \in S /\ g[T \ {ch[T]}] \in Nat
        BY <1>1, <1>3
      <3> HIDE DEF pick
      <3> QED BY <3>1, <3>2, <1>2
    <2>4. Q(g)
      BY <2>3
    <2> HIDE DEF Q
    <2>5. Q(sum)
      BY <2>4, Zenon
    <2>6. ASSUME NEW T \in SUBSET U
          PROVE  sum[T] = IF T = {} THEN 0 ELSE w[pick(T)] + sum[T \ {pick(T)}]
      <3> DEFINE G(s) == IF s = {} THEN 0 ELSE w[pick(s)] + sum[s \ {pick(s)}]
      <3> HIDE DEF sum
      <3>1. sum = [s \in SUBSET U |-> G(s)]
        BY <2>5 DEF Q
      <3> HIDE DEF G
      <3>2. sum[T] = G(T)
        BY <3>1
      <3> QED BY <3>2 DEF G
    <2> HIDE DEF sum
    <2>7. ASSUME NEW T \in {X \in SUBSET U : sum[X] # g[X]},
                 \A V \in {X \in SUBSET U : sum[X] # g[X]} : V \subseteq T => V = T
          PROVE  FALSE
      <3>1. T # {}
        BY <2>3, <2>6
      <3>2. pick(T) \in T
        BY <3>1
      <3> HIDE DEF pick
      <3>3. sum[T \ {pick(T)}] = g[T \ {pick(T)}]
        BY <2>7, <3>2
      <3> QED BY <2>3, <2>6, <2>7, <3>3
    <2>8. \A X \in SUBSET U : sum[X] = g[X]
      <3> DEFINE F == {X \in SUBSET U : sum[X] # g[X]}
      <3>1. IsFiniteSet(U) /\ F \in SUBSET SUBSET U
        BY FS_Subset
      <3>2. \A T \in F : ~ \A V \in F : V \subseteq T => V = T
        BY <2>7
      <3>3. F = {}
        <4> HIDE DEF F
        <4> QED BY <3>1, <3>2, SmallestOf
      <3> QED BY <3>3
    <2>9. g[U] = it[U]
      BY <1>1, <1>5, <2>2, FoldUnique
    <2> QED BY <2>1, <2>8, <2>9
  <1>7. it[{}] = 0
    <2>1. \A X \in SUBSET S : it[X] = IF X = {} THEN 0 ELSE st[<<ch[X], it[X \ {ch[X]}]>>]
      <3>1. \A t, c : IsFold(S, 0, t, c, it) =>
              \A X \in SUBSET S : it[X] = IF X = {} THEN 0 ELSE t[<<c[X], it[X \ {c[X]}]>>]
        BY FoldAt
      <3> QED BY <1>5, <3>1
    <2> QED BY <2>1
  <1>8. ASSUME NEW T \in SUBSET S, T # {} PROVE \E c \in T : it[T] = w[c] + it[T \ {c}]
    <2>1. it[T] = st[<<ch[T], it[T \ {ch[T]}]>>]
      BY <1>5, <1>8, FoldAt
    <2>2. ch[T] \in T /\ ch[T] \in S /\ it[T \ {ch[T]}] \in Nat
      BY <1>1, <1>8
    <2> QED BY <2>1, <2>2, <1>2
  <1>9. AreSums(S, w, it)
    BY <1>6, <1>7, <1>8 DEF AreSums
  <1> QED BY <1>9

\* Adding one element at a time reaches every part of a finite set.
LEMMA PartInduction ==
  ASSUME NEW S, IsFiniteSet(S), NEW P, {} \in P,
         \A T \in SUBSET S : \A x \in S \ T : T \in P => T \cup {x} \in P
  PROVE  \A T \in SUBSET S : T \in P
  <1> DEFINE F == {T \in SUBSET S : T \notin P}
  <1>1. ASSUME NEW T \in F, \A U \in F : U \subseteq T => U = T PROVE FALSE
    <2>1. PICK x : x \in T
      BY <1>1
    <2>2. T \ {x} \in SUBSET S /\ T \ {x} \in P /\ x \in S \ (T \ {x}) /\ (T \ {x}) \cup {x} = T
      BY <1>1, <2>1
    <2> QED BY <1>1, <2>2
  <1>2. F \in SUBSET SUBSET S
    OBVIOUS
  <1>3. F = {}
    <2> HIDE DEF F
    <2> QED BY <1>1, <1>2, SmallestOf
  <1> QED BY <1>3

\* A sum splits off any of its elements, not only the one that the definition chooses.
LEMMA SumFacts ==
  ASSUME NEW S, IsFiniteSet(S), NEW w, NatOn(S, w)
  PROVE  /\ SumFunctionOnSet(w, {}) = 0
         /\ \A U \in SUBSET S : /\ SumFunctionOnSet(w, U) \in Nat
                                /\ \A x \in U : SumFunctionOnSet(w, U)
                                                   = w[x] + SumFunctionOnSet(w, U \ {x})
  <1>0. PICK it : AreSums(S, w, it)
    BY SumIsFold
  <1>1. /\ it \in [SUBSET S -> Nat]
        /\ it[{}] = 0
        /\ \A T \in SUBSET S : T # {} => \E c \in T : it[T] = w[c] + it[T \ {c}]
        /\ \A U \in SUBSET S : SumFunctionOnSet(w, U) = it[U]
    BY <1>0 DEF AreSums
  <1>w. \A x \in S : w[x] \in Nat
    BY DEF NatOn
  <1> DEFINE F == {T \in SUBSET S : \E x \in T : it[T] # w[x] + it[T \ {x}]}
  <1>2. ASSUME NEW T \in F, \A U \in F : U \subseteq T => U = T PROVE FALSE
    <2>1. PICK x \in T : it[T] # w[x] + it[T \ {x}]
      OBVIOUS
    <2>2. PICK c \in T : it[T] = w[c] + it[T \ {c}]
      BY <1>1
    <2>3. x # c
      BY <2>1, <2>2
    <2>4. /\ T \ {c} \in SUBSET S /\ T \ {c} \notin F /\ x \in T \ {c}
          /\ T \ {x} \in SUBSET S /\ T \ {x} \notin F /\ c \in T \ {x}
      BY <1>2, <2>3
    <2>5. it[T \ {c}] = w[x] + it[(T \ {c}) \ {x}] /\ it[T \ {x}] = w[c] + it[(T \ {x}) \ {c}]
      BY <2>4
    <2> DEFINE R == T \ {x, c}
               r == it[R]
    <2>6. (T \ {c}) \ {x} = R /\ (T \ {x}) \ {c} = R /\ R \in SUBSET S
      OBVIOUS
    <2>7. it[T \ {c}] = w[x] + r /\ it[T \ {x}] = w[c] + r
      BY <2>5, <2>6
    <2>8. w[x] \in Nat /\ w[c] \in Nat /\ r \in Nat
      <3>1. x \in S /\ c \in S
        OBVIOUS
      <3> QED BY <1>1, <1>w, <2>6, <3>1
    <2> HIDE DEF r
    <2>9. w[c] + (w[x] + r) = w[x] + (w[c] + r)
      BY <2>8
    <2> QED BY <2>1, <2>2, <2>7, <2>9
  <1>3. F \in SUBSET SUBSET S
    OBVIOUS
  <1>4. F = {}
    <2> HIDE DEF F
    <2> QED BY <1>2, <1>3, SmallestOf
  <1>5. \A T \in SUBSET S : \A x \in T : it[T] = w[x] + it[T \ {x}]
    BY <1>4
  <1>6. {} \in SUBSET S /\ \A T \in SUBSET S : \A x \in T : T \ {x} \in SUBSET S
    OBVIOUS
  <1> HIDE DEF F
  <1> QED BY <1>1, <1>5, <1>6

\* The sum of a disjoint union.
LEMMA SumUnion ==
  ASSUME NEW S, IsFiniteSet(S), NEW w, NatOn(S, w),
         NEW A \in SUBSET S, NEW B \in SUBSET S, A \cap B = {}
  PROVE  SumFunctionOnSet(w, A \cup B) = SumFunctionOnSet(w, A) + SumFunctionOnSet(w, B)
  <1> DEFINE Sum(U) == SumFunctionOnSet(w, U)
             P == {T \in SUBSET B : Sum(A \cup T) = Sum(A) + Sum(T)}
  <1>1. /\ Sum({}) = 0
        /\ \A U \in SUBSET S : Sum(U) \in Nat /\ \A x \in U : Sum(U) = w[x] + Sum(U \ {x})
    BY SumFacts
  <1> HIDE DEF Sum
  <1>2. {} \in P
    <2>1. Sum(A) \in Nat /\ A \cup {} = A
      BY <1>1
    <2> QED BY <1>1, <2>1
  <1>3. ASSUME NEW T \in SUBSET B, NEW x \in B \ T, T \in P PROVE T \cup {x} \in P
    <2>1. /\ (A \cup (T \cup {x})) \ {x} = A \cup T /\ (T \cup {x}) \ {x} = T
          /\ A \cup (T \cup {x}) \in SUBSET S /\ T \cup {x} \in SUBSET S /\ T \in SUBSET S
          /\ x \in S
      OBVIOUS
    <2>2. Sum(A \cup (T \cup {x})) = w[x] + Sum(A \cup T) /\ Sum(T \cup {x}) = w[x] + Sum(T)
      BY <1>1, <2>1
    <2>3. Sum(A \cup T) = Sum(A) + Sum(T) /\ Sum(A) \in Nat /\ Sum(T) \in Nat /\ w[x] \in Nat
      BY <1>1, <1>3, <2>1 DEF NatOn
    <2> QED BY <2>2, <2>3
  <1>4. IsFiniteSet(B)
    BY FS_Subset
  <1>5. B \in P
    <2> HIDE DEF P
    <2>1. \A T \in SUBSET B : T \in P
      BY <1>2, <1>3, <1>4, PartInduction
    <2> QED BY <2>1
  <1> QED BY <1>5 DEF Sum

\* A part never sums to more than the whole.
LEMMA SumOfPart ==
  ASSUME NEW S, IsFiniteSet(S), NEW w, NatOn(S, w), NEW A \in SUBSET S
  PROVE  /\ SumFunctionOnSet(w, A) <= SumFunctionOnSet(w, S)
         /\ SumFunctionOnSet(w, S) = SumFunctionOnSet(w, A) + SumFunctionOnSet(w, S \ A)
  <1>1. S \ A \in SUBSET S /\ A \cap (S \ A) = {} /\ A \cup (S \ A) = S
    OBVIOUS
  <1>2. SumFunctionOnSet(w, A \cup (S \ A)) = SumFunctionOnSet(w, A) + SumFunctionOnSet(w, S \ A)
    BY <1>1, SumUnion
  <1>3. SumFunctionOnSet(w, A) \in Nat /\ SumFunctionOnSet(w, S \ A) \in Nat
    BY <1>1, SumFacts
  <1>4. SumFunctionOnSet(w, S) = SumFunctionOnSet(w, A) + SumFunctionOnSet(w, S \ A)
    <2> DEFINE B == S \ A
    <2> HIDE DEF B
    <2> QED BY <1>1, <1>2 DEF B
  <1> DEFINE a == SumFunctionOnSet(w, A)
             b == SumFunctionOnSet(w, S \ A)
  <1>5. a <= a + b
    <2> HIDE DEF a, b
    <2>1. a \in Nat /\ b \in Nat
      BY <1>3 DEF a, b
    <2> QED BY <2>1
  <1> QED BY <1>4, <1>5

\* Two sums whose terms are in a fixed proportion are in it too.
LEMMA SumScaled ==
  ASSUME NEW S, IsFiniteSet(S), NEW w, NEW v, NEW k \in Nat,
         NatOn(S, v), \A x \in S : w[x] = k * v[x]
  PROVE  SumFunctionOnSet(w, S) = k * SumFunctionOnSet(v, S)
  <1> DEFINE W(U) == SumFunctionOnSet(w, U)
             V(U) == SumFunctionOnSet(v, U)
             P == {T \in SUBSET S : W(T) = k * V(T)}
  <1>0. NatOn(S, w)
    BY DEF NatOn
  <1>1. /\ W({}) = 0 /\ V({}) = 0
        /\ \A U \in SUBSET S : W(U) \in Nat /\ \A x \in U : W(U) = w[x] + W(U \ {x})
        /\ \A U \in SUBSET S : V(U) \in Nat /\ \A x \in U : V(U) = v[x] + V(U \ {x})
    <2>1. /\ V({}) = 0
          /\ \A U \in SUBSET S : V(U) \in Nat /\ \A x \in U : V(U) = v[x] + V(U \ {x})
      BY SumFacts
    <2>2. /\ W({}) = 0
          /\ \A U \in SUBSET S : W(U) \in Nat /\ \A x \in U : W(U) = w[x] + W(U \ {x})
      BY <1>0, SumFacts
    <2> QED BY <2>1, <2>2
  <1> HIDE DEF W, V
  <1>2. {} \in P
    BY <1>1
  <1>3. ASSUME NEW T \in SUBSET S, NEW x \in S \ T, T \in P PROVE T \cup {x} \in P
    <2>1. (T \cup {x}) \ {x} = T /\ T \cup {x} \in SUBSET S
      OBVIOUS
    <2>2. W(T \cup {x}) = w[x] + W(T) /\ V(T \cup {x}) = v[x] + V(T)
      BY <1>1, <2>1
    <2>3. V(T) \in Nat /\ v[x] \in Nat /\ w[x] = k * v[x] /\ W(T) = k * V(T)
      BY <1>1, <1>3 DEF NatOn
    <2>4. k * (v[x] + V(T)) = k * v[x] + k * V(T)
      BY <2>3
    <2>5. W(T \cup {x}) = k * V(T \cup {x})
      BY <2>2, <2>3, <2>4
    <2> QED BY <2>5
  <1>4. S \in P
    <2> HIDE DEF P
    <2> QED BY <1>2, <1>3, PartInduction
  <1> QED BY <1>4 DEF W, V

\* Two sums of the same terms.
LEMMA SumSame ==
  ASSUME NEW S, IsFiniteSet(S), NEW w, NEW v, NatOn(S, v), \A x \in S : w[x] = v[x]
  PROVE  SumFunctionOnSet(w, S) = SumFunctionOnSet(v, S)
  <1>1. \A x \in S : w[x] = 1 * v[x]
    BY DEF NatOn
  <1>2. SumFunctionOnSet(w, S) = 1 * SumFunctionOnSet(v, S)
    BY <1>1, SumScaled
  <1>3. SumFunctionOnSet(v, S) \in Nat
    BY SumFacts
  <1> QED BY <1>2, <1>3

\* A sum of equal terms.
LEMMA SumConstant ==
  ASSUME NEW S, IsFiniteSet(S), NEW w, NEW k \in Nat, \A x \in S : w[x] = k
  PROVE  SumFunctionOnSet(w, S) = Cardinality(S) * k
  <1> DEFINE W(U) == SumFunctionOnSet(w, U)
             P == {T \in SUBSET S : W(T) = Cardinality(T) * k}
  <1>1. /\ W({}) = 0
        /\ \A U \in SUBSET S : W(U) \in Nat /\ \A x \in U : W(U) = w[x] + W(U \ {x})
    <2>1. NatOn(S, w)
      BY DEF NatOn
    <2> QED BY <2>1, SumFacts
  <1> HIDE DEF W
  <1>2. {} \in P
    BY <1>1, FS_EmptySet
  <1>3. ASSUME NEW T \in SUBSET S, NEW x \in S \ T, T \in P PROVE T \cup {x} \in P
    <2>1. (T \cup {x}) \ {x} = T /\ T \cup {x} \in SUBSET S
      OBVIOUS
    <2>2. W(T \cup {x}) = k + Cardinality(T) * k
      BY <1>1, <1>3, <2>1
    <2>3. Cardinality(T \cup {x}) = Cardinality(T) + 1 /\ Cardinality(T) \in Nat
      BY FS_Subset, FS_AddElement, FS_CardinalityType
    <2>4. W(T \cup {x}) = Cardinality(T \cup {x}) * k
      BY <2>2, <2>3
    <2> QED BY <2>4
  <1>4. S \in P
    <2> HIDE DEF P
    <2> QED BY <1>2, <1>3, PartInduction
  <1> QED BY <1>4 DEF W

Keyed(S, key, k) == {x \in S : key[x] = k}

\* The sum over S is the sum over the keys of the sums of the elements of each key.
LEMMA SumByKey ==
  ASSUME NEW S, IsFiniteSet(S), NEW w, NatOn(S, w), NEW K, IsFiniteSet(K), NEW key,
         \A x \in S : key[x] \in K, NEW v,
         \A k \in K : v[k] = SumFunctionOnSet(w, Keyed(S, key, k))
  PROVE  SumFunctionOnSet(w, S) = SumFunctionOnSet(v, K)
  <1> DEFINE W(U) == SumFunctionOnSet(w, U)
             V(U) == SumFunctionOnSet(v, U)
             Of(T) == {x \in S : key[x] \in T}
             P == {T \in SUBSET K : W(Of(T)) = V(T)}
  <1>1. W({}) = 0 /\ \A U \in SUBSET S : W(U) \in Nat
    BY SumFacts
  <1>2. NatOn(K, v)
    BY <1>1 DEF NatOn, Keyed
  <1>3. V({}) = 0 /\ \A U \in SUBSET K : V(U) \in Nat /\ \A k \in U : V(U) = v[k] + V(U \ {k})
    BY <1>2, SumFacts
  <1>4. \A A, B \in SUBSET S : A \cap B = {} => W(A \cup B) = W(A) + W(B)
    BY SumUnion
  <1>5. \A k \in K : v[k] = W({x \in S : key[x] = k})
    BY DEF Keyed
  <1> HIDE DEF W, V
  <1>6. {} \in P
    <2>1. Of({}) = {}
      OBVIOUS
    <2> QED BY <1>1, <1>3, <2>1
  <1>7. ASSUME NEW T \in SUBSET K, NEW k \in K \ T, T \in P PROVE T \cup {k} \in P
    <2> DEFINE Own == {x \in S : key[x] = k}
    <2>1. Of(T \cup {k}) = Of(T) \cup Own /\ Of(T) \cap Own = {}
      OBVIOUS
    <2>2. W(Of(T \cup {k})) = W(Of(T)) + W(Own)
      BY <1>4, <2>1
    <2>3. (T \cup {k}) \ {k} = T /\ T \cup {k} \in SUBSET K
      OBVIOUS
    <2>4. V(T \cup {k}) = v[k] + V(T)
      BY <1>3, <2>3
    <2>5. W(Of(T)) = V(T) /\ v[k] = W(Own) /\ V(T) \in Nat /\ W(Own) \in Nat
      BY <1>1, <1>3, <1>5, <1>7
    <2>6. W(Of(T \cup {k})) = V(T \cup {k})
      BY <2>2, <2>4, <2>5
    <2> QED BY <2>6
  <1>8. K \in P
    <2> HIDE DEF P
    <2> QED BY <1>6, <1>7, PartInduction
  <1>9. Of(K) = S
    OBVIOUS
  <1> QED BY <1>8, <1>9 DEF W, V

--------------------------------------------------------------------------------
(* The strata of the set, and of the results.                              *)

\* The samples of a set that was written are small, and no parcel is in two of them.
DrawnInv ==
    build = "done" =>
        /\ \A s \in Strata : /\ IsFiniteSet(set[s].drawn) /\ set[s].drawn \subseteq Nat
                             /\ Cardinality(set[s].drawn) <= Quota
        /\ \A s, t \in Strata : s # t => set[s].drawn \cap set[t].drawn = {}

\* A result has the stratum that its parcel was drawn from.
StrataInv ==
    /\ score # "idle" => build = "done"
    /\ score \in {"idle", "scoring", "labelled", "audited"} =>
          \A p \in DOMAIN results : p \in Drawn /\ results[p].stratum = StratumOf(p)
    /\ score = "idle" => DOMAIN results = {}

\* The corrected results are results of the parcels that were drawn, and the one that was
\* moved is the most a sample can gain.
CorrectedInv ==
    score = "audited" =>
        /\ DOMAIN corrected \subseteq Drawn
        /\ \A p \in DOMAIN corrected : corrected[p] \in Result
        /\ \A s \in Strata : Count(corrected, s) <= Quota + 1

\* The samples are drawn at once, from strata that share no parcel.
LEMMA DrawnInvNext ==
  ASSUME BuildInv, DrawnInv, EvalNext
  PROVE  DrawnInv'
  <1>1. CASE Sample
    <2>0. service \in Seq([pid : Nat, built : Nat, ok : BOOLEAN]) /\ Paged
      BY ServiceType DEF BuildInv
    <2>1. build = "sampling" /\ build' = "done"
      BY <1>1 DEF Sample
    <2>2. PICK drawn \in [Strata -> SUBSET {parcels[n].pid : n \in DOMAIN parcels}] :
             /\ \A s \in Strata : /\ drawn[s] \subseteq {parcels[n].pid : n \in Stratify(s)}
                                  /\ Cardinality(drawn[s]) = Take(s)
             /\ set' = [s \in Strata |->
                           [drawn |-> drawn[s], eligible |-> Cardinality(Stratify(s))]]
      BY <1>1 DEF Sample
    <2>3. PICK k \in 0..Len(service) :
             /\ DOMAIN parcels = 1..k /\ \A n \in 1..k : parcels[n] = service[n]
             /\ \A s \in Strata : Stratify(s) = Eligible(s, k)
      BY <2>0, <2>1, SampledFrom
    <2> DEFINE Pids(s) == {service[n].pid : n \in Eligible(s, k)}
    <2>4. \A n \in 1..k : n \in DOMAIN service /\ service[n].pid \in Nat
      <3> TAKE n \in 1..k
      <3> DEFINE R == [pid : Nat, built : Nat, ok : BOOLEAN]
      <3>1. service \in Seq(R) /\ n \in DOMAIN service
        BY <2>0
      <3>2. service[n] \in R
        <4> HIDE DEF R
        <4> QED BY <3>1
      <3> QED BY <3>1, <3>2
    <2>5. ASSUME NEW s \in Strata PROVE drawn[s] \subseteq Pids(s)
      <3>1. \A n \in Eligible(s, k) : n \in 1..k /\ parcels[n] = service[n]
        BY <2>3 DEF Eligible
      <3> QED BY <2>2, <2>3, <3>1
    <2>6. \A s \in Strata : set'[s].drawn = drawn[s]
      BY <2>2
    <2>7. \A s, t \in Strata : s # t => Pids(s) \cap Pids(t) = {}
      <3>1. \A n, m \in DOMAIN service : service[n].pid = service[m].pid => n = m
        BY <2>0, EvalSetAssumption DEF Paged
      <3> QED BY <2>4, <3>1 DEF Eligible
    <2>8. ASSUME NEW s \in Strata
          PROVE  /\ IsFiniteSet(set'[s].drawn) /\ set'[s].drawn \subseteq Nat
                 /\ Cardinality(set'[s].drawn) <= Quota
      <3> DEFINE all == Eligible(s, k)
      <3>1. IsFiniteSet(all) /\ Cardinality(all) \in Nat
        BY <2>0, EligibleFinite
      <3>2. IsFiniteSet({service[n].pid : n \in all})
        <4> DEFINE f == [n \in all |-> service[n].pid]
        <4>1. f \in Surjection(all, {service[n].pid : n \in all})
          BY DEF Surjection
        <4> HIDE DEF all, f
        <4> QED BY <3>1, <4>1, FS_Surjection
      <3>3. Pids(s) \subseteq Nat
        BY <2>4 DEF Eligible
      <3>4. Take(s) <= Quota
        <4>1. Cardinality(all) \in Nat /\ Quota \in Nat
          BY <3>1, EvalSetAssumption
        <4>2. Take(s) = IF Quota <= Cardinality(all) THEN Quota ELSE Cardinality(all)
          BY <2>3, <4>1, MinOfTwo DEF Take
        <4> QED BY <4>1, <4>2
      <3>5. IsFiniteSet(drawn[s])
        BY <2>5, <3>2, FS_Subset
      <3> HIDE DEF Pids
      <3> QED BY <2>2, <2>5, <2>6, <3>3, <3>4, <3>5
    <2>9. \A s, t \in Strata : s # t => set'[s].drawn \cap set'[t].drawn = {}
      <3> HIDE DEF Pids
      <3> QED BY <2>5, <2>6, <2>7
    <2> QED BY <2>8, <2>9 DEF DrawnInv
  <1>2. CASE BuildStart \/ FetchPage \/ BuildFails
    <2>1. build' # "done"
      BY <1>2 DEF BuildStart, FetchPage, BuildFails
    <2> QED BY <2>1 DEF DrawnInv
  <1>3. CASE UNCHANGED evalSet
    BY <1>3 DEF evalSet, DrawnInv
  <1> QED BY <1>1, <1>2, <1>3
      DEF EvalNext, BuildNext, ScoreStart, ScoreFails, ScoreParcel, ApplyLabels, Audit, ChipSheets

\* Labels change what was seen, and only the audit, elsewhere, a stratum.
LEMMA StrataInvNext ==
  ASSUME StrataInv, ScoreInv, EvalNext
  PROVE  StrataInv'
  <1> USE DEF evalSet, evalCache, scoring
  <1>1. CASE score = "idle" /\ BuildNext /\ UNCHANGED <<evalCache, scoring>>
    BY <1>1 DEF StrataInv
  <1>2. CASE build = "done" /\ score = "idle" /\ FetchNext /\ UNCHANGED <<evalSet, scoring>>
    BY <1>2 DEF StrataInv
  <1>3. CASE \/ ScoreStart \/ ScoreFails \/ ApplyLabels \/ Audit \/ ChipSheets
            \/ \E p \in Drawn : ScoreParcel(p)
    <2>1. UNCHANGED evalSet
      BY <1>3 DEF ScoreStart, ScoreFails, ApplyLabels, Audit, ChipSheets, ScoreParcel
    <2>2. Drawn' = Drawn /\ \A p : StratumOf(p)' = StratumOf(p)
      BY <2>1 DEF Drawn, StratumOf
    <2>3. CASE ScoreStart \/ ScoreFails \/ Audit \/ ChipSheets
      BY <2>1, <2>2, <2>3 DEF ScoreStart, ScoreFails, Audit, ChipSheets, StrataInv
    <2>4. CASE ApplyLabels
      <3>1. /\ score = "scoring" /\ score' = "labelled" /\ DOMAIN results = Drawn
            /\ results' = [p \in Drawn |-> [results[p] EXCEPT !.seen = labels'[p]]]
        BY <2>4 DEF ApplyLabels
      <3>2. \A p \in Drawn : results[p] \in Result
        BY <3>1 DEF ScoreInv
      <3>3. \A p \in Drawn : results'[p].stratum = results[p].stratum
        BY <3>1, <3>2 DEF Result
      <3> QED BY <2>1, <2>2, <3>1, <3>3 DEF StrataInv
    <2>5. ASSUME NEW p \in Drawn, ScoreParcel(p) PROVE StrataInv'
      <3>1. PICK r \in Outcomes(StratumOf(p)) :
               results' = [q \in DOMAIN results \cup {p} |-> IF q = p THEN r ELSE results[q]]
        BY <2>5 DEF ScoreParcel
      <3>2. r.stratum = StratumOf(p)
        <4> DEFINE s == StratumOf(p)
        <4> HIDE DEF s
        <4>1. r \in Outcomes(s)
          BY <3>1 DEF s
        <4>2. CASE r \in [stratum : {s}, skipped : {FALSE}, score : Scores, flagged : BOOLEAN,
                          seen : {"unknown"}]
          BY <4>2 DEF s
        <4>3. CASE r = [stratum |-> s, skipped |-> TRUE, score |-> 0, flagged |-> FALSE,
                        seen |-> "unknown"]
          BY <4>3 DEF s
        <4> QED BY <4>1, <4>2, <4>3 DEF Outcomes
      <3>3. score = "scoring" /\ score' = "scoring"
        BY <2>5 DEF ScoreParcel
      <3>4. \A q \in DOMAIN results' : q \in Drawn /\ results'[q].stratum = StratumOf(q)
        BY <3>1, <3>2, <3>3 DEF StrataInv
      <3> QED BY <2>1, <2>2, <3>3, <3>4 DEF StrataInv
    <2> QED BY <1>3, <2>3, <2>4, <2>5
  <1> QED BY <1>1, <1>2, <1>3 DEF EvalNext

\* The set as the scoring takes it: DrawnInv, and what it says of all the parcels drawn.
LEMMA DrawnFacts ==
  ASSUME DrawnInv, build = "done"
  PROVE  /\ IsFiniteSet(Drawn) /\ Drawn \subseteq Nat
         /\ \A p \in Drawn : StratumOf(p) \in Strata
         /\ \A s \in Strata : \A p \in Drawn : p \in set[s].drawn <=> StratumOf(p) = s
         /\ \A s \in Strata : /\ IsFiniteSet(set[s].drawn)
                              /\ Cardinality(set[s].drawn) <= Quota
  <1>1. /\ \A s \in Strata : /\ IsFiniteSet(set[s].drawn) /\ set[s].drawn \subseteq Nat
                             /\ Cardinality(set[s].drawn) <= Quota
        /\ \A s, t \in Strata : s # t => set[s].drawn \cap set[t].drawn = {}
    BY DEF DrawnInv
  <1>2. ASSUME NEW p \in Drawn
        PROVE  /\ StratumOf(p) \in Strata
               /\ \A s \in Strata : p \in set[s].drawn <=> StratumOf(p) = s
    <2>1. \E s \in Strata : p \in set[s].drawn
      BY DEF Drawn
    <2>2. StratumOf(p) \in Strata /\ p \in set[StratumOf(p)].drawn
      BY <2>1 DEF StratumOf
    <2> HIDE DEF StratumOf
    <2> QED BY <1>1, <2>2
  <1>3. IsFiniteSet(Drawn)
    <2>1. Drawn = (set["positive"].drawn \cup set["negative_old"].drawn)
                      \cup set["negative_future"].drawn
      BY DEF Drawn, Strata
    <2>2. /\ IsFiniteSet(set["positive"].drawn) /\ IsFiniteSet(set["negative_old"].drawn)
          /\ IsFiniteSet(set["negative_future"].drawn)
      BY <1>1 DEF Strata
    <2>3. IsFiniteSet(set["positive"].drawn \cup set["negative_old"].drawn)
      BY <2>2, FS_Union
    <2> QED BY <2>1, <2>2, <2>3, FS_Union
  <1>4. Drawn \subseteq Nat
    BY <1>1 DEF Drawn
  <1> QED BY <1>1, <1>2, <1>3, <1>4

--------------------------------------------------------------------------------
(* The weights.                                                            *)

\* Sums of weights, whatever function they are taken from.
LEMMA WeightsAsSum ==
  ASSUME NEW rs, NEW ps, IsFiniteSet(ps), NEW S, ps \subseteq S,
         NatOn(ps, [p \in S |-> Weight(rs, rs[p].stratum)])
  PROVE  Weights(rs, ps) = SumFunctionOnSet([p \in S |-> Weight(rs, rs[p].stratum)], ps)
  <1> DEFINE w == [p \in ps |-> Weight(rs, rs[p].stratum)]
             v == [p \in S |-> Weight(rs, rs[p].stratum)]
  <1>1. \A p \in ps : w[p] = v[p]
    OBVIOUS
  <1>2. Weights(rs, ps) = SumFunctionOnSet(w, ps)
    <2>1. DOMAIN w = ps
      OBVIOUS
    <2> QED BY <2>1 DEF Weights, SumFunction
  <1>3. NatOn(ps, v)
    OBVIOUS
  <1> HIDE DEF w, v
  <1>4. SumFunctionOnSet(w, ps) = SumFunctionOnSet(v, ps)
    BY <1>1, <1>3, SumSame
  <1> QED BY <1>2, <1>4 DEF v

\* Scale is divided without a rest among the parcels of a sample.
LEMMA DivideWhole ==
  ASSUME NEW n \in 1..Quota + 1
  PROVE  Scale \div n \in Nat /\ n * (Scale \div n) = Scale
  <1>1. Quota \in Nat /\ Scale \in Nat /\ Scale % n = 0 /\ n \in Nat \ {0}
    <2>1. Quota \in Nat /\ Scale \in Nat
      BY EvalSetAssumption, EvaluationAssumption
    <2>2. Scale % n = 0
      BY EvaluationAssumption
    <2> QED BY <2>1, <2>2
  <1> QED BY <1>1

\* What one stratum carries is its county count, and so what they all carry is the county's.
LEMMA TotalIsCounty ==
  ASSUME NEW rs, IsFiniteSet(DOMAIN rs),
         \A p \in DOMAIN rs : rs[p].stratum \in Strata,
         \A s \in Strata : Count(rs, s) <= Quota + 1
  PROVE  /\ Summarise(rs).total =
               Scale * SumFunctionOnSet(CountyCount, {rs[p].stratum : p \in Scored(rs)})
         /\ NatOn(Scored(rs), [p \in Scored(rs) |-> Weight(rs, rs[p].stratum)])
  <1> DEFINE S == Scored(rs)
             w == [p \in S |-> Weight(rs, rs[p].stratum)]
             key == [p \in S |-> rs[p].stratum]
             K == {rs[p].stratum : p \in S}
             Own(s) == {p \in S : key[p] = s}
             v == [s \in K |-> SumFunctionOnSet(w, Own(s))]
  <1>1. IsFiniteSet(S) /\ S \subseteq DOMAIN rs
    BY FS_Subset DEF Scored
  <1>2. K \subseteq Strata /\ \A p \in S : key[p] \in K
    BY DEF Scored
  <1>3. IsFiniteSet(K)
    <2>1. IsFiniteSet(Strata)
      <3>1. Strata = ({} \cup {"positive"} \cup {"negative_old"}) \cup {"negative_future"}
        BY DEF Strata
      <3> QED BY <3>1, FS_EmptySet, FS_AddElement
    <2> QED BY <1>2, <2>1, FS_Subset
  <1>4. ASSUME NEW s \in Strata, Own(s) # {}
        PROVE  /\ Count(rs, s) = Cardinality(Own(s)) /\ IsFiniteSet(Own(s))
               /\ Count(rs, s) \in 1..Quota + 1
               /\ Count(rs, s) * (Scale \div Count(rs, s)) = Scale
               /\ Scale \div Count(rs, s) \in Nat
               /\ Weight(rs, s) = CountyCount[s] * (Scale \div Count(rs, s))
    <2>1. Own(s) = {p \in Scored(rs) : rs[p].stratum = s}
      OBVIOUS
    <2>2. Count(rs, s) = Cardinality(Own(s)) /\ IsFiniteSet(Own(s))
      BY <1>1, <2>1, FS_Subset DEF Count
    <2> HIDE DEF Own
    <2>3. Count(rs, s) \in Nat /\ Count(rs, s) # 0
      BY <1>4, <2>2, FS_CardinalityType, FS_EmptySet
    <2>4. Count(rs, s) \in 1..Quota + 1
      BY <2>3, EvalSetAssumption
    <2>5. Weight(rs, s) = CountyCount[s] * (Scale \div Count(rs, s))
      BY <2>3 DEF Weight
    <2> QED BY <2>2, <2>4, <2>5, DivideWhole
  <1>5. \A s \in Strata : CountyCount[s] \in Nat
    BY EvalSetAssumption
  <1>6. \A s \in Strata : Own(s) # {} => Weight(rs, s) \in Nat
    <2> SUFFICES ASSUME NEW s \in Strata, Own(s) # {} PROVE Weight(rs, s) \in Nat
      OBVIOUS
    <2> DEFINE d == Scale \div Count(rs, s)
    <2>1. d \in Nat /\ Weight(rs, s) = CountyCount[s] * d
      BY <1>4
    <2> HIDE DEF d
    <2> QED BY <1>5, <2>1
  <1>7. NatOn(S, w)
    <2> SUFFICES ASSUME NEW p \in S PROVE w[p] \in Nat
      BY DEF NatOn
    <2>1. p \in Own(key[p]) /\ key[p] \in Strata /\ w[p] = Weight(rs, key[p])
      BY <1>2
    <2> HIDE DEF Own, key, w
    <2> QED BY <1>6, <2>1
  <1>8. ASSUME NEW s \in K PROVE v[s] = Scale * CountyCount[s]
    <2> DEFINE n == Count(rs, s)
               d == Scale \div n
    <2>1. Own(s) # {} /\ s \in Strata
      BY <1>2
    <2>2. n = Cardinality(Own(s)) /\ n \in Nat /\ n * d = Scale /\ d \in Nat
          /\ Weight(rs, s) = CountyCount[s] * d /\ IsFiniteSet(Own(s))
      <3> HIDE DEF Own
      <3>1. Quota \in Nat /\ n \in 1..Quota + 1
        BY <1>4, <2>1, EvalSetAssumption
      <3>2. n \in Nat
        BY <3>1
      <3> QED BY <1>4, <2>1, <3>2
    <2>3. \A p \in Own(s) : w[p] = Weight(rs, s)
      OBVIOUS
    <2>4. v[s] = SumFunctionOnSet(w, Own(s))
      OBVIOUS
    <2> HIDE DEF Own, w, v, d
    <2>5. v[s] = Cardinality(Own(s)) * Weight(rs, s)
      BY <1>6, <2>1, <2>2, <2>3, <2>4, SumConstant
    <2> HIDE DEF n
    <2>6. v[s] = n * (CountyCount[s] * d) /\ CountyCount[s] \in Nat
      BY <1>5, <2>1, <2>2, <2>5
    <2>7. n * (CountyCount[s] * d) = CountyCount[s] * (n * d)
      BY <2>2, <2>6
    <2> QED BY <2>2, <2>6, <2>7
  <1>9. SumFunctionOnSet(w, S) = SumFunctionOnSet(v, K)
    <2>1. \A s \in K : v[s] = SumFunctionOnSet(w, Keyed(S, key, s))
      BY DEF Keyed
    <2>2. \A p \in S : key[p] \in K
      BY <1>2
    <2> HIDE DEF v, w, key, K, S, Own
    <2> QED BY <1>1, <1>3, <1>7, <2>1, <2>2, SumByKey
  <1>10. SumFunctionOnSet(v, K) = Scale * SumFunctionOnSet(CountyCount, K)
    <2>1. NatOn(K, CountyCount) /\ Scale \in Nat
      BY <1>2, <1>5, EvaluationAssumption DEF NatOn
    <2> HIDE DEF v, K
    <2> QED BY <1>3, <1>8, <2>1, SumScaled
  <1>11. Summarise(rs).total = SumFunctionOnSet(w, S)
    <2>1. Summarise(rs).total = Weights(rs, S)
      BY DEF Summarise
    <2>2. DOMAIN w = S
      OBVIOUS
    <2> QED BY <2>1, <2>2 DEF Weights, SumFunction
  <1> QED BY <1>7, <1>9, <1>10, <1>11

\* What the labelled set holds of the set it was drawn from.
LEMMA LabelledSet ==
  ASSUME DrawnInv, ScoreInv, StrataInv, score \in {"labelled", "audited"}
  PROVE  /\ DOMAIN results = Drawn /\ IsFiniteSet(Drawn) /\ Drawn \subseteq Nat
         /\ \A p \in Drawn : /\ results[p] \in Result /\ results[p].seen = labels[p]
                             /\ results[p].stratum = StratumOf(p) /\ StratumOf(p) \in Strata
         /\ \A s \in Strata : \A p \in Drawn : p \in set[s].drawn <=> results[p].stratum = s
         /\ \A s \in Strata : Count(results, s) <= Quota
  <1>1. build = "done"
    BY DEF StrataInv
  <1>2. /\ IsFiniteSet(Drawn) /\ Drawn \subseteq Nat
        /\ \A p \in Drawn : StratumOf(p) \in Strata
        /\ \A s \in Strata : \A p \in Drawn : p \in set[s].drawn <=> StratumOf(p) = s
        /\ \A s \in Strata : IsFiniteSet(set[s].drawn) /\ Cardinality(set[s].drawn) <= Quota
    BY <1>1, DrawnFacts
  <1>3. /\ DOMAIN results = Drawn
        /\ \A p \in Drawn : /\ results[p] \in Result /\ results[p].seen = labels[p]
                            /\ results[p].stratum = StratumOf(p)
    BY DEF ScoreInv, StrataInv
  <1>4. ASSUME NEW s \in Strata PROVE Count(results, s) <= Quota
    <2> DEFINE T == {p \in Scored(results) : results[p].stratum = s}
    <2>1. T \subseteq set[s].drawn
      BY <1>2, <1>3 DEF Scored
    <2> HIDE DEF T
    <2>2. IsFiniteSet(T) /\ Cardinality(T) <= Cardinality(set[s].drawn)
      BY <1>2, <2>1, FS_Subset
    <2>3. Cardinality(T) \in Nat /\ Cardinality(set[s].drawn) \in Nat /\ Quota \in Nat
      BY <1>2, <2>2, FS_CardinalityType, EvalSetAssumption
    <2>4. Cardinality(T) <= Quota
      BY <1>2, <2>2, <2>3
    <2> QED BY <2>4 DEF Count, T
  <1> QED BY <1>2, <1>3, <1>4

\* The two halves of WeightsCarryCounty: the total, from the weights alone, and the positives,
\* stratum by stratum on both sides.
LEMMA LabelsGiveCounty ==
  ASSUME DrawnInv, ScoreInv, StrataInv, score = "labelled"
  PROVE  /\ StandForCounty(results)
         /\ Scored(results) = Drawn /\ (\A p \in Drawn : labels[p] # "unknown") =>
               /\ Summarise(results).positive = ImprovementBaseRate.positive
               /\ Summarise(results).total = ImprovementBaseRate.total
  <1> DEFINE S == Scored(results)
             w == [p \in S |-> Weight(results, results[p].stratum)]
             K == {results[p].stratum : p \in S}
  <1>1. /\ DOMAIN results = Drawn /\ IsFiniteSet(Drawn)
        /\ \A p \in Drawn : /\ results[p] \in Result /\ results[p].seen = labels[p]
                            /\ results[p].stratum \in Strata
        /\ \A s \in Strata : \A p \in Drawn : p \in set[s].drawn <=> results[p].stratum = s
        /\ \A s \in Strata : Count(results, s) <= Quota
    BY LabelledSet
  <1>2. \A s \in Strata : Count(results, s) <= Quota + 1
    <2> TAKE s \in Strata
    <2> DEFINE T == {p \in Scored(results) : results[p].stratum = s}
    <2>1. IsFiniteSet(T)
      BY <1>1, FS_Subset DEF Scored
    <2>2. Count(results, s) \in Nat /\ Quota \in Nat
      BY <2>1, FS_CardinalityType, EvalSetAssumption DEF Count
    <2> QED BY <1>1, <2>2
  <1>3. /\ Summarise(results).total = Scale * SumFunctionOnSet(CountyCount, K)
        /\ NatOn(S, w)
    BY <1>1, <1>2, TotalIsCounty
  <1>4. ASSUME S = Drawn, \A p \in Drawn : labels[p] # "unknown"
        PROVE  /\ Summarise(results).positive = ImprovementBaseRate.positive
               /\ Summarise(results).total = ImprovementBaseRate.total
    <2> DEFINE L(s)  == {p \in set[s].drawn : labels[p] # "unknown"}
               Y(s)  == {p \in set[s].drawn : labels[p] = "yes"}
               with  == {s \in Strata : L(s) # {}}
               I     == Improved(results)
               key   == [p \in I |-> results[p].stratum]
               v     == [s \in with |-> SumFunctionOnSet(w, Keyed(I, key, s))]
               f     == [s \in with |-> CountyCount[s] * Cardinality(Y(s))
                                          * (Scale \div Cardinality(L(s)))]
    <2>1. \A s \in Strata : set[s].drawn \subseteq Drawn
      BY DEF Drawn
    <2>2. with = K
      <3>1. \A s \in Strata : s \in with <=> \E p \in Drawn : results[p].stratum = s
        BY <1>1, <1>4, <2>1
      <3>2. K \subseteq Strata /\ with \subseteq Strata
        BY <1>1, <1>4
      <3>3. \A s \in Strata : s \in K <=> \E p \in Drawn : results[p].stratum = s
        BY <1>4
      <3> HIDE DEF with, K
      <3> QED BY <3>1, <3>2, <3>3
    <2>3. /\ ImprovementBaseRate.total = Scale * SumFunctionOnSet(CountyCount, with)
          /\ ImprovementBaseRate.positive = SumFunction(f)
      BY DEF ImprovementBaseRate
    <2>4. Summarise(results).total = ImprovementBaseRate.total
      <3> HIDE DEF with, K
      <3> QED BY <1>3, <2>2, <2>3
    <2>5. I = {p \in Drawn : labels[p] = "yes"} /\ I \subseteq S
      <3>1. \A p \in Drawn : labels[p] = "yes" \/ labels[p] = "no"
        BY <1>1, <1>4 DEF Result
      <3> QED BY <1>1, <1>4, <3>1 DEF Improved
    <2>6. IsFiniteSet(I) /\ IsFiniteSet(with)
      <3>1. IsFiniteSet(Strata)
        <4>1. Strata = ({} \cup {"positive"} \cup {"negative_old"}) \cup {"negative_future"}
          BY DEF Strata
        <4> QED BY <4>1, FS_EmptySet, FS_AddElement
      <3>2. IsFiniteSet(with)
        BY <3>1, FS_Subset
      <3>3. IsFiniteSet(I)
        BY <1>1, <1>4, <2>5, FS_Subset
      <3> QED BY <3>2, <3>3
    <2>7. ASSUME NEW s \in with
          PROVE  /\ Keyed(I, key, s) = Y(s) /\ IsFiniteSet(Y(s))
                 /\ Count(results, s) = Cardinality(L(s)) /\ Cardinality(L(s)) # 0
                 /\ Cardinality(L(s)) \in 1..Quota + 1
      <3>1. \A p \in Drawn : p \in set[s].drawn <=> results[p].stratum = s
        BY <1>1
      <3>2. Keyed(I, key, s) = Y(s)
        BY <2>1, <2>5, <3>1 DEF Keyed
      <3>3. L(s) = {p \in Scored(results) : results[p].stratum = s}
        BY <1>4, <2>1, <3>1
      <3>4. L(s) # {} /\ L(s) \subseteq Drawn /\ Y(s) \subseteq Drawn
        BY <2>1
      <3> HIDE DEF L, Y
      <3>5. IsFiniteSet(L(s)) /\ IsFiniteSet(Y(s))
        BY <1>1, <3>4, FS_Subset
      <3>6. Cardinality(L(s)) \in Nat /\ Cardinality(L(s)) # 0
        BY <3>4, <3>5, FS_CardinalityType, FS_EmptySet
      <3>7. Count(results, s) = Cardinality(L(s))
        BY <3>3 DEF Count
      <3>8. s \in Strata
        OBVIOUS
      <3>9. Cardinality(L(s)) <= Quota /\ Quota \in Nat
        BY <1>1, <3>7, <3>8, EvalSetAssumption
      <3>10. Cardinality(L(s)) \in 1..Quota + 1
        BY <3>6, <3>9
      <3> QED BY <3>2, <3>5, <3>6, <3>7, <3>10
    <2>8. ASSUME NEW s \in with PROVE v[s] = f[s] /\ v[s] \in Nat
      <3> DEFINE d == Scale \div Cardinality(L(s))
                 y == Cardinality(Y(s))
      <3>1. d \in Nat
        BY <2>7, DivideWhole
      <3>2. s \in Strata /\ CountyCount[s] \in Nat
        BY EvalSetAssumption
      <3>3. Weight(results, s) = CountyCount[s] * d
        BY <2>7 DEF Weight
      <3>4. y \in Nat
        BY <2>7, FS_CardinalityType
      <3>5. v[s] = SumFunctionOnSet(w, Y(s))
        BY <2>7
      <3>6. \A p \in Y(s) : w[p] = Weight(results, s)
        BY <1>1, <1>4, <2>1, <3>2
      <3>7. f[s] = CountyCount[s] * y * d
        OBVIOUS
      <3> HIDE DEF d, y, v, f, w
      <3>8. Weight(results, s) \in Nat
        BY <3>1, <3>2, <3>3
      <3>9. SumFunctionOnSet(w, Y(s)) = Cardinality(Y(s)) * Weight(results, s)
        <4> DEFINE Z == Y(s)
        <4> HIDE DEF Z
        <4>1. IsFiniteSet(Z) /\ \A p \in Z : w[p] = Weight(results, s)
          BY <2>7, <3>6 DEF Z
        <4>2. SumFunctionOnSet(w, Z) = Cardinality(Z) * Weight(results, s)
          BY <3>8, <4>1, SumConstant
        <4> QED BY <4>2 DEF Z
      <3>10. v[s] = y * (CountyCount[s] * d)
        BY <3>3, <3>5, <3>9 DEF y
      <3>11. y * (CountyCount[s] * d) = CountyCount[s] * y * d /\ y * (CountyCount[s] * d) \in Nat
        BY <3>1, <3>2, <3>4
      <3> QED BY <3>7, <3>10, <3>11
    <2>9. Summarise(results).positive = SumFunctionOnSet(w, I)
      <3>1. NatOn(I, w)
        BY <1>3, <2>5 DEF NatOn
      <3>2. Weights(results, I) = SumFunctionOnSet(w, I)
        BY <2>5, <2>6, <3>1, WeightsAsSum
      <3> QED BY <3>2 DEF Summarise
    <2>10. SumFunctionOnSet(w, I) = SumFunctionOnSet(v, with)
      <3>1. NatOn(I, w)
        BY <1>3, <2>5 DEF NatOn
      <3>2. \A p \in I : key[p] \in with
        BY <1>4, <2>2, <2>5
      <3>3. \A s \in with : v[s] = SumFunctionOnSet(w, Keyed(I, key, s))
        OBVIOUS
      <3> HIDE DEF v, w, key, with, I
      <3> QED BY <2>6, <3>1, <3>2, <3>3, SumByKey
    <2>11. SumFunctionOnSet(v, with) = SumFunction(f)
      <3>1. NatOn(with, f) /\ \A s \in with : v[s] = f[s]
        <4> HIDE DEF v, f, with
        <4> QED BY <2>8 DEF NatOn
      <3>2. DOMAIN f = with
        OBVIOUS
      <3> HIDE DEF v, f, with
      <3> QED BY <2>6, <3>1, <3>2, SumSame DEF SumFunction
    <2> QED BY <2>3, <2>4, <2>9, <2>10, <2>11
  <1> QED BY <1>3, <1>4 DEF StandForCounty

\* The audited total: the parcel that was moved is weighed in its new stratum.
LEMMA AuditGivesCounty ==
  ASSUME DrawnInv, ScoreInv, StrataInv, CorrectedInv, score = "audited"
  PROVE  StandForCounty(corrected)
  <1>1. IsFiniteSet(Drawn)
    BY LabelledSet
  <1>2. /\ DOMAIN corrected \subseteq Drawn
        /\ \A p \in DOMAIN corrected : corrected[p].stratum \in Strata
        /\ \A s \in Strata : Count(corrected, s) <= Quota + 1
    BY DEF CorrectedInv, Result
  <1>3. IsFiniteSet(DOMAIN corrected)
    BY <1>1, <1>2, FS_Subset
  <1> QED BY <1>2, <1>3, TotalIsCounty DEF StandForCounty

--------------------------------------------------------------------------------
(* InOrder puts the members of a set in order.                             *)

\* The members of S that R puts before x.
Below(S, R, x) == {y \in S : <<y, x>> \in R}

\* R orders S strictly, and totally.
StrictOrder(S, R) ==
    /\ \A x \in S : <<x, x>> \notin R
    /\ \A x, y, z \in S : <<x, y>> \in R /\ <<y, z>> \in R => <<x, z>> \in R
    /\ \A x, y \in S : x # y => <<x, y>> \in R \/ <<y, x>> \in R

\* seq names every member of S once, in the order R.
IsOrdering(S, R, seq) ==
    /\ seq \in [1 .. Cardinality(S) -> S]
    /\ \A x \in S : \E n \in 1 .. Cardinality(S) : seq[n] = x
    /\ \A n, m \in 1 .. Cardinality(S) : n < m => <<seq[n], seq[m]>> \in R /\ seq[n] # seq[m]

\* A member has more before it than any that is before it has.
LEMMA BelowGrows ==
  ASSUME NEW S, IsFiniteSet(S), NEW R, StrictOrder(S, R), NEW x \in S
  PROVE  /\ Cardinality(Below(S, R, x)) \in 0 .. Cardinality(S) - 1
         /\ \A y \in S : <<y, x>> \in R =>
               Cardinality(Below(S, R, y)) < Cardinality(Below(S, R, x))
  <1>1. \A y \in S : /\ IsFiniteSet(Below(S, R, y)) /\ y \notin Below(S, R, y)
                     /\ Cardinality(Below(S, R, y)) \in Nat /\ Below(S, R, y) \subseteq S
    <2> TAKE y \in S
    <2>1. Below(S, R, y) \subseteq S /\ y \notin Below(S, R, y)
      BY DEF Below, StrictOrder
    <2> QED BY <2>1, FS_Subset, FS_CardinalityType
  <1>2. ASSUME NEW y \in S, NEW T \in SUBSET S, Below(S, R, y) \cup {y} \subseteq T
        PROVE  Cardinality(Below(S, R, y)) + 1 <= Cardinality(T)
    <2>1. Cardinality(Below(S, R, y) \cup {y}) = Cardinality(Below(S, R, y)) + 1
      BY <1>1, FS_AddElement
    <2>2. IsFiniteSet(T)
      BY FS_Subset
    <2> QED BY <1>2, <2>1, <2>2, FS_Subset
  <1>3. Cardinality(Below(S, R, x)) + 1 <= Cardinality(S)
    <2>1. Below(S, R, x) \cup {x} \subseteq S
      BY <1>1
    <2> QED BY <1>2, <2>1
  <1>4. ASSUME NEW y \in S, <<y, x>> \in R
        PROVE  Cardinality(Below(S, R, y)) < Cardinality(Below(S, R, x))
    <2>1. Below(S, R, y) \cup {y} \subseteq Below(S, R, x)
      BY <1>4 DEF Below, StrictOrder
    <2>2. Cardinality(Below(S, R, y)) + 1 <= Cardinality(Below(S, R, x))
      BY <1>1, <1>2, <2>1
    <2> QED BY <1>1, <2>2
  <1>5. Cardinality(S) \in Nat
    BY FS_CardinalityType
  <1> QED BY <1>1, <1>3, <1>4, <1>5

\* Some member has n - 1 before it, for every n.
LEMMA PlaceIsTaken ==
  ASSUME NEW S, IsFiniteSet(S), NEW R, StrictOrder(S, R), NEW n \in 1 .. Cardinality(S)
  PROVE  \E x \in S : Cardinality(Below(S, R, x)) = n - 1
  <1> DEFINE N == Cardinality(S)
             f == [x \in S |-> Cardinality(Below(S, R, x))]
  <1>1. N \in Nat
    BY FS_CardinalityType
  <1>2. f \in [S -> 0 .. N - 1]
    BY BelowGrows
  <1>3. \A x, y \in S : x # y => f[x] # f[y]
    <2> SUFFICES ASSUME NEW x \in S, NEW y \in S, <<x, y>> \in R PROVE f[x] # f[y]
      BY DEF StrictOrder
    <2>1. f[x] < f[y] /\ f[x] \in 0 .. N - 1 /\ f[y] \in 0 .. N - 1
      BY BelowGrows
    <2> QED BY <1>1, <2>1
  <1>4. f \in Injection(S, 0 .. N - 1)
    <2> HIDE DEF f
    <2> QED BY <1>2, <1>3 DEF Injection, IsInjective
  <1>5. IsFiniteSet(0 .. N - 1) /\ Cardinality(0 .. N - 1) = N
    <2>1. 0 \in Int /\ N - 1 \in Int
      BY <1>1
    <2>2. IsFiniteSet(0 .. N - 1) /\
          Cardinality(0 .. N - 1) = IF 0 > N - 1 THEN 0 ELSE (N - 1) - 0 + 1
      BY <2>1, FS_Interval
    <2> QED BY <1>1, <2>2
  <1>6. f \in Surjection(S, 0 .. N - 1)
    <2> HIDE DEF f
    <2> QED BY <1>4, <1>5, FS_Injection
  <1>7. n - 1 \in 0 .. N - 1
    BY <1>1
  <1> QED BY <1>6, <1>7 DEF Surjection

\* A sequence that puts at n a member with n - 1 before it is the ordering.
LEMMA PlacesAreOrdering ==
  ASSUME NEW S, IsFiniteSet(S), NEW R, StrictOrder(S, R), NEW seq,
         seq \in [1 .. Cardinality(S) -> S],
         \A n \in 1 .. Cardinality(S) : Cardinality(Below(S, R, seq[n])) = n - 1
  PROVE  IsOrdering(S, R, seq)
  <1> DEFINE N == Cardinality(S)
  <1>1. N \in Nat
    BY FS_CardinalityType
  <1>2. \A x, y \in S : <<x, y>> \in R =>
            Cardinality(Below(S, R, x)) < Cardinality(Below(S, R, y))
    BY BelowGrows
  <1>3. ASSUME NEW n \in 1 .. N, NEW m \in 1 .. N, n < m
        PROVE  <<seq[n], seq[m]>> \in R /\ seq[n] # seq[m]
    <2>1. /\ Cardinality(Below(S, R, seq[n])) = n - 1
          /\ Cardinality(Below(S, R, seq[m])) = m - 1 /\ n - 1 < m - 1
      BY <1>1, <1>3
    <2>2. seq[n] \in S /\ seq[m] \in S /\ seq[n] # seq[m]
      BY <1>1, <1>3, <2>1
    <2>3. <<seq[m], seq[n]>> \notin R
      BY <1>1, <1>2, <2>1, <2>2
    <2> QED BY <2>2, <2>3 DEF StrictOrder
  <1>4. ASSUME NEW x \in S PROVE \E n \in 1 .. N : seq[n] = x
    <2> DEFINE n == Cardinality(Below(S, R, x)) + 1
    <2>1. Cardinality(Below(S, R, x)) \in 0 .. N - 1
      BY BelowGrows
    <2>2. n \in 1 .. N /\ n - 1 = Cardinality(Below(S, R, x))
      BY <1>1, <2>1
    <2>3. Cardinality(Below(S, R, seq[n])) = Cardinality(Below(S, R, x)) /\ seq[n] \in S
      BY <2>2
    <2>4. seq[n] = x
      <3>1. ~(<<seq[n], x>> \in R) /\ ~(<<x, seq[n]>> \in R)
        <4> HIDE DEF n
        <4>1. Cardinality(Below(S, R, x)) \in Nat
          BY <1>1, <2>1
        <4> QED BY <1>2, <2>3, <4>1
      <3> HIDE DEF n
      <3> QED BY <2>3, <3>1 DEF StrictOrder
    <2> QED BY <2>2, <2>4
  <1> QED BY <1>3, <1>4 DEF IsOrdering

\* The sequence that InOrder builds is the ordering.
LEMMA ChosenPlaces ==
  ASSUME NEW S, IsFiniteSet(S), NEW R, StrictOrder(S, R), NEW seq,
         seq = [n \in 1 .. Cardinality(S) |-> CHOOSE x \in S : Cardinality(Below(S, R, x)) = n - 1]
  PROVE  IsOrdering(S, R, seq)
  <1>1. ASSUME NEW n \in 1 .. Cardinality(S)
        PROVE  seq[n] \in S /\ Cardinality(Below(S, R, seq[n])) = n - 1
    <2>1. \E x \in S : Cardinality(Below(S, R, x)) = n - 1
      BY PlaceIsTaken
    <2> QED BY <2>1
  <1>2. seq \in [1 .. Cardinality(S) -> S]
    BY <1>1
  <1> QED BY <1>1, <1>2, PlacesAreOrdering

--------------------------------------------------------------------------------
(* Folds of sequences, from the left.                                      *)

\* Counting up from 0 reaches every natural number.
LEMMA CountingUp ==
  ASSUME NEW S, 0 \in S, \A n \in Nat : n \in S => n + 1 \in S
  PROVE  Nat \subseteq S
  <1> DEFINE R == OpToRel(<, Nat)
             T == Nat \ S
  <1>1. IsWellFoundedOn(R, Nat)
    BY NatLessThanWellFounded
  <1>2. \A m, n \in Nat : m < n => <<m, n>> \in R
    BY DEF OpToRel
  <1> HIDE DEF R
  <1>3. ASSUME T # {} PROVE FALSE
    <2>1. PICK x \in T : \A y \in T : <<y, x>> \notin R
      BY <1>1, <1>3, WFMin
    <2>2. x \in Nat /\ x # 0 /\ x - 1 \in Nat /\ x - 1 < x
      BY <2>1
    <2>3. x - 1 \in S
      BY <1>2, <2>1, <2>2
    <2> QED BY <2>1, <2>2, <2>3
  <1> QED BY <1>3

\* The last of the first k, and the others.
LEMMA TopOfInterval ==
  ASSUME NEW k \in Nat \ {0}
  PROVE  Max(1 .. k) = k /\ (1 .. k) \ {k} = 1 .. (k - 1)
  <1>1. k \in 1 .. k /\ \A y \in 1 .. k : k >= y
    OBVIOUS
  <1>2. \A x \in 1 .. k : (\A y \in 1 .. k : x >= y) => x = k
    BY <1>1
  <1>3. Max(1 .. k) = k
    BY <1>1, <1>2 DEF Max
  <1> QED BY <1>3

\* Max is in the set it is taken of.
LEMMA TopIsThere ==
  ASSUME NEW n \in Nat, NEW T \in SUBSET (1 .. n), T # {}
  PROVE  Max(T) \in T
  <1> DEFINE F == {m \in Nat : \E x \in T : x = n - m}
             G == {m \in Nat : \A j \in 0 .. m : j \notin F}
  <1>1. ASSUME \A m \in F : \E j \in F : j < m PROVE FALSE
    <2>1. 0 \in G
      BY <1>1
    <2>2. \A m \in Nat : m \in G => m + 1 \in G
      <3> SUFFICES ASSUME NEW m \in Nat, m \in G, m + 1 \in F PROVE FALSE
        BY DEF G
      <3>1. PICK j \in F : j < m + 1
        BY <1>1
      <3>2. j \in 0 .. m
        BY <3>1
      <3> QED BY <3>2
    <2>3. Nat \subseteq G
      <3> HIDE DEF G
      <3> QED BY <2>1, <2>2, CountingUp
    <2>4. PICK x \in T : TRUE
      OBVIOUS
    <2>5. n - x \in Nat /\ n - x \in F
      BY <2>4
    <2>6. n - x \in 0 .. (n - x)
      BY <2>5
    <2> HIDE DEF F
    <2> QED BY <2>3, <2>5, <2>6
  <1>2. PICK m \in F : \A j \in F : ~(j < m)
    BY <1>1
  <1>3. PICK x \in T : x = n - m
    BY <1>2
  <1>4. \A y \in T : x >= y
    <2> TAKE y \in T
    <2>1. n - y \in F /\ y \in Nat /\ m \in Nat
      BY <1>2
    <2>2. ~(n - y < m)
      BY <1>2, <2>1
    <2> QED BY <1>3, <2>1, <2>2
  <1> QED BY <1>4 DEF Max

\* g folds st from the left, one element at a time.
IsLeftFold(n, V, base, st, g) ==
    /\ g \in [SUBSET (1 .. n) -> V]
    /\ g[{}] = base
    /\ \A T \in SUBSET (1 .. n) : T # {} => g[T] = st[<<Max(T), g[T \ {Max(T)}]>>]

\* The step st, on the first n elements, keeps to V.
StaysIn(n, V, st) == \A k \in 1 .. n : \A v \in V : st[<<k, v>>] \in V

\* There is one, when the step stays in V.
LEMMA FoldFromLeft ==
  ASSUME NEW n \in Nat, NEW V, NEW base \in V, NEW st, StaysIn(n, V, st)
  PROVE  \E g : IsLeftFold(n, V, base, st, g)
  <1> DEFINE ch == [T \in SUBSET (1 .. n) |-> Max(T)]
  <1>1. \A T \in SUBSET (1 .. n) : T # {} => ch[T] \in T
    BY TopIsThere
  <1>2. IsFiniteSet(1 .. n)
    BY FS_Interval
  <1>3. \A T \in SUBSET (1 .. n) : ch[T] = Max(T)
    OBVIOUS
  <1> HIDE DEF ch
  <1>0. \A k \in 1 .. n : \A v \in V : st[<<k, v>>] \in V
    BY DEF StaysIn
  <1>4. PICK g \in [SUBSET (1 .. n) -> V] : IsFold(1 .. n, base, st, ch, g)
    <2> DEFINE S == 1 .. n
    <2> HIDE DEF S
    <2>1. \E g \in [SUBSET S -> V] : IsFold(S, base, st, ch, g)
      BY <1>0, <1>1, <1>2, FoldExists DEF S
    <2> QED BY <2>1 DEF S
  <1>5. \A T \in SUBSET (1 .. n) : g[T] = IF T = {} THEN base ELSE st[<<ch[T], g[T \ {ch[T]}]>>]
    <2> DEFINE S == 1 .. n
    <2> HIDE DEF S
    <2>1. IsFold(S, base, st, ch, g)
      BY <1>4 DEF S
    <2>2. \A T \in SUBSET S : g[T] = IF T = {} THEN base ELSE st[<<ch[T], g[T \ {ch[T]}]>>]
      BY <2>1, FoldAt
    <2> QED BY <2>2 DEF S
  <1>6. {} \in SUBSET (1 .. n)
    OBVIOUS
  <1>7. g[{}] = base
    BY <1>5, <1>6
  <1>8. IsLeftFold(n, V, base, st, g)
    BY <1>3, <1>4, <1>5, <1>7 DEF IsLeftFold
  <1> QED BY <1>8

\* The first k of N.
LEMMA UpTo ==
  ASSUME NEW N \in Nat, NEW k \in 1 .. N
  PROVE  /\ 1 .. k \in SUBSET (1 .. N) /\ 1 .. k # {} /\ k \in Nat \ {0}
         /\ k \in 0 .. N /\ k - 1 \in 0 .. N
  <1>1. k \in Nat \ {0} /\ k <= N /\ k \in 1 .. k /\ k \in 0 .. N /\ k - 1 \in 0 .. N
    OBVIOUS
  <1> QED BY <1>1

--------------------------------------------------------------------------------
(* The contact sheets.                                                     *)

SheetRank(s) == CASE s = "positive" -> 1 [] s = "negative_old" -> 2 [] OTHER -> 3

\* The order of the sheets, as pairs.
SheetPairs(ps) ==
    {pq \in ps \X ps : \/ SheetRank(StratumOf(pq[1])) < SheetRank(StratumOf(pq[2]))
                       \/ StratumOf(pq[1]) = StratumOf(pq[2]) /\ pq[1] < pq[2]}

\* The parcels are put on the sheets each once, in that order.
LEMMA SheetsAreOrdered ==
  ASSUME DrawnInv, build = "done"
  PROVE  IsOrdering(Drawn, SheetPairs(Drawn), SheetOrder(Drawn))
  <1> DEFINE R == SheetPairs(Drawn)
             before(p, q) == \/ SheetRank(StratumOf(p)) < SheetRank(StratumOf(q))
                             \/ StratumOf(p) = StratumOf(q) /\ p < q
  <1>1. IsFiniteSet(Drawn) /\ Drawn \subseteq Nat /\ \A p \in Drawn : StratumOf(p) \in Strata
    BY DrawnFacts
  <1>2. \A s, t \in Strata : SheetRank(s) \in Nat /\ (SheetRank(s) = SheetRank(t) => s = t)
    BY DEF SheetRank, Strata
  <1>3. \A p, q : <<p, q>> \in R <=> p \in Drawn /\ q \in Drawn /\ before(p, q)
    BY DEF SheetPairs
  <1>4. StrictOrder(Drawn, R)
    <2>1. \A p \in Drawn : ~before(p, p)
      BY <1>1, <1>2
    <2>2. \A p, q, r \in Drawn : before(p, q) /\ before(q, r) => before(p, r)
      <3> SUFFICES ASSUME NEW p \in Drawn, NEW q \in Drawn, NEW r \in Drawn,
                          before(p, q), before(q, r)
                   PROVE  before(p, r)
        OBVIOUS
      <3>1. p \in Nat /\ q \in Nat /\ r \in Nat
        BY <1>1
      <3>2. /\ SheetRank(StratumOf(p)) \in Nat /\ SheetRank(StratumOf(q)) \in Nat
            /\ SheetRank(StratumOf(r)) \in Nat
        BY <1>1, <1>2
      <3> QED BY <3>1, <3>2
    <2>3. \A p, q \in Drawn : p # q => before(p, q) \/ before(q, p)
      <3> SUFFICES ASSUME NEW p \in Drawn, NEW q \in Drawn, p # q
                   PROVE  before(p, q) \/ before(q, p)
        OBVIOUS
      <3>1. p \in Nat /\ q \in Nat /\ (p < q \/ q < p)
        BY <1>1
      <3>2. /\ SheetRank(StratumOf(p)) \in Nat /\ SheetRank(StratumOf(q)) \in Nat
            /\ SheetRank(StratumOf(p)) = SheetRank(StratumOf(q)) => StratumOf(p) = StratumOf(q)
        BY <1>1, <1>2
      <3> QED BY <3>1, <3>2
    <2> HIDE DEF R, before
    <2> QED BY <1>3, <2>1, <2>2, <2>3 DEF StrictOrder
  <1>5. \A x \in Drawn : Below(Drawn, R, x) = {y \in Drawn : before(y, x)}
    <2> HIDE DEF R, before
    <2> QED BY <1>3 DEF Below
  <1> DEFINE seq == [n \in 1 .. Cardinality(Drawn) |->
                       CHOOSE x \in Drawn : Cardinality(Below(Drawn, R, x)) = n - 1]
  <1>6. SheetOrder(Drawn) = seq
    <2> HIDE DEF R
    <2>1. \A n : (CHOOSE x \in Drawn : Cardinality({y \in Drawn : before(y, x)}) = n - 1)
                    = (CHOOSE x \in Drawn : Cardinality(Below(Drawn, R, x)) = n - 1)
      <3> TAKE n
      <3>1. \A x : (x \in Drawn /\ Cardinality({y \in Drawn : before(y, x)}) = n - 1)
                     <=> (x \in Drawn /\ Cardinality(Below(Drawn, R, x)) = n - 1)
        BY <1>5
      <3> QED BY <3>1
    <2>2. SheetOrder(Drawn) = [n \in 1 .. Cardinality(Drawn) |->
             CHOOSE x \in Drawn : Cardinality({y \in Drawn : before(y, x)}) = n - 1]
      BY DEF SheetOrder, InOrder, SheetRank
    <2> QED BY <2>1, <2>2
  <1>7. IsOrdering(Drawn, R, seq)
    <2> HIDE DEF R, before
    <2> QED BY <1>1, <1>4, ChosenPlaces
  <1> QED BY <1>6, <1>7

Place == [pid : Nat, sheet : Nat, row : Nat, column : Nat]

\* A contact sheet shows parcels in some of the cells of its two columns.
Sheet == UNION {[cells -> Nat] : cells \in SUBSET (Nat \X {0, 1})}

Sheets == [sheets : Seq(Sheet), tiles : Seq(Nat), pending : Seq(Nat), index : Seq(Place)]

\* One parcel of chips: the step of SheetsOf.
SheetAdd(chipped, acc, p) ==
    LET with == [acc EXCEPT !.tiles = Append(@, p), !.pending = Append(@, p)]
    IN  IF p \notin chipped THEN acc
        ELSE IF Len(with.tiles) >= PerSheet THEN Flush(with) ELSE with

\* What is pasted, as a sequence of places.
Pasting(acc) == [n \in DOMAIN acc.pending |->
                   [pid |-> acc.pending[n], sheet |-> Len(acc.sheets) + 1,
                    row |-> (n - 1) \div 2, column |-> (n - 1) % 2]]

\* Division with a rest.
LEMMA DivideRest ==
  ASSUME NEW P \in Nat \ {0}, NEW q \in Nat, NEW r \in 0 .. P - 1
  PROVE  (q * P + r) \div P = q /\ (q * P + r) % P = r
  <1>1. q * P \in Nat /\ r \in Nat /\ r < P
    OBVIOUS
  <1> QED BY <1>1

\* Cells and tiles of a sheet correspond: the j-th tile is in row (j - 1) \div 2.
LEMMA CellsOfTiles ==
  ASSUME NEW tiles \in Seq(Nat)
  PROVE  /\ ContactSheet(tiles) \in Sheet
         /\ \A at \in DOMAIN ContactSheet(tiles) : \E j \in DOMAIN tiles :
               /\ at = <<(j - 1) \div 2, (j - 1) % 2>>
               /\ ContactSheet(tiles)[at] = tiles[j]
         /\ \A j \in DOMAIN tiles :
               /\ <<(j - 1) \div 2, (j - 1) % 2>> \in DOMAIN ContactSheet(tiles)
               /\ ContactSheet(tiles)[<<(j - 1) \div 2, (j - 1) % 2>>] = tiles[j]
  <1> DEFINE N == Len(tiles)
             D == {rc \in (0..N) \X {0, 1} : 2 * rc[1] + rc[2] < N}
             f == [at \in D |-> tiles[2 * at[1] + at[2] + 1]]
  <1>1. /\ N \in Nat /\ DOMAIN tiles = 1..N /\ \A j \in 1..N : tiles[j] \in Nat
        /\ ContactSheet(tiles) = f
    BY DEF ContactSheet
  <1>2. ASSUME NEW r \in 0..N, NEW c \in {0, 1}, 2 * r + c < N
        PROVE  /\ 2 * r + c + 1 \in 1..N
               /\ ((2 * r + c + 1) - 1) \div 2 = r /\ ((2 * r + c + 1) - 1) % 2 = c
    <2>1. r \in Nat /\ c \in 0 .. 2 - 1 /\ 2 \in Nat \ {0}
      BY <1>1
    <2>2. (r * 2 + c) \div 2 = r /\ (r * 2 + c) % 2 = c
      BY <2>1, DivideRest
    <2>3. (2 * r + c + 1) - 1 = r * 2 + c /\ 2 * r + c + 1 \in 1..N
      BY <1>1, <1>2, <2>1
    <2> QED BY <2>2, <2>3
  <1>3. ASSUME NEW at \in D
        PROVE  \E j \in 1..N : at = <<(j - 1) \div 2, (j - 1) % 2>> /\ f[at] = tiles[j]
    <2>1. PICK r \in 0..N, c \in {0, 1} : at = <<r, c>>
      OBVIOUS
    <2>2. at[1] = r /\ at[2] = c /\ 2 * r + c < N
      BY <2>1
    <2>3. f[at] = tiles[2 * r + c + 1]
      BY <2>2
    <2> HIDE DEF D, f
    <2> QED BY <1>2, <2>1, <2>2, <2>3
  <1>4. ASSUME NEW j \in 1..N
        PROVE  /\ <<(j - 1) \div 2, (j - 1) % 2>> \in D
               /\ f[<<(j - 1) \div 2, (j - 1) % 2>>] = tiles[j]
    <2> DEFINE r == (j - 1) \div 2
               c == (j - 1) % 2
    <2>1. j \in Nat /\ j - 1 \in Nat /\ j <= N
      BY <1>1
    <2>2. r \in Nat /\ c \in {0, 1} /\ 2 * r + c = j - 1 /\ r <= j - 1
      BY <2>1
    <2> HIDE DEF r, c
    <2>3. r \in 0..N /\ 2 * r + c < N /\ 2 * r + c + 1 = j
      BY <1>1, <2>1, <2>2
    <2>4. <<r, c>> \in D
      BY <2>2, <2>3
    <2>5. f[<<r, c>>] = tiles[2 * r + c + 1]
      BY <2>4
    <2> QED BY <2>3, <2>4, <2>5 DEF r, c
  <1>5. f \in Sheet
    <2>1. D \in SUBSET (Nat \X {0, 1})
      BY <1>1
    <2>2. \A at \in D : f[at] \in Nat
      BY <1>1, <1>3
    <2>3. f \in [D -> Nat]
      BY <2>2
    <2> HIDE DEF D, f
    <2> QED BY <2>1, <2>3 DEF Sheet
  <1>6. DOMAIN f = D
    OBVIOUS
  <1> HIDE DEF f, D, N
  <1> QED BY <1>1, <1>3, <1>4, <1>5, <1>6

\* A pasted sheet has a place for each chip that was pending.
LEMMA PastingType ==
  ASSUME NEW acc \in Sheets
  PROVE  Pasting(acc) \in Seq(Place) /\ Len(Pasting(acc)) = Len(acc.pending)
  <1>1. acc.pending \in Seq(Nat) /\ acc.sheets \in Seq(Sheet)
    BY DEF Sheets
  <1>2. /\ Len(acc.pending) \in Nat /\ DOMAIN acc.pending = 1 .. Len(acc.pending)
        /\ \A n \in DOMAIN acc.pending : acc.pending[n] \in Nat
    BY <1>1
  <1>3. ASSUME NEW n \in DOMAIN acc.pending PROVE Pasting(acc)[n] \in Place
    <2>1. n - 1 \in Nat
      BY <1>2
    <2>2. (n - 1) \div 2 \in Nat /\ (n - 1) % 2 \in Nat
      BY <2>1
    <2>3. Pasting(acc)[n] = [pid |-> acc.pending[n], sheet |-> Len(acc.sheets) + 1,
                             row |-> (n - 1) \div 2, column |-> (n - 1) % 2]
      BY DEF Pasting
    <2>4. acc.pending[n] \in Nat /\ Len(acc.sheets) + 1 \in Nat
      BY <1>1, <1>2
    <2> QED BY <2>2, <2>3, <2>4 DEF Place
  <1>4. DOMAIN Pasting(acc) = 1 .. Len(acc.pending)
    BY <1>2 DEF Pasting
  <1>5. Pasting(acc) \in [1 .. Len(acc.pending) -> Place]
    <2> DEFINE f == Pasting(acc)
    <2>1. f = [n \in DOMAIN f |-> f[n]]
      BY DEF Pasting
    <2> QED BY <1>2, <1>3, <1>4, <2>1
  <1> QED BY <1>2, <1>5

\* What a flush leaves: nothing pending, a sheet of the tiles, and the places pasted at the
\* end of the index.
LEMMA FlushType ==
  ASSUME NEW acc \in Sheets
  PROVE  /\ Flush(acc) \in Sheets
         /\ acc.tiles # <<>> => /\ Flush(acc).tiles = <<>> /\ Flush(acc).pending = <<>>
                                /\ Flush(acc).sheets = Append(acc.sheets, ContactSheet(acc.tiles))
                                /\ Flush(acc).index = acc.index \o Pasting(acc)
         /\ acc.tiles = <<>> => Flush(acc) = acc
  <1>1. /\ acc.sheets \in Seq(Sheet) /\ acc.tiles \in Seq(Nat)
        /\ acc.pending \in Seq(Nat) /\ acc.index \in Seq(Place)
        /\ acc = [sheets |-> acc.sheets, tiles |-> acc.tiles, pending |-> acc.pending,
                  index |-> acc.index]
    BY DEF Sheets
  <1>2. CASE acc.tiles = <<>>
    BY <1>2 DEF Flush
  <1>3. CASE acc.tiles # <<>>
    <2> DEFINE new == Append(acc.sheets, ContactSheet(acc.tiles))
               ix == acc.index \o Pasting(acc)
    <2>1. Flush(acc) = [sheets |-> new, tiles |-> <<>>, pending |-> <<>>, index |-> ix]
      <3>1. Flush(acc) = [Pasted(acc) EXCEPT !.tiles = <<>>, !.pending = <<>>]
        BY <1>3 DEF Flush
      <3>2. Pasted(acc) = [acc EXCEPT !.sheets = new, !.index = ix]
        BY DEF Pasted, Pasting
      <3> HIDE DEF new, ix
      <3> QED BY <1>1, <3>1, <3>2
    <2>2. ix \in Seq(Place)
      BY <1>1, PastingType
    <2>3. new \in Seq(Sheet)
      <3>1. ContactSheet(acc.tiles) \in Sheet
        BY <1>1, CellsOfTiles
      <3> QED BY <1>1, <3>1
    <2> HIDE DEF new, ix
    <2>4. <<>> \in Seq(Nat)
      OBVIOUS
    <2>5. Flush(acc) \in Sheets
      BY <2>1, <2>2, <2>3, <2>4 DEF Sheets
    <2> QED BY <1>3, <2>1, <2>5 DEF new, ix
  <1> QED BY <1>2, <1>3

\* A parcel is left out or put at the end of what is pending, and a full sheet is flushed.
LEMMA AddType ==
  ASSUME NEW chipped, NEW acc \in Sheets, NEW p \in Nat
  PROVE  LET with == [acc EXCEPT !.tiles = Append(@, p), !.pending = Append(@, p)]
         IN  /\ SheetAdd(chipped, acc, p) \in Sheets
             /\ with \in Sheets /\ with.pending = Append(acc.pending, p)
             /\ with.tiles = Append(acc.tiles, p)
             /\ with.sheets = acc.sheets /\ with.index = acc.index
  <1> DEFINE with == [acc EXCEPT !.tiles = Append(@, p), !.pending = Append(@, p)]
  <1>1. with \in Sheets /\ with.pending = Append(acc.pending, p)
        /\ with.tiles = Append(acc.tiles, p)
        /\ with.sheets = acc.sheets /\ with.index = acc.index
    <2>1. /\ acc.pending \in Seq(Nat) /\ Append(acc.pending, p) \in Seq(Nat)
          /\ acc.tiles \in Seq(Nat) /\ Append(acc.tiles, p) \in Seq(Nat)
      BY DEF Sheets
    <2> QED BY <2>1 DEF Sheets
  <1>2. SheetAdd(chipped, acc, p) \in {acc, Flush(with), with}
    BY DEF SheetAdd
  <1> QED BY <1>1, <1>2, FlushType

\* The accumulators of SheetsOf, one for each parcel.
IsSheeting(chipped, seq, N, a) ==
    /\ a[0] = NothingPasted
    /\ \A k \in 1 .. N : a[k] = SheetAdd(chipped, a[k - 1], seq[k])
    /\ SheetsOf(chipped) = Flush(a[N])

LEMMA SheetsAreFolded ==
  ASSUME NEW chipped, NEW N \in Nat, NEW seq \in [1 .. N -> Nat], SheetOrder(Drawn) = seq
  PROVE  \E a : IsSheeting(chipped, seq, N, a)
  <1> DEFINE D == 1 .. N
             Q(g) == g = [s \in SUBSET D |->
                            IF s = {} THEN NothingPasted
                            ELSE LET x == Max(s) IN SheetAdd(chipped, g[s \ {x}], seq[x])]
             fold == CHOOSE g : Q(g)
             st == [kv \in D \X Sheets |-> SheetAdd(chipped, kv[2], seq[kv[1]])]
  <1>1. SheetsOf(chipped) = Flush(fold[D])
    <2>1. DOMAIN seq = D
      OBVIOUS
    <2> QED BY <2>1 DEF SheetsOf, FoldLeft, MapThenFoldSet, SheetAdd
  <1>2. \A k \in D : \A v \in Sheets : st[<<k, v>>] = SheetAdd(chipped, v, seq[k])
    OBVIOUS
  <1>3. \A k \in D : \A v \in Sheets : SheetAdd(chipped, v, seq[k]) \in Sheets
    BY AddType
  <1>4. NothingPasted \in Sheets
    BY DEF NothingPasted, Sheets
  <1>5. PICK g : /\ g \in [SUBSET D -> Sheets]
                 /\ g[{}] = NothingPasted
                 /\ \A T \in SUBSET D : T # {} => g[T] = st[<<Max(T), g[T \ {Max(T)}]>>]
    <2>1. StaysIn(N, Sheets, st)
      <3> HIDE DEF st
      <3> QED BY <1>2, <1>3 DEF StaysIn
    <2> HIDE DEF st
    <2>2. \E g : IsLeftFold(N, Sheets, NothingPasted, st, g)
      BY <1>4, <2>1, FoldFromLeft
    <2> QED BY <2>2 DEF IsLeftFold
  <1>6. Q(g)
    <2> SUFFICES ASSUME NEW T \in SUBSET D, T # {}
                 PROVE  g[T] = SheetAdd(chipped, g[T \ {Max(T)}], seq[Max(T)])
      BY <1>5
    <2>1. Max(T) \in D /\ g[T \ {Max(T)}] \in Sheets
      BY <1>5, TopIsThere
    <2> HIDE DEF st
    <2> QED BY <1>2, <1>5, <2>1
  <1> HIDE DEF Q
  <1>7. Q(fold)
    BY <1>6, Zenon
  <1> HIDE DEF fold
  <1>8. \A T \in SUBSET D : fold[T] = IF T = {} THEN NothingPasted
                                      ELSE SheetAdd(chipped, fold[T \ {Max(T)}], seq[Max(T)])
    BY <1>7 DEF Q
  <1> DEFINE a == [k \in 0 .. N |-> fold[1 .. k]]
  <1>9. a[0] = NothingPasted /\ a[N] = fold[D]
    <2>1. 1 .. 0 = {} /\ {} \in SUBSET D /\ 0 \in 0 .. N /\ N \in 0 .. N
      OBVIOUS
    <2> QED BY <1>8, <2>1
  <1>10. ASSUME NEW k \in 1 .. N PROVE a[k] = SheetAdd(chipped, a[k - 1], seq[k])
    <2>1. /\ 1 .. k \in SUBSET D /\ 1 .. k # {} /\ k \in Nat \ {0}
          /\ k \in 0 .. N /\ k - 1 \in 0 .. N
      BY UpTo
    <2>2. Max(1 .. k) = k /\ (1 .. k) \ {k} = 1 .. (k - 1)
      BY <2>1, TopOfInterval
    <2>3. fold[1 .. k] = SheetAdd(chipped, fold[(1 .. k) \ {Max(1 .. k)}], seq[Max(1 .. k)])
      <3> DEFINE T == 1 .. k
      <3> HIDE DEF T
      <3> QED BY <1>8, <2>1 DEF T
    <2>4. fold[1 .. k] = SheetAdd(chipped, fold[1 .. (k - 1)], seq[k])
      BY <2>2, <2>3
    <2>5. a[k] = fold[1 .. k] /\ a[k - 1] = fold[1 .. (k - 1)]
      BY <2>1
    <2> HIDE DEF a
    <2> QED BY <2>4, <2>5
  <1> HIDE DEF a
  <1>11. IsSheeting(chipped, seq, N, a)
    BY <1>1, <1>9, <1>10 DEF IsSheeting
  <1> QED BY <1>11

\* Entry e names a cell of the sheets ss that shows its parcel.
Shown(ss, e) ==
    \E k \in DOMAIN ss : \E at \in DOMAIN ss[k] : NamesCell(e, k, at) /\ ss[k][at] = e.pid

\* Every chip of the sheets ss is named by an entry of ix.
AllNamed(ss, ix) ==
    \A k \in DOMAIN ss : \A at \in DOMAIN ss[k] : \E n \in DOMAIN ix : NamesCell(ix[n], k, at)

\* acc names the parcels of names, in the index or still pending, and none twice.
NamesOnce(acc, names) ==
    /\ names = {acc.index[n].pid : n \in DOMAIN acc.index}
                  \cup {acc.pending[n] : n \in DOMAIN acc.pending}
    /\ \A n, m \in DOMAIN acc.index : acc.index[n].pid = acc.index[m].pid => n = m
    /\ \A n, m \in DOMAIN acc.pending : acc.pending[n] = acc.pending[m] => n = m
    /\ \A n \in DOMAIN acc.index, m \in DOMAIN acc.pending : acc.index[n].pid # acc.pending[m]

\* The index agrees with the sheets, and what is pending with the tiles.
SheetsAgree(acc, names) ==
    /\ acc \in Sheets
    /\ acc.tiles = acc.pending
    /\ \A n \in DOMAIN acc.index : Shown(acc.sheets, acc.index[n])
    /\ AllNamed(acc.sheets, acc.index)
    /\ NamesOnce(acc, names)

\* A flush gives each tile a cell and an entry that names it.
LEMMA FlushAgrees ==
  ASSUME NEW names, NEW acc, SheetsAgree(acc, names)
  PROVE  SheetsAgree(Flush(acc), names) /\ Flush(acc).pending = <<>>
  <1>1. /\ acc \in Sheets /\ acc.sheets \in Seq(Sheet) /\ acc.tiles \in Seq(Nat)
        /\ acc.pending \in Seq(Nat) /\ acc.index \in Seq(Place)
        /\ acc.tiles = acc.pending
        /\ \A n \in DOMAIN acc.index : Shown(acc.sheets, acc.index[n])
        /\ AllNamed(acc.sheets, acc.index)
        /\ NamesOnce(acc, names)
    BY DEF SheetsAgree, Sheets
  <1>2. CASE acc.tiles = <<>>
    <2>1. Flush(acc) = acc
      BY <1>1, <1>2, FlushType
    <2> QED BY <1>1, <1>2, <2>1
  <1>3. CASE acc.tiles # <<>>
    <2> DEFINE K == Len(acc.sheets)
               L == Len(acc.index)
               M == Len(acc.pending)
               rowOf(j) == (j - 1) \div 2
               columnOf(j) == (j - 1) % 2
               top == ContactSheet(acc.pending)
               ss == Append(acc.sheets, top)
               new == Pasting(acc)
               ix == acc.index \o new
    <2>1. /\ Flush(acc) \in Sheets /\ Flush(acc).pending = <<>> /\ Flush(acc).tiles = <<>>
          /\ Flush(acc).sheets = ss /\ Flush(acc).index = ix
      BY <1>1, <1>3, FlushType
    <2>2. new \in Seq(Place) /\ Len(new) = M /\ L \in Nat /\ M \in Nat /\ K \in Nat
      BY <1>1, PastingType
    <2>3. /\ DOMAIN acc.index = 1 .. L /\ DOMAIN acc.pending = 1 .. M /\ DOMAIN acc.sheets = 1 .. K
      BY <1>1
    <2>4. \A j \in DOMAIN acc.pending :
             /\ new[j].pid = acc.pending[j] /\ new[j].sheet = K + 1
             /\ new[j].row = rowOf(j) /\ new[j].column = columnOf(j)
      BY DEF Pasting
    <2>5. /\ top \in Sheet
          /\ \A at \in DOMAIN top : \E j \in DOMAIN acc.pending :
                at = <<rowOf(j), columnOf(j)>> /\ top[at] = acc.pending[j]
          /\ \A j \in DOMAIN acc.pending :
                /\ <<rowOf(j), columnOf(j)>> \in DOMAIN top
                /\ top[<<rowOf(j), columnOf(j)>>] = acc.pending[j]
      BY <1>1, CellsOfTiles
    <2> HIDE DEF rowOf, columnOf, new, top
    <2>6. /\ DOMAIN ix = 1 .. L + M /\ DOMAIN ss = 1 .. K + 1
          /\ \A n \in 1 .. L + M : ix[n] = IF n <= L THEN acc.index[n] ELSE new[n - L]
          /\ \A k \in 1 .. K + 1 : ss[k] = IF k <= K THEN acc.sheets[k] ELSE top
      <3>1. /\ DOMAIN ix = 1 .. L + M
            /\ \A n \in 1 .. L + M : ix[n] = IF n <= L THEN acc.index[n] ELSE new[n - L]
        <4>1. acc.index \in Seq(Place)
          BY <1>1
        <4> HIDE DEF M
        <4> QED BY <2>2, <4>1
      <3>2. /\ DOMAIN ss = 1 .. K + 1
            /\ \A k \in 1 .. K + 1 : ss[k] = IF k = K + 1 THEN top ELSE acc.sheets[k]
        BY <1>1, <2>5
      <3>3. \A k \in 1 .. K + 1 : k = K + 1 <=> ~(k <= K)
        BY <2>2
      <3> QED BY <3>1, <3>2, <3>3
    <2> HIDE DEF ix, ss, K, L, M
    <2>7. ASSUME NEW n \in 1 .. L + M, n > L
          PROVE  /\ n - L \in 1 .. M /\ ix[n] = new[n - L]
                 /\ ix[n].pid = acc.pending[n - L]
      <3>1. n - L \in 1 .. M /\ ~(n <= L)
        BY <2>2, <2>7
      <3>2. ix[n] = new[n - L]
        BY <2>6, <3>1
      <3>3. new[n - L].pid = acc.pending[n - L]
        BY <2>3, <2>4, <3>1
      <3> QED BY <3>1, <3>2, <3>3
    <2>8. ASSUME NEW n \in 1 .. L + M, ~(n > L)
          PROVE  n \in 1 .. L /\ ix[n] = acc.index[n]
      <3>1. n <= L /\ n \in 1 .. L
        BY <2>2, <2>8
      <3> QED BY <2>6, <3>1
    <2>9. /\ \A k \in 1 .. K : k \in 1 .. K + 1 /\ ss[k] = acc.sheets[k]
          /\ K + 1 \in 1 .. K + 1 /\ ss[K + 1] = top
      <3>1. \A k \in 1 .. K : k \in 1 .. K + 1 /\ k <= K
        BY <2>2
      <3>2. K + 1 \in 1 .. K + 1 /\ ~(K + 1 <= K)
        BY <2>2
      <3> QED BY <2>6, <3>1, <3>2
    <2>10. /\ \A n \in 1 .. L : n \in 1 .. L + M /\ ix[n] = acc.index[n]
           /\ \A j \in 1 .. M : L + j \in 1 .. L + M /\ ix[L + j] = new[j]
      <3>1. \A n \in 1 .. L : n \in 1 .. L + M /\ n <= L
        BY <2>2
      <3>2. \A j \in 1 .. M : L + j \in 1 .. L + M /\ ~(L + j <= L) /\ (L + j) - L = j
        BY <2>2
      <3> QED BY <2>6, <3>1, <3>2
    <2>11. ASSUME NEW n \in DOMAIN ix PROVE Shown(ss, ix[n])
      <3>1. CASE n > L
        <4> DEFINE j == n - L
        <4>1. j \in 1 .. M /\ ix[n] = new[j]
          BY <2>6, <2>7, <3>1
        <4> HIDE DEF j
        <4> DEFINE at == <<rowOf(j), columnOf(j)>>
        <4>2. at \in DOMAIN top /\ top[at] = acc.pending[j]
          BY <2>3, <2>5, <4>1
        <4>3. /\ ix[n].pid = acc.pending[j] /\ ix[n].sheet = K + 1
              /\ ix[n].row = rowOf(j) /\ ix[n].column = columnOf(j)
          BY <2>3, <2>4, <4>1
        <4>4. NamesCell(ix[n], K + 1, at) /\ ix[n].pid = acc.pending[j]
          BY <4>3 DEF NamesCell
        <4> HIDE DEF at
        <4> QED BY <2>6, <2>9, <4>2, <4>4 DEF Shown
      <3>2. CASE ~(n > L)
        <4>1. n \in DOMAIN acc.index /\ ix[n] = acc.index[n]
          BY <2>3, <2>6, <2>8, <3>2
        <4>2. PICK k \in DOMAIN acc.sheets : \E at \in DOMAIN acc.sheets[k] :
                 NamesCell(acc.index[n], k, at) /\ acc.sheets[k][at] = acc.index[n].pid
          BY <1>1, <4>1 DEF Shown
        <4>3. k \in DOMAIN ss /\ ss[k] = acc.sheets[k]
          BY <2>3, <2>6, <2>9
        <4> QED BY <4>1, <4>2, <4>3 DEF Shown
      <3> QED BY <3>1, <3>2
    <2>12. ASSUME NEW k \in DOMAIN ss, NEW at \in DOMAIN ss[k]
           PROVE  \E n \in DOMAIN ix : NamesCell(ix[n], k, at)
      <3>1. CASE k \in 1 .. K
        <4>1. k \in DOMAIN acc.sheets /\ at \in DOMAIN acc.sheets[k]
          BY <2>3, <2>9, <3>1
        <4>2. PICK n \in DOMAIN acc.index : NamesCell(acc.index[n], k, at)
          BY <1>1, <4>1 DEF AllNamed
        <4> QED BY <2>3, <2>6, <2>10, <4>2
      <3>2. CASE k \notin 1 .. K
        <4>1. k = K + 1 /\ at \in DOMAIN top
          BY <2>2, <2>6, <2>9, <3>2
        <4>2. PICK j \in 1 .. M : at = <<rowOf(j), columnOf(j)>>
          BY <2>3, <2>5, <4>1
        <4>3. NamesCell(new[j], k, at)
          <5>1. new[j].sheet = K + 1 /\ new[j].row = rowOf(j) /\ new[j].column = columnOf(j)
            BY <2>3, <2>4
          <5> QED BY <4>1, <4>2, <5>1 DEF NamesCell
        <4> QED BY <2>6, <2>10, <4>3
      <3> QED BY <3>1, <3>2
    <2>13. \A n, m \in 1 .. L + M : n - L = m - L => n = m
      BY <2>2
    <2>14. NamesOnce(Flush(acc), names)
      <3>0. /\ \A i, k \in 1 .. L : acc.index[i].pid = acc.index[k].pid => i = k
            /\ \A i, k \in 1 .. M : acc.pending[i] = acc.pending[k] => i = k
            /\ \A i \in 1 .. L, k \in 1 .. M : acc.index[i].pid # acc.pending[k]
            /\ names = {acc.index[n].pid : n \in 1 .. L} \cup {acc.pending[n] : n \in 1 .. M}
        BY <1>1, <2>3 DEF NamesOnce
      <3>1. names = {ix[n].pid : n \in 1 .. L + M}
        <4>1. \A j \in 1 .. M : new[j].pid = acc.pending[j]
          BY <2>3, <2>4
        <4>2. \A n \in 1 .. L + M : ix[n].pid \in names
          BY <2>7, <2>8, <3>0
        <4>3. \A x \in names : \E n \in 1 .. L + M : ix[n].pid = x
          BY <2>10, <3>0, <4>1
        <4> QED BY <4>2, <4>3
      <3>2. ASSUME NEW n \in 1 .. L + M, NEW m \in 1 .. L + M, ix[n].pid = ix[m].pid PROVE n = m
        <4>1. CASE n > L /\ m > L
          <5>1. /\ n - L \in 1 .. M /\ ix[n].pid = acc.pending[n - L]
                /\ m - L \in 1 .. M /\ ix[m].pid = acc.pending[m - L]
            BY <2>7, <4>1
          <5>2. n - L = m - L
            BY <3>2, <3>0, <5>1
          <5> QED BY <2>13, <5>2
        <4>2. CASE n > L /\ ~(m > L)
          <5>1. /\ n - L \in 1 .. M /\ ix[n].pid = acc.pending[n - L]
                /\ m \in 1 .. L /\ ix[m].pid = acc.index[m].pid
            BY <2>7, <2>8, <4>2
          <5> QED BY <3>2, <3>0, <5>1
        <4>3. CASE ~(n > L) /\ m > L
          <5>1. /\ m - L \in 1 .. M /\ ix[m].pid = acc.pending[m - L]
                /\ n \in 1 .. L /\ ix[n].pid = acc.index[n].pid
            BY <2>7, <2>8, <4>3
          <5> QED BY <3>2, <3>0, <5>1
        <4>4. CASE ~(n > L) /\ ~(m > L)
          <5>1. n \in 1 .. L /\ ix[n] = acc.index[n] /\ m \in 1 .. L /\ ix[m] = acc.index[m]
            BY <2>8, <4>4
          <5> QED BY <3>2, <3>0, <5>1
        <4> QED BY <4>1, <4>2, <4>3, <4>4
      <3>3. /\ DOMAIN Flush(acc).pending = {} /\ Flush(acc).index = ix
            /\ DOMAIN ix = 1 .. L + M
        BY <2>1, <2>6
      <3> QED BY <3>1, <3>2, <3>3 DEF NamesOnce
    <2> QED BY <2>1, <2>11, <2>12, <2>14 DEF SheetsAgree, AllNamed
  <1> QED BY <1>2, <1>3

\* A parcel with imagery that was not named yet is pending, or on a sheet and named.
LEMMA AddAgrees ==
  ASSUME NEW names, NEW acc, SheetsAgree(acc, names),
         NEW p \in Nat, p \notin names, NEW chipped
  PROVE  SheetsAgree(SheetAdd(chipped, acc, p), names \cup ({p} \cap chipped))
  <1> DEFINE with == [acc EXCEPT !.tiles = Append(@, p), !.pending = Append(@, p)]
             next == SheetAdd(chipped, acc, p)
             more == names \cup {p}
  <1>1. /\ acc \in Sheets /\ acc.pending \in Seq(Nat) /\ acc.index \in Seq(Place)
        /\ acc.tiles = acc.pending
        /\ \A n \in DOMAIN acc.index : Shown(acc.sheets, acc.index[n])
        /\ AllNamed(acc.sheets, acc.index)
        /\ NamesOnce(acc, names)
    BY DEF SheetsAgree, Sheets
  <1>2. with \in Sheets /\ with.pending = Append(acc.pending, p)
        /\ with.tiles = Append(acc.tiles, p)
        /\ with.sheets = acc.sheets /\ with.index = acc.index
    BY <1>1, AddType
  <1>3. next = IF p \notin chipped THEN acc
               ELSE IF Len(with.tiles) >= PerSheet THEN Flush(with) ELSE with
    BY DEF SheetAdd
  <1>4. SheetsAgree(with, more)
    <2> DEFINE M == Len(acc.pending)
    <2>1. /\ M \in Nat /\ DOMAIN acc.pending = 1 .. M
          /\ DOMAIN Append(acc.pending, p) = 1 .. M + 1
          /\ \A n \in 1 .. M + 1 : Append(acc.pending, p)[n] = IF n = M + 1 THEN p ELSE acc.pending[n]
      BY <1>1
    <2> HIDE DEF with, M
    <2>2. /\ \A n \in 1 .. M + 1 : n # M + 1 => n \in 1 .. M
          /\ \A n \in 1 .. M : n \in 1 .. M + 1 /\ n # M + 1
          /\ M + 1 \in 1 .. M + 1
      BY <2>1
    <2>3. NamesOnce(with, more)
      <3> DEFINE pend == Append(acc.pending, p)
      <3> HIDE DEF pend
      <3>1. /\ DOMAIN pend = 1 .. M + 1 /\ pend[M + 1] = p
            /\ \A n \in 1 .. M : pend[n] = acc.pending[n]
        BY <2>1, <2>2 DEF pend
      <3>2. {pend[n] : n \in DOMAIN pend} = {acc.pending[n] : n \in DOMAIN acc.pending} \cup {p}
        BY <2>1, <2>2, <3>1
      <3>3. \A n, m \in DOMAIN pend : pend[n] = pend[m] => n = m
        BY <1>1, <2>1, <2>2, <3>1 DEF NamesOnce
      <3>4. \A n \in DOMAIN acc.index, m \in DOMAIN pend : acc.index[n].pid # pend[m]
        BY <1>1, <2>1, <2>2, <3>1 DEF NamesOnce
      <3>5. with.pending = pend /\ with.index = acc.index
        BY <1>2 DEF pend
      <3>6. more = {acc.index[n].pid : n \in DOMAIN acc.index} \cup {pend[n] : n \in DOMAIN pend}
        BY <1>1, <3>2 DEF NamesOnce
      <3> QED BY <1>1, <3>3, <3>4, <3>5, <3>6 DEF NamesOnce
    <2> QED BY <1>1, <1>2, <2>3 DEF SheetsAgree
  <1> HIDE DEF with
  <1>5. SheetsAgree(Flush(with), more)
    BY <1>4, FlushAgrees
  <1>6. CASE p \notin chipped
    <2>1. names \cup ({p} \cap chipped) = names /\ next = acc
      BY <1>3, <1>6
    <2> HIDE DEF next
    <2> QED BY <2>1 DEF next
  <1>7. CASE p \in chipped
    <2>1. names \cup ({p} \cap chipped) = more
      BY <1>7
    <2>2. next \in {Flush(with), with}
      BY <1>3, <1>7
    <2> HIDE DEF next, more
    <2> QED BY <1>4, <1>5, <2>1, <2>2 DEF next
  <1> QED BY <1>6, <1>7

\* After k parcels, those of the first k that have imagery are named; at the end, all are.
LEMMA SheetsName ==
  ASSUME DrawnInv, build = "done", NEW chipped \in SUBSET Drawn
  PROVE  SheetsAgree(SheetsOf(chipped), chipped) /\ SheetsOf(chipped).pending = <<>>
  <1> DEFINE N == Cardinality(Drawn)
             seq == SheetOrder(Drawn)
             Named(k) == {seq[i] : i \in 1 .. k} \cap chipped
  <1>1. IsFiniteSet(Drawn) /\ Drawn \subseteq Nat /\ N \in Nat
    BY DrawnFacts, FS_CardinalityType
  <1>2. /\ seq \in [1 .. N -> Drawn]
        /\ \A x \in Drawn : \E n \in 1 .. N : seq[n] = x
        /\ \A n, m \in 1 .. N : n < m => seq[n] # seq[m]
    BY SheetsAreOrdered DEF IsOrdering
  <1> HIDE DEF seq, N
  <1>3. seq \in [1 .. N -> Nat]
    BY <1>1, <1>2
  <1>4. PICK a : IsSheeting(chipped, seq, N, a)
    BY <1>1, <1>3, SheetsAreFolded DEF seq
  <1>5. /\ a[0] = NothingPasted
        /\ \A k \in 1 .. N : a[k] = SheetAdd(chipped, a[k - 1], seq[k])
        /\ SheetsOf(chipped) = Flush(a[N])
    BY <1>4 DEF IsSheeting
  <1> DEFINE P == {k \in Nat : k <= N => SheetsAgree(a[k], Named(k))}
  <1>6. 0 \in P
    <2>1. /\ NothingPasted \in Sheets /\ NothingPasted.index = <<>> /\ NothingPasted.pending = <<>>
          /\ NothingPasted.tiles = <<>> /\ NothingPasted.sheets = <<>>
      BY DEF NothingPasted, Sheets
    <2>2. Named(0) = {}
      OBVIOUS
    <2>3. NamesOnce(NothingPasted, {})
      BY <2>1 DEF NamesOnce
    <2>4. SheetsAgree(NothingPasted, {})
      BY <2>1, <2>3 DEF SheetsAgree, AllNamed
    <2> HIDE DEF Named
    <2> QED BY <1>5, <2>2, <2>4
  <1>7. ASSUME NEW k \in Nat, k \in P PROVE k + 1 \in P
    <2> SUFFICES ASSUME k + 1 <= N PROVE SheetsAgree(a[k + 1], Named(k + 1))
      OBVIOUS
    <2>1. k <= N /\ k + 1 \in 1 .. N /\ (k + 1) - 1 = k
      BY <1>1
    <2>2. SheetsAgree(a[k], Named(k))
      BY <1>7, <2>1
    <2>3. a[k + 1] = SheetAdd(chipped, a[k], seq[k + 1])
      BY <1>5, <2>1
    <2>4. seq[k + 1] \in Nat /\ seq[k + 1] \notin Named(k)
      <3>1. \A i \in 1 .. k : i \in 1 .. N /\ i < k + 1
        BY <1>1, <2>1
      <3> QED BY <1>2, <1>3, <2>1, <3>1
    <2>5. Named(k + 1) = Named(k) \cup ({seq[k + 1]} \cap chipped)
      <3>1. 1 .. k + 1 = (1 .. k) \cup {k + 1}
        OBVIOUS
      <3> QED BY <3>1
    <2> HIDE DEF Named
    <2>6. SheetsAgree(SheetAdd(chipped, a[k], seq[k + 1]), Named(k) \cup ({seq[k + 1]} \cap chipped))
      BY <2>2, <2>4, AddAgrees
    <2> QED BY <2>3, <2>5, <2>6
  <1>8. N \in P
    <2> HIDE DEF P
    <2> QED BY <1>1, <1>6, <1>7, CountingUp
  <1>9. SheetsAgree(a[N], Named(N))
    BY <1>1, <1>8
  <1>10. Named(N) = chipped
    BY <1>2
  <1> HIDE DEF Named
  <1> QED BY <1>5, <1>9, <1>10, FlushAgrees

\* The sheets and their index are written by one command.
LEMMA IndexInvNext ==
  ASSUME DrawnInv, IndexNamesChips, EvalNext
  PROVE  IndexNamesChips'
  <1>1. CASE UNCHANGED chipping /\ (score' = "sheets" => score = "sheets")
    BY <1>1 DEF IndexNamesChips, chipping
  <1>2. CASE ChipSheets
    <2> DEFINE made == SheetsOf(covered')
    <2>1. /\ covered' \in SUBSET Drawn /\ sheets' = made.sheets /\ index' = made.index
          /\ build = "done"
      BY <1>2 DEF ChipSheets
    <2>2. SheetsAgree(made, covered') /\ made.pending = <<>>
      BY <2>1, SheetsName
    <2> HIDE DEF made
    <2>3. /\ \A n \in DOMAIN index' : Shown(sheets', index'[n])
          /\ AllNamed(sheets', index')
          /\ NamesOnce(made, covered')
      BY <2>1, <2>2 DEF SheetsAgree
    <2>4. /\ covered' = {index'[n].pid : n \in DOMAIN index'}
          /\ \A n, m \in DOMAIN index' : index'[n].pid = index'[m].pid => n = m
      BY <2>1, <2>2, <2>3 DEF NamesOnce
    <2> QED BY <2>3, <2>4 DEF IndexNamesChips, Shown, AllNamed
  <1> QED BY <1>1, <1>2
      DEF EvalNext, ScoreStart, ScoreFails, ScoreParcel, ApplyLabels, Audit, scoring, chipping

--------------------------------------------------------------------------------
(* The figures of the ranking.                                             *)

\* What the figures are taken of.
Rankable(rs) ==
    IsFiniteSet(DOMAIN rs) /\ DOMAIN rs \subseteq Nat /\ \A p \in DOMAIN rs : rs[p] \in Result

\* What each scored parcel stands for.
WeightOf(rs) == [p \in Scored(rs) |-> Weight(rs, rs[p].stratum)]

\* The scores of the scored parcels.
Marks(rs) == {rs[p].score : p \in Scored(rs)}

\* What is scored and what it is scored by are finite, and weights are numbers.
LEMMA RankableFacts ==
  ASSUME NEW rs, Rankable(rs)
  PROVE  /\ IsFiniteSet(Scored(rs)) /\ Scored(rs) \subseteq Nat
         /\ \A p \in Scored(rs) : rs[p].score \in Nat /\ rs[p].stratum \in Strata
         /\ \A s : Weight(rs, s) \in Nat \/ s \notin Strata
         /\ \A p \in Scored(rs) : WeightOf(rs)[p] \in Nat
         /\ IsFiniteSet(Marks(rs)) /\ Marks(rs) \subseteq Nat
  <1>1. IsFiniteSet(Scored(rs)) /\ Scored(rs) \subseteq Nat
    BY FS_Subset DEF Rankable, Scored
  <1>2. \A p \in Scored(rs) : rs[p].score \in Nat /\ rs[p].stratum \in Strata
    BY DEF Rankable, Scored, Result
  <1>3. ASSUME NEW s \in Strata PROVE Weight(rs, s) \in Nat
    <2> DEFINE n == Count(rs, s)
    <2>1. n \in Nat
      <3> DEFINE T == {p \in Scored(rs) : rs[p].stratum = s}
      <3>1. IsFiniteSet(T)
        BY <1>1, FS_Subset
      <3> HIDE DEF T
      <3>2. Cardinality(T) \in Nat
        BY <3>1, FS_CardinalityType
      <3> QED BY <3>2 DEF Count, T
    <2>2. CountyCount[s] \in Nat /\ Scale \in Nat
      BY EvalSetAssumption, EvaluationAssumption
    <2> HIDE DEF n
    <2>3. CASE n = 0
      BY <2>3 DEF Weight, n
    <2>4. CASE n # 0
      <3>1. Scale \div n \in Nat
        BY <2>1, <2>2, <2>4
      <3>2. Weight(rs, s) = CountyCount[s] * (Scale \div n)
        BY <2>4 DEF Weight, n
      <3> QED BY <2>2, <3>1, <3>2
    <2> QED BY <2>3, <2>4
  <1>4. \A p \in Scored(rs) : WeightOf(rs)[p] \in Nat
    BY <1>2, <1>3 DEF WeightOf
  <1>5. IsFiniteSet(Marks(rs))
    <2> DEFINE f == [p \in Scored(rs) |-> rs[p].score]
    <2>1. f \in Surjection(Scored(rs), Marks(rs))
      BY DEF Surjection, Marks
    <2> HIDE DEF f
    <2> QED BY <1>1, <2>1, FS_Surjection
  <1>6. Marks(rs) \subseteq Nat
    BY <1>2 DEF Marks
  <1> QED BY <1>1, <1>2, <1>3, <1>4, <1>5, <1>6

\* Sums of weights.
LEMMA WeightsFacts ==
  ASSUME NEW rs, Rankable(rs)
  PROVE  /\ NatOn(Scored(rs), WeightOf(rs))
         /\ \A ps \in SUBSET Scored(rs) : /\ Weights(rs, ps) = SumFunctionOnSet(WeightOf(rs), ps)
                                          /\ Weights(rs, ps) \in Nat
         /\ \A A, B \in SUBSET Scored(rs) :
               A \cap B = {} => Weights(rs, A \cup B) = Weights(rs, A) + Weights(rs, B)
         /\ Weights(rs, {}) = 0
  <1> DEFINE S == Scored(rs)
             w == WeightOf(rs)
  <1>1. IsFiniteSet(S) /\ NatOn(S, w)
    BY RankableFacts DEF NatOn
  <1>2. ASSUME NEW ps \in SUBSET S
        PROVE  Weights(rs, ps) = SumFunctionOnSet(w, ps) /\ SumFunctionOnSet(w, ps) \in Nat
    <2>1. IsFiniteSet(ps) /\ ps \subseteq S
      BY <1>1, FS_Subset
    <2>2. NatOn(ps, w)
      BY <1>1 DEF NatOn
    <2>3. w = [p \in S |-> Weight(rs, rs[p].stratum)]
      BY DEF WeightOf
    <2>4. Weights(rs, ps) = SumFunctionOnSet(w, ps)
      BY <2>1, <2>2, <2>3, WeightsAsSum
    <2>5. SumFunctionOnSet(w, ps) \in Nat
      BY <1>1, SumFacts
    <2> QED BY <2>4, <2>5
  <1>3. \A A, B \in SUBSET S : A \cap B = {} =>
           SumFunctionOnSet(w, A \cup B) = SumFunctionOnSet(w, A) + SumFunctionOnSet(w, B)
    BY <1>1, SumUnion
  <1>4. SumFunctionOnSet(w, {}) = 0
    BY <1>1, SumFacts
  <1>5. {} \in SUBSET S /\ \A A, B \in SUBSET S : A \cup B \in SUBSET S
    OBVIOUS
  <1> HIDE DEF w
  <1>6. \A A, B \in SUBSET S : A \cap B = {} => Weights(rs, A \cup B) = Weights(rs, A) + Weights(rs, B)
    BY <1>2, <1>3, <1>5
  <1>7. Weights(rs, {}) = 0
    BY <1>2, <1>4, <1>5
  <1> QED BY <1>1, <1>2, <1>6, <1>7 DEF w

\* The order of the ranking, and that of the scores, as pairs.
RankPairs(rs) == {pq \in Scored(rs) \X Scored(rs) : Before(rs, pq[1], pq[2])}
MarkPairs(rs) == {ab \in Marks(rs) \X Marks(rs) : ab[1] > ab[2]}

\* _ranked(): the scored parcels, each once, in the order of Before.
LEMMA RankedIsOrdering ==
  ASSUME NEW rs, Rankable(rs)
  PROVE  IsOrdering(Scored(rs), RankPairs(rs), Ranked(rs))
  <1> DEFINE S == Scored(rs)
             R == RankPairs(rs)
  <1>1. /\ IsFiniteSet(S) /\ S \subseteq Nat
        /\ \A p \in S : rs[p].score \in Nat
    BY RankableFacts
  <1>2. \A p, q : <<p, q>> \in R <=> p \in S /\ q \in S /\ Before(rs, p, q)
    BY DEF RankPairs
  <1>3. StrictOrder(S, R)
    <2>1. \A p \in S : ~Before(rs, p, p)
      BY <1>1 DEF Before
    <2>2. \A p, q, r \in S : Before(rs, p, q) /\ Before(rs, q, r) => Before(rs, p, r)
      <3> SUFFICES ASSUME NEW p \in S, NEW q \in S, NEW r \in S, Before(rs, p, q), Before(rs, q, r)
                   PROVE  Before(rs, p, r)
        OBVIOUS
      <3>1. /\ p \in Nat /\ q \in Nat /\ r \in Nat
            /\ rs[p].score \in Nat /\ rs[q].score \in Nat /\ rs[r].score \in Nat
        BY <1>1
      <3> QED BY <3>1 DEF Before
    <2>3. \A p, q \in S : p # q => Before(rs, p, q) \/ Before(rs, q, p)
      <3> SUFFICES ASSUME NEW p \in S, NEW q \in S, p # q
                   PROVE  Before(rs, p, q) \/ Before(rs, q, p)
        OBVIOUS
      <3>1. p \in Nat /\ q \in Nat /\ rs[p].score \in Nat /\ rs[q].score \in Nat
        BY <1>1
      <3> QED BY <3>1 DEF Before
    <2> HIDE DEF R, S
    <2> QED BY <1>2, <2>1, <2>2, <2>3 DEF StrictOrder
  <1>4. \A x \in S : Below(S, R, x) = {y \in S : Before(rs, y, x)}
    <2> HIDE DEF R
    <2> QED BY <1>2 DEF Below
  <1>5. Ranked(rs) = [n \in 1 .. Cardinality(S) |->
                        CHOOSE x \in S : Cardinality(Below(S, R, x)) = n - 1]
    <2> HIDE DEF R
    <2>1. \A n : (CHOOSE x \in S : Cardinality({y \in S : Before(rs, y, x)}) = n - 1)
                    = (CHOOSE x \in S : Cardinality(Below(S, R, x)) = n - 1)
      <3> TAKE n
      <3>1. \A x : (x \in S /\ Cardinality({y \in S : Before(rs, y, x)}) = n - 1)
                     <=> (x \in S /\ Cardinality(Below(S, R, x)) = n - 1)
        BY <1>4
      <3> QED BY <3>1
    <2>2. Ranked(rs) = [n \in 1 .. Cardinality(S) |->
                          CHOOSE x \in S : Cardinality({y \in S : Before(rs, y, x)}) = n - 1]
      BY DEF Ranked, InOrder
    <2> QED BY <2>1, <2>2
  <1> HIDE DEF R, S
  <1>6. IsOrdering(S, R, Ranked(rs))
    BY <1>1, <1>3, <1>5, ChosenPlaces
  <1> QED BY <1>6 DEF R, S

\* The scores of the groups, from the best down.
LEMMA MarksAreOrdered ==
  ASSUME NEW rs, Rankable(rs)
  PROVE  IsOrdering(Marks(rs), MarkPairs(rs), InOrder(Marks(rs), Above))
  <1> DEFINE S == Marks(rs)
             R == MarkPairs(rs)
             seq == InOrder(S, Above)
  <1>1. IsFiniteSet(S) /\ S \subseteq Nat
    BY RankableFacts
  <1>2. \A a, b : <<a, b>> \in R <=> a \in S /\ b \in S /\ a > b
    BY DEF MarkPairs
  <1>3. StrictOrder(S, R)
    <2>1. \A a, b, c \in S : a \in Nat /\ b \in Nat /\ c \in Nat
      BY <1>1
    <2> HIDE DEF R, S
    <2> QED BY <1>2, <2>1 DEF StrictOrder
  <1>4. \A x \in S : Below(S, R, x) = {y \in S : Above(y, x)}
    <2> HIDE DEF R
    <2> QED BY <1>2 DEF Below, Above
  <1>5. seq = [n \in 1 .. Cardinality(S) |->
                        CHOOSE x \in S : Cardinality(Below(S, R, x)) = n - 1]
    <2> HIDE DEF R
    <2>1. \A n : (CHOOSE x \in S : Cardinality({y \in S : Above(y, x)}) = n - 1)
                    = (CHOOSE x \in S : Cardinality(Below(S, R, x)) = n - 1)
      <3> TAKE n
      <3>1. \A x : (x \in S /\ Cardinality({y \in S : Above(y, x)}) = n - 1)
                     <=> (x \in S /\ Cardinality(Below(S, R, x)) = n - 1)
        BY <1>4
      <3> QED BY <3>1
    <2>2. seq = [n \in 1 .. Cardinality(S) |->
                          CHOOSE x \in S : Cardinality({y \in S : Above(y, x)}) = n - 1]
      BY DEF InOrder
    <2> QED BY <2>1, <2>2
  <1> HIDE DEF R, S, seq
  <1>6. IsOrdering(S, R, seq)
    BY <1>1, <1>3, <1>5, ChosenPlaces
  <1> QED BY <1>6 DEF R, S, seq

\* One parcel of precision_at_top_fraction(): the step of TopOfRanking.
TopStep(rs, acc, p) ==
    LET w == Weight(rs, rs[p].stratum)
    IN  IF acc.full \/ (acc.taken > 0 /\ (acc.taken + w) * Top.in > Summarise(rs).total * Top.of)
        THEN [acc EXCEPT !.full = TRUE]
        ELSE [acc EXCEPT !.taken = @ + w, !.parcels = @ \cup {p},
                         !.hits = IF p \in Improved(rs) THEN @ + w ELSE @]

\* Its accumulator at first, and ever after.
NoTop == [taken |-> 0, hits |-> 0, parcels |-> {}, full |-> FALSE]
Tops(rs) == [taken : Nat, hits : Nat, parcels : SUBSET Scored(rs), full : BOOLEAN]

\* The step keeps to such accumulators.
LEMMA TopStepType ==
  ASSUME NEW rs, Rankable(rs), NEW acc \in Tops(rs), NEW p \in Scored(rs)
  PROVE  TopStep(rs, acc, p) \in Tops(rs)
  <1> DEFINE w == Weight(rs, rs[p].stratum)
             full == [acc EXCEPT !.full = TRUE]
             next == [acc EXCEPT !.taken = @ + w, !.parcels = @ \cup {p},
                                 !.hits = IF p \in Improved(rs) THEN @ + w ELSE @]
  <1>1. w \in Nat
    BY RankableFacts
  <1> HIDE DEF w
  <1>2. full \in Tops(rs)
    BY DEF Tops
  <1>3. acc.taken + w \in Nat /\ acc.hits + w \in Nat /\ acc.parcels \cup {p} \in SUBSET Scored(rs)
    BY <1>1 DEF Tops
  <1>4. next \in Tops(rs)
    BY <1>3 DEF Tops
  <1> QED BY <1>2, <1>4 DEF TopStep, w

\* The accumulators of TopOfRanking, one for each parcel.
IsTopping(rs, seq, N, a) ==
    /\ a[0] = NoTop
    /\ \A k \in 1 .. N : a[k] = TopStep(rs, a[k - 1], seq[k])
    /\ TopOfRanking(rs) = a[N]

\* TopOfRanking goes through them, parcel by parcel.
LEMMA TopIsFolded ==
  ASSUME NEW rs, Rankable(rs), NEW N \in Nat, NEW seq \in [1 .. N -> Scored(rs)], Ranked(rs) = seq
  PROVE  \E a : IsTopping(rs, seq, N, a)
  <1> DEFINE D == 1 .. N
             V == Tops(rs)
             Q(g) == g = [s \in SUBSET D |->
                            IF s = {} THEN NoTop
                            ELSE LET x == Max(s) IN TopStep(rs, g[s \ {x}], seq[x])]
             fold == CHOOSE g : Q(g)
             st == [kv \in D \X V |-> TopStep(rs, kv[2], seq[kv[1]])]
  <1>1. TopOfRanking(rs) = fold[D]
    <2>1. DOMAIN seq = D
      OBVIOUS
    <2> QED BY <2>1 DEF TopOfRanking, FoldLeft, MapThenFoldSet, TopStep, NoTop
  <1>2. \A k \in D : \A v \in V : st[<<k, v>>] = TopStep(rs, v, seq[k])
    OBVIOUS
  <1>3. \A k \in D : \A v \in V : TopStep(rs, v, seq[k]) \in V
    BY TopStepType
  <1>4. NoTop \in V
    BY DEF NoTop, Tops
  <1>5. PICK g : /\ g \in [SUBSET D -> V]
                 /\ g[{}] = NoTop
                 /\ \A T \in SUBSET D : T # {} => g[T] = st[<<Max(T), g[T \ {Max(T)}]>>]
    <2>1. StaysIn(N, V, st)
      <3> HIDE DEF st, V
      <3> QED BY <1>2, <1>3 DEF StaysIn
    <2> HIDE DEF st, V
    <2>2. \E g : IsLeftFold(N, V, NoTop, st, g)
      BY <1>4, <2>1, FoldFromLeft
    <2> QED BY <2>2 DEF IsLeftFold
  <1>6. Q(g)
    <2> SUFFICES ASSUME NEW T \in SUBSET D, T # {}
                 PROVE  g[T] = TopStep(rs, g[T \ {Max(T)}], seq[Max(T)])
      BY <1>5
    <2>1. Max(T) \in D /\ g[T \ {Max(T)}] \in V
      BY <1>5, TopIsThere
    <2> HIDE DEF st, V
    <2> QED BY <1>2, <1>5, <2>1
  <1> HIDE DEF Q
  <1>7. Q(fold)
    BY <1>6, Zenon
  <1> HIDE DEF fold
  <1>8. \A T \in SUBSET D : fold[T] = IF T = {} THEN NoTop
                                      ELSE TopStep(rs, fold[T \ {Max(T)}], seq[Max(T)])
    BY <1>7 DEF Q
  <1> DEFINE a == [k \in 0 .. N |-> fold[1 .. k]]
  <1>9. a[0] = NoTop /\ a[N] = fold[D]
    <2>1. 1 .. 0 = {} /\ {} \in SUBSET D /\ 0 \in 0 .. N /\ N \in 0 .. N
      OBVIOUS
    <2> QED BY <1>8, <2>1
  <1>10. ASSUME NEW k \in 1 .. N PROVE a[k] = TopStep(rs, a[k - 1], seq[k])
    <2>1. /\ 1 .. k \in SUBSET D /\ 1 .. k # {} /\ k \in Nat \ {0}
          /\ k \in 0 .. N /\ k - 1 \in 0 .. N
      <3>1. k \in Nat \ {0} /\ k <= N /\ k \in 1 .. k /\ k \in 0 .. N /\ k - 1 \in 0 .. N
        OBVIOUS
      <3> QED BY <3>1
    <2>2. Max(1 .. k) = k /\ (1 .. k) \ {k} = 1 .. (k - 1)
      BY <2>1, TopOfInterval
    <2>3. fold[1 .. k] = TopStep(rs, fold[(1 .. k) \ {Max(1 .. k)}], seq[Max(1 .. k)])
      <3> DEFINE T == 1 .. k
      <3> HIDE DEF T
      <3> QED BY <1>8, <2>1 DEF T
    <2>4. fold[1 .. k] = TopStep(rs, fold[1 .. (k - 1)], seq[k])
      BY <2>2, <2>3
    <2>5. a[k] = fold[1 .. k] /\ a[k - 1] = fold[1 .. (k - 1)]
      BY <2>1
    <2> HIDE DEF a
    <2> QED BY <2>4, <2>5
  <1> HIDE DEF a
  <1>11. IsTopping(rs, seq, N, a)
    BY <1>1, <1>9, <1>10 DEF IsTopping
  <1> QED BY <1>11

\* The parcels that weigh anything.
Weighing(rs, ps) == {p \in ps : Weight(rs, rs[p].stratum) > 0}

\* acc holds the first j of k parcels, and if it stopped there, the next one does not fit.
TopAfter(rs, seq, k, j, acc) ==
    /\ acc.parcels = {seq[i] : i \in 1 .. j}
    /\ ~acc.full => j = k
    /\ acc.full => /\ j < k
                   /\ (acc.taken + Weight(rs, rs[seq[j + 1]].stratum)) * Top.in
                        > Summarise(rs).total * Top.of
    /\ acc.taken = 0 => Weighing(rs, acc.parcels) = {}
    /\ acc.taken * Top.in > Summarise(rs).total * Top.of =>
          \E p \in acc.parcels : Weighing(rs, acc.parcels) = {p}

\* One more parcel: it is taken, or the top stops before it for good.
LEMMA TopGrows ==
  ASSUME NEW rs, Rankable(rs), NEW N \in Nat, NEW seq \in [1 .. N -> Scored(rs)],
         NEW k \in 0 .. N - 1, NEW j \in 0 .. k, NEW acc \in Tops(rs),
         TopAfter(rs, seq, k, j, acc)
  PROVE  \E i \in 0 .. k + 1 : TopAfter(rs, seq, k + 1, i, TopStep(rs, acc, seq[k + 1]))
  <1> DEFINE p == seq[k + 1]
             w == Weight(rs, rs[p].stratum)
             total == Summarise(rs).total
             in == Top.in
             budget == total * Top.of
             next == TopStep(rs, acc, p)
             stop == acc.full \/ (acc.taken > 0 /\ (acc.taken + w) * in > budget)
  <1>1. k + 1 \in 1 .. N /\ p \in Scored(rs) /\ k \in Nat
    OBVIOUS
  <1>2. w \in Nat /\ acc.taken \in Nat /\ acc.full \in BOOLEAN
    BY <1>1, RankableFacts DEF Tops
  <1>3. in \in Nat \ {0} /\ budget \in Nat
    <2>1. total \in Nat
      <3>1. Summarise(rs).total = Weights(rs, Scored(rs))
        BY DEF Summarise
      <3> QED BY <3>1, WeightsFacts
    <2>2. Top.of \in Nat /\ Top.in \in Nat \ {0}
      BY EvaluationAssumption
    <2> HIDE DEF total
    <2> QED BY <2>1, <2>2
  <1>4. CASE stop
    <2>1. next = [acc EXCEPT !.full = TRUE]
      BY <1>4 DEF TopStep
    <2>2. /\ next.parcels = acc.parcels /\ next.taken = acc.taken /\ next.full = TRUE
      BY <2>1 DEF Tops
    <2>3. j < k + 1 /\ j \in 0 .. k + 1
      BY <1>1
    <2>4. (acc.taken + Weight(rs, rs[seq[j + 1]].stratum)) * in > budget
      <3>1. CASE acc.full
        BY <3>1 DEF TopAfter
      <3>2. CASE ~acc.full
        <4>1. j = k
          BY <3>2 DEF TopAfter
        <4>2. (acc.taken + w) * in > budget
          BY <1>4, <3>2
        <4> QED BY <4>1, <4>2
      <3> QED BY <3>1, <3>2
    <2> HIDE DEF next
    <2>5. TopAfter(rs, seq, k + 1, j, next)
      BY <2>2, <2>3, <2>4 DEF TopAfter
    <2> QED BY <2>3, <2>5 DEF next
  <1>5. CASE ~stop
    <2>1. next = [acc EXCEPT !.taken = @ + w, !.parcels = @ \cup {p},
                             !.hits = IF p \in Improved(rs) THEN @ + w ELSE @]
      BY <1>5 DEF TopStep
    <2>2. /\ next.parcels = acc.parcels \cup {p} /\ next.taken = acc.taken + w
          /\ next.full = FALSE /\ j = k
      BY <1>2, <1>5, <2>1 DEF Tops, TopAfter
    <2>3. next.parcels = {seq[i] : i \in 1 .. k + 1}
      <3>1. acc.parcels = {seq[i] : i \in 1 .. k}
        BY <2>2 DEF TopAfter
      <3>2. 1 .. k + 1 = (1 .. k) \cup {k + 1}
        BY <1>1
      <3> QED BY <2>2, <3>1, <3>2
    <2>4. Weighing(rs, next.parcels) = IF w > 0 THEN Weighing(rs, acc.parcels) \cup {p}
                                       ELSE Weighing(rs, acc.parcels)
      BY <2>2 DEF Weighing
    <2>5. acc.taken = 0 => Weighing(rs, acc.parcels) = {}
      BY DEF TopAfter
    <2> HIDE DEF next, w, in, budget, p
    <2>6. next.taken = 0 => Weighing(rs, next.parcels) = {}
      BY <1>2, <2>2, <2>4, <2>5
    <2>7. ASSUME next.taken * in > budget
          PROVE  \E q \in next.parcels : Weighing(rs, next.parcels) = {q}
      <3>1. acc.taken = 0
        BY <1>2, <1>5, <2>2, <2>7
      <3>2. w > 0
        <4>1. 0 * in = 0
          BY <1>3
        <4>2. next.taken # 0
          BY <1>3, <2>7, <4>1
        <4> QED BY <1>2, <2>2, <3>1, <4>2
      <3>3. Weighing(rs, next.parcels) = {p}
        BY <2>4, <2>5, <3>1, <3>2
      <3> QED BY <2>2, <3>3
    <2>8. TopAfter(rs, seq, k + 1, k + 1, next)
      BY <2>2, <2>3, <2>6, <2>7 DEF TopAfter, in, budget
    <2> QED BY <1>1, <2>8 DEF next, p
  <1> QED BY <1>4, <1>5

\* precision_at_top_fraction(), for any scores, weights and fraction.
LEMMA TopOfRankable ==
  ASSUME NEW rs, Rankable(rs)
  PROVE  TopIsLongest(rs)
  <1> DEFINE S == Scored(rs)
             N == Cardinality(S)
             seq == Ranked(rs)
             top == TopOfRanking(rs)
  <1>1. IsFiniteSet(S) /\ N \in Nat
    BY RankableFacts, FS_CardinalityType
  <1>2. /\ seq \in [1 .. N -> S]
        /\ \A x \in S : \E n \in 1 .. N : seq[n] = x
        /\ \A n, m \in 1 .. N : n < m => <<seq[n], seq[m]>> \in RankPairs(rs) /\ seq[n] # seq[m]
    BY RankedIsOrdering DEF IsOrdering
  <1> HIDE DEF N, seq
  <1>3. PICK a : IsTopping(rs, seq, N, a)
    BY <1>1, <1>2, TopIsFolded DEF seq
  <1>4. /\ a[0] = NoTop
        /\ \A k \in 1 .. N : a[k] = TopStep(rs, a[k - 1], seq[k])
        /\ top = a[N]
    BY <1>3 DEF IsTopping
  <1> DEFINE P == {k \in Nat : k <= N => /\ a[k] \in Tops(rs)
                                         /\ \E j \in 0 .. k : TopAfter(rs, seq, k, j, a[k])}
  <1>5. 0 \in P
    <2>1. NoTop \in Tops(rs)
      BY DEF NoTop, Tops
    <2>2. TopAfter(rs, seq, 0, 0, NoTop)
      <3>1. Top.in \in Nat /\ Top.of \in Nat /\ Summarise(rs).total \in Nat
        <4>1. Summarise(rs).total = Weights(rs, S)
          BY DEF Summarise
        <4> QED BY <4>1, WeightsFacts, EvaluationAssumption
      <3> DEFINE t == Summarise(rs).total
      <3> HIDE DEF t
      <3>2. ~(0 * Top.in > t * Top.of)
        <4>1. t * Top.of \in Nat /\ 0 * Top.in = 0
          BY <3>1 DEF t
        <4> QED BY <4>1
      <3>3. NoTop.taken = 0 /\ NoTop.full = FALSE /\ NoTop.parcels = {}
        BY DEF NoTop
      <3>4. {seq[i] : i \in 1 .. 0} = {} /\ Weighing(rs, {}) = {}
        BY DEF Weighing
      <3> QED BY <3>2, <3>3, <3>4 DEF TopAfter, t
    <2> QED BY <1>4, <2>1, <2>2
  <1>6. ASSUME NEW k \in Nat, k \in P PROVE k + 1 \in P
    <2> SUFFICES ASSUME k + 1 <= N
                 PROVE  /\ a[k + 1] \in Tops(rs)
                        /\ \E j \in 0 .. k + 1 : TopAfter(rs, seq, k + 1, j, a[k + 1])
      OBVIOUS
    <2>1. k <= N /\ k + 1 \in 1 .. N /\ (k + 1) - 1 = k /\ k \in 0 .. N - 1
      BY <1>1
    <2>2. a[k] \in Tops(rs) /\ \E j \in 0 .. k : TopAfter(rs, seq, k, j, a[k])
      BY <1>6, <2>1
    <2>3. a[k + 1] = TopStep(rs, a[k], seq[k + 1])
      BY <1>4, <2>1
    <2>4. seq[k + 1] \in S
      BY <1>2, <2>1
    <2>5. a[k + 1] \in Tops(rs)
      BY <2>2, <2>3, <2>4, TopStepType
    <2>6. \E j \in 0 .. k + 1 : TopAfter(rs, seq, k + 1, j, TopStep(rs, a[k], seq[k + 1]))
      BY <1>1, <1>2, <2>1, <2>2, TopGrows
    <2> QED BY <2>3, <2>5, <2>6
  <1>7. N \in P
    <2> HIDE DEF P
    <2> QED BY <1>1, <1>5, <1>6, CountingUp
  <1>8. top \in Tops(rs)
    BY <1>1, <1>4, <1>7
  <1>9. PICK j \in 0 .. N : TopAfter(rs, seq, N, j, top)
    <2> HIDE DEF top
    <2> QED BY <1>1, <1>4, <1>7
  <1> HIDE DEF top
  <1>10. /\ top.parcels = {seq[i] : i \in 1 .. j}
         /\ ~top.full => j = N
         /\ top.full => /\ j < N
                        /\ (top.taken + Weight(rs, rs[seq[j + 1]].stratum)) * Top.in
                              > Summarise(rs).total * Top.of
    BY <1>9 DEF TopAfter
  <1> DEFINE rest == S \ top.parcels
  <1>11. top.taken * Top.in > Summarise(rs).total * Top.of
            => Cardinality({p \in top.parcels : Weight(rs, rs[p].stratum) > 0}) = 1
    <2> SUFFICES ASSUME NEW p, Weighing(rs, top.parcels) = {p}
                 PROVE  Cardinality(Weighing(rs, top.parcels)) = 1
      BY <1>9 DEF TopAfter, Weighing
    <2> QED BY FS_Singleton
  <1>12. ASSUME NEW p \in top.parcels, NEW q \in rest PROVE rs[p].score >= rs[q].score
    <2>1. PICK i \in 1 .. j : p = seq[i]
      BY <1>10
    <2>2. PICK m \in 1 .. N : q = seq[m]
      BY <1>2
    <2>3. m \notin 1 .. j
      BY <1>10, <2>2
    <2>4. i < m /\ i \in 1 .. N
      BY <1>1, <2>3
    <2>5. <<p, q>> \in RankPairs(rs)
      BY <1>2, <2>1, <2>2, <2>4
    <2>6. Before(rs, p, q) /\ p \in S /\ q \in S
      BY <2>5 DEF RankPairs
    <2>7. rs[p].score \in Nat /\ rs[q].score \in Nat
      BY <2>6, RankableFacts
    <2> QED BY <2>6, <2>7 DEF Before
  <1>13. ASSUME rest # {}
         PROVE  \E q \in rest : (top.taken + Weight(rs, rs[q].stratum)) * Top.in
                                    > Summarise(rs).total * Top.of
    <2>1. top.full
      <3> SUFFICES ASSUME ~top.full PROVE FALSE
        OBVIOUS
      <3>1. PICK q \in S : q \notin top.parcels
        BY <1>13
      <3> QED BY <1>2, <1>10, <3>1
    <2>2. j + 1 \in 1 .. N
      BY <1>1, <1>10, <2>1
    <2>3. seq[j + 1] \in S
      BY <1>2, <2>2
    <2>4. seq[j + 1] \notin top.parcels
      <3> SUFFICES ASSUME NEW i \in 1 .. j, seq[i] = seq[j + 1] PROVE FALSE
        BY <1>10
      <3>1. i \in 1 .. N /\ i < j + 1
        BY <1>1
      <3> QED BY <1>2, <2>2, <3>1
    <2> QED BY <1>10, <2>1, <2>3, <2>4
  <1> QED BY <1>11, <1>12, <1>13 DEF TopIsLongest, top

\* Every member of a finite set of numbers divides its Product.
LEMMA ProductIsDivided ==
  ASSUME NEW ns, IsFiniteSet(ns), NatOn(ns, [n \in ns |-> n])
  PROVE  Product(ns) \in Nat /\ \A n \in ns : \E k \in Nat : Product(ns) = n * k
  <1> DEFINE pick(T) == CHOOSE x \in T : TRUE
             st == [p \in ns \X Nat |-> p[1] * p[2]]
             ch == [T \in SUBSET ns |-> pick(T)]
             id == [n \in ns |-> n]
             Q(g) == g = [s \in SUBSET ns |-> IF s = {} THEN 1
                                              ELSE LET x == CHOOSE x \in s : TRUE
                                                   IN  id[x] * g[s \ {x}]]
             prod == CHOOSE g : Q(g)
  <1>1. \A T \in SUBSET ns : T # {} => ch[T] \in T
    OBVIOUS
  <1>2. \A n \in ns, v \in Nat : st[<<n, v>>] = n * v /\ id[n] = n /\ n \in Nat
    BY DEF NatOn
  <1>3. \A T \in SUBSET ns : ch[T] = pick(T)
    OBVIOUS
  <1>4. Product(ns) = prod[ns]
    BY DEF Product, FoldFunction, FoldFunctionOnSet, MapThenFoldSet
  <1> HIDE DEF st, ch, id
  <1>5. \A n \in ns : \A v \in Nat : st[<<n, v>>] \in Nat
    <2> TAKE n \in ns
    <2> TAKE v \in Nat
    <2>1. n \in Nat /\ st[<<n, v>>] = n * v
      BY <1>2
    <2> QED BY <2>1
  <1>6. PICK g \in [SUBSET ns -> Nat] : IsFold(ns, 1, st, ch, g)
    <2>1. 1 \in Nat
      OBVIOUS
    <2> QED BY <1>1, <1>5, <2>1, FoldExists
  <1>7. ASSUME NEW T \in SUBSET ns
        PROVE  g[T] = IF T = {} THEN 1 ELSE id[pick(T)] * g[T \ {pick(T)}]
    <2>1. g[T] = IF T = {} THEN 1 ELSE st[<<ch[T], g[T \ {ch[T]}]>>]
      BY <1>6, FoldAt
    <2>2. T # {} => ch[T] = pick(T) /\ ch[T] \in ns /\ g[T \ {ch[T]}] \in Nat
      BY <1>1, <1>3
    <2>3. CASE T = {}
      BY <2>1, <2>3
    <2>4. CASE T # {}
      <3> DEFINE x == pick(T)
                 v == g[T \ {x}]
      <3>1. x \in ns /\ v \in Nat /\ g[T] = st[<<x, v>>]
        BY <2>1, <2>2, <2>4
      <3> HIDE DEF x, v
      <3>2. g[T] = id[x] * v
        BY <1>2, <3>1
      <3> QED BY <2>4, <3>2 DEF x, v
    <2> QED BY <2>3, <2>4
  <1>8. Q(g)
    BY <1>7
  <1> HIDE DEF Q
  <1>9. Q(prod)
    BY <1>8, Zenon
  <1> HIDE DEF prod
  <1>10. \A T \in SUBSET ns : prod[T] = IF T = {} THEN 1 ELSE id[pick(T)] * prod[T \ {pick(T)}]
    <2> TAKE T \in SUBSET ns
    <2> DEFINE G(s) == IF s = {} THEN 1 ELSE id[pick(s)] * prod[s \ {pick(s)}]
    <2>1. prod = [s \in SUBSET ns |-> G(s)]
      BY <1>9 DEF Q
    <2> HIDE DEF G
    <2>2. prod[T] = G(T)
      BY <2>1
    <2> QED BY <2>2 DEF G
  <1> DEFINE Divided(T) == prod[T] \in Nat /\ \A n \in T : \E k \in Nat : prod[T] = n * k
             F == {T \in SUBSET ns : ~Divided(T)}
  <1>11. ASSUME NEW T \in F, \A U \in F : U \subseteq T => U = T PROVE FALSE
    <2>0. prod[{}] = 1
      <3>1. {} \in SUBSET ns
        OBVIOUS
      <3> QED BY <1>10, <3>1
    <2>1. T # {}
      <3>1. Divided({})
        BY <2>0
      <3>2. ~Divided(T)
        OBVIOUS
      <3> HIDE DEF Divided
      <3> QED BY <3>1, <3>2
    <2> DEFINE x == pick(T)
               r == prod[T \ {x}]
    <2>2. x \in T
      BY <2>1
    <2>3. T \ {x} \notin F /\ T \ {x} \in SUBSET ns
      BY <1>11, <2>2
    <2>4. Divided(T \ {x})
      BY <2>3
    <2>5. prod[T] = x * r /\ x \in Nat
      BY <1>2, <1>10, <2>1, <2>2
    <2>6. r \in Nat /\ \A n \in T \ {x} : \E k \in Nat : r = n * k
      BY <2>4
    <2> HIDE DEF x, r
    <2>7. prod[T] \in Nat
      BY <2>5, <2>6
    <2>8. ASSUME NEW n \in T PROVE \E k \in Nat : prod[T] = n * k
      <3>1. CASE n = x
        BY <2>5, <2>6, <3>1
      <3>2. CASE n # x
        <4>1. PICK k \in Nat : r = n * k
          BY <2>6, <3>2
        <4>2. n \in Nat
          BY <1>2
        <4>3. x * (n * k) = n * (x * k) /\ x * k \in Nat
          BY <2>5, <4>2
        <4> QED BY <2>5, <4>1, <4>3
      <3> QED BY <3>1, <3>2
    <2> QED BY <1>11, <2>7, <2>8
  <1>12. F = {}
    <2>1. F \in SUBSET SUBSET ns
      OBVIOUS
    <2>2. \A T \in F : ~ \A U \in F : U \subseteq T => U = T
      BY <1>11
    <2> HIDE DEF F
    <2> QED BY <2>1, <2>2, SmallestOf
  <1>13. Divided(ns)
    BY <1>12
  <1> QED BY <1>4, <1>13

\* One group of average_precision(): the step of AveragePrecision.
GroupStep(rs, acc, group) ==
    LET seen == acc.seen + Weights(rs, group)
        gain == Weights(rs, group \cap Improved(rs))
    IN  IF seen = 0 THEN acc
        ELSE [seen |-> seen, hits |-> acc.hits + gain,
              num |-> acc.num * seen + gain * (acc.hits + gain) * acc.den,
              den |-> acc.den * seen]

\* Its accumulator at first, and ever after.
NoAverage == [seen |-> 0, hits |-> 0, num |-> 0, den |-> 1]
Averages == [seen : Nat, hits : Nat, num : Nat, den : Nat]

\* The step keeps to such accumulators.
LEMMA GroupStepType ==
  ASSUME NEW rs, Rankable(rs), NEW acc \in Averages, NEW group \in SUBSET Scored(rs)
  PROVE  GroupStep(rs, acc, group) \in Averages
  <1> DEFINE seen == acc.seen + Weights(rs, group)
             gain == Weights(rs, group \cap Improved(rs))
  <1>1. /\ acc.seen \in Nat /\ acc.hits \in Nat /\ acc.num \in Nat /\ acc.den \in Nat
        /\ Weights(rs, group) \in Nat
        /\ gain \in Nat
    <2>1. group \cap Improved(rs) \in SUBSET Scored(rs)
      OBVIOUS
    <2> QED BY <2>1, WeightsFacts DEF Averages
  <1> HIDE DEF gain
  <1>2. seen \in Nat /\ acc.hits + gain \in Nat
    BY <1>1
  <1> HIDE DEF seen
  <1>3. acc.num * seen \in Nat /\ acc.den * seen \in Nat /\ gain * (acc.hits + gain) \in Nat
    BY <1>1, <1>2
  <1>4. gain * (acc.hits + gain) * acc.den \in Nat
    <2> DEFINE e == gain * (acc.hits + gain)
    <2>1. e \in Nat
      BY <1>3
    <2> HIDE DEF e
    <2>2. e * acc.den \in Nat
      BY <1>1, <2>1
    <2> QED BY <2>2 DEF e
  <1>5. acc.num * seen + gain * (acc.hits + gain) * acc.den \in Nat
    <2> DEFINE a == acc.num * seen
               b == gain * (acc.hits + gain) * acc.den
    <2>1. a \in Nat /\ b \in Nat
      BY <1>3, <1>4
    <2> HIDE DEF a, b
    <2>2. a + b \in Nat
      BY <2>1
    <2> QED BY <2>2 DEF a, b
  <1>6. [seen |-> seen, hits |-> acc.hits + gain,
         num |-> acc.num * seen + gain * (acc.hits + gain) * acc.den,
         den |-> acc.den * seen] \in Averages
    BY <1>2, <1>3, <1>5 DEF Averages
  <1> QED BY <1>6 DEF GroupStep, seen, gain

\* The accumulators of AveragePrecision, one for each group.
IsAveraging(rs, seq, N, a) ==
    /\ a[0] = NoAverage
    /\ \A k \in 1 .. N : a[k] = GroupStep(rs, a[k - 1], seq[k])
    /\ AveragePrecision(rs) = a[N]

\* AveragePrecision goes through them, group by group.
LEMMA AverageIsFolded ==
  ASSUME NEW rs, Rankable(rs), NEW N \in Nat, NEW seq \in [1 .. N -> SUBSET Scored(rs)],
         Groups(rs) = seq
  PROVE  \E a : IsAveraging(rs, seq, N, a)
  <1> DEFINE D == 1 .. N
             V == Averages
             Q(g) == g = [s \in SUBSET D |->
                            IF s = {} THEN NoAverage
                            ELSE LET x == Max(s) IN GroupStep(rs, g[s \ {x}], seq[x])]
             fold == CHOOSE g : Q(g)
             st == [kv \in D \X V |-> GroupStep(rs, kv[2], seq[kv[1]])]
  <1>1. AveragePrecision(rs) = fold[D]
    <2>1. DOMAIN seq = D
      OBVIOUS
    <2> QED BY <2>1 DEF AveragePrecision, FoldLeft, MapThenFoldSet, GroupStep, NoAverage
  <1>2. \A k \in D : \A v \in V : st[<<k, v>>] = GroupStep(rs, v, seq[k])
    OBVIOUS
  <1>3. \A k \in D : \A v \in V : GroupStep(rs, v, seq[k]) \in V
    BY GroupStepType
  <1>4. NoAverage \in V
    BY DEF NoAverage, Averages
  <1>5. PICK g : /\ g \in [SUBSET D -> V]
                 /\ g[{}] = NoAverage
                 /\ \A T \in SUBSET D : T # {} => g[T] = st[<<Max(T), g[T \ {Max(T)}]>>]
    <2>1. StaysIn(N, V, st)
      <3> HIDE DEF st, V
      <3> QED BY <1>2, <1>3 DEF StaysIn
    <2> HIDE DEF st, V
    <2>2. \E g : IsLeftFold(N, V, NoAverage, st, g)
      BY <1>4, <2>1, FoldFromLeft
    <2> QED BY <2>2 DEF IsLeftFold
  <1>6. Q(g)
    <2> SUFFICES ASSUME NEW T \in SUBSET D, T # {}
                 PROVE  g[T] = GroupStep(rs, g[T \ {Max(T)}], seq[Max(T)])
      BY <1>5
    <2>1. Max(T) \in D /\ g[T \ {Max(T)}] \in V
      BY <1>5, TopIsThere
    <2> HIDE DEF st, V
    <2> QED BY <1>2, <1>5, <2>1
  <1> HIDE DEF Q
  <1>7. Q(fold)
    BY <1>6, Zenon
  <1> HIDE DEF fold
  <1>8. \A T \in SUBSET D : fold[T] = IF T = {} THEN NoAverage
                                      ELSE GroupStep(rs, fold[T \ {Max(T)}], seq[Max(T)])
    BY <1>7 DEF Q
  <1> DEFINE a == [k \in 0 .. N |-> fold[1 .. k]]
  <1>9. a[0] = NoAverage /\ a[N] = fold[D]
    <2>1. 1 .. 0 = {} /\ {} \in SUBSET D /\ 0 \in 0 .. N /\ N \in 0 .. N
      OBVIOUS
    <2> QED BY <1>8, <2>1
  <1>10. ASSUME NEW k \in 1 .. N PROVE a[k] = GroupStep(rs, a[k - 1], seq[k])
    <2>1. /\ 1 .. k \in SUBSET D /\ 1 .. k # {} /\ k \in Nat \ {0}
          /\ k \in 0 .. N /\ k - 1 \in 0 .. N
      BY UpTo
    <2>2. Max(1 .. k) = k /\ (1 .. k) \ {k} = 1 .. (k - 1)
      BY <2>1, TopOfInterval
    <2>3. fold[1 .. k] = GroupStep(rs, fold[(1 .. k) \ {Max(1 .. k)}], seq[Max(1 .. k)])
      <3> DEFINE T == 1 .. k
      <3> HIDE DEF T
      <3> QED BY <1>8, <2>1 DEF T
    <2>4. fold[1 .. k] = GroupStep(rs, fold[1 .. (k - 1)], seq[k])
      BY <2>2, <2>3
    <2>5. a[k] = fold[1 .. k] /\ a[k - 1] = fold[1 .. (k - 1)]
      BY <2>1
    <2> HIDE DEF a
    <2> QED BY <2>4, <2>5
  <1> HIDE DEF a
  <1>11. IsAveraging(rs, seq, N, a)
    BY <1>1, <1>9, <1>10 DEF IsAveraging
  <1> QED BY <1>11

\* What AveragePrecisionIsMean sums, over a common denominator D.
MeanTerm(rs, D) ==
    [p \in Improved(rs) |-> IF SeenAt(rs, p) = 0 THEN 0
                            ELSE Weight(rs, rs[p].stratum) * HitsAt(rs, p) * (D \div SeenAt(rs, p))]

\* D is divided by every sum that is seen, but 0.
IsDenominator(rs, D) ==
    D \in Nat /\ \A p \in Scored(rs) : SeenAt(rs, p) # 0 =>
                    /\ D \div SeenAt(rs, p) \in Nat
                    /\ SeenAt(rs, p) * (D \div SeenAt(rs, p)) = D

\* The parcels of the first k groups.
UpToGroup(rs, ranks, k) == {p \in Scored(rs) : \E i \in 1 .. k : rs[p].score = ranks[i]}

\* acc sums the parcels of the first k groups.
AverageAfter(rs, ranks, D, k, acc) ==
    /\ acc \in Averages
    /\ acc.seen = Weights(rs, UpToGroup(rs, ranks, k))
    /\ acc.hits = Weights(rs, UpToGroup(rs, ranks, k) \cap Improved(rs))
    /\ acc.num * D
          = acc.den * SumFunctionOnSet(MeanTerm(rs, D), UpToGroup(rs, ranks, k) \cap Improved(rs))

\* The step, on the figures alone.
LEMMA AverageStep ==
  ASSUME NEW num \in Nat, NEW den \in Nat, NEW seen \in Nat, NEW gain \in Nat, NEW hits \in Nat,
         NEW D \in Nat, NEW T \in Nat, NEW d \in Nat, seen * d = D, num * D = den * T
  PROVE  (num * seen + gain * hits * den) * D = (den * seen) * (T + hits * d * gain)
  <1> DEFINE e == gain * hits
             f == den * seen
             x == e * den
             h == hits * d
  <1>1. e \in Nat /\ f \in Nat /\ h \in Nat
    OBVIOUS
  <1>2. h * gain = e * d
    <2>1. (hits * d) * gain = (gain * hits) * d
      OBVIOUS
    <2> QED BY <2>1
  <1>3. (num * seen) * D = f * T
    <2>1. (num * seen) * D = seen * (num * D)
      OBVIOUS
    <2>2. seen * (den * T) = (den * seen) * T
      OBVIOUS
    <2> QED BY <2>1, <2>2
  <1>4. x * D = f * (e * d)
    <2> HIDE DEF e
    <2>1. (e * den) * (seen * d) = (den * seen) * (e * d)
      BY <1>1
    <2> QED BY <2>1
  <1> HIDE DEF e, f, h
  <1>5. x \in Nat /\ e * d \in Nat /\ num * seen \in Nat
    BY <1>1
  <1> DEFINE y == num * seen
             z == e * d
  <1>6. (y + x) * D = y * D + x * D /\ f * (T + z) = f * T + f * z
    <2> HIDE DEF x, y, z
    <2>1. x \in Nat /\ y \in Nat /\ z \in Nat
      BY <1>5 DEF y, z
    <2>2. (y + x) * D = y * D + x * D
      BY <2>1
    <2>3. f * (T + z) = f * T + f * z
      BY <1>1, <2>1
    <2> QED BY <2>2, <2>3
  <1>7. (y + x) * D = f * (T + z)
    BY <1>3, <1>4, <1>6
  <1> QED BY <1>2, <1>7 DEF e, f, h

\* Weighted sums of what is seen, what hits, and what is added to the mean, are numbers.
LEMMA MeanTermType ==
  ASSUME NEW rs, Rankable(rs), NEW D, IsDenominator(rs, D)
  PROVE  /\ \A p \in Scored(rs) : SeenAt(rs, p) \in Nat /\ HitsAt(rs, p) \in Nat
         /\ NatOn(Improved(rs), MeanTerm(rs, D))
         /\ IsFiniteSet(Improved(rs)) /\ Improved(rs) \subseteq Scored(rs)
  <1>1. Improved(rs) \subseteq Scored(rs) /\ IsFiniteSet(Improved(rs))
    BY RankableFacts, FS_Subset DEF Improved
  <1>2. ASSUME NEW p \in Scored(rs) PROVE SeenAt(rs, p) \in Nat /\ HitsAt(rs, p) \in Nat
    <2>1. /\ {q \in Scored(rs) : rs[q].score >= rs[p].score} \in SUBSET Scored(rs)
          /\ {q \in Improved(rs) : rs[q].score >= rs[p].score} \in SUBSET Scored(rs)
      BY <1>1
    <2> QED BY <2>1, WeightsFacts DEF SeenAt, HitsAt
  <1>3. ASSUME NEW p \in Improved(rs) PROVE MeanTerm(rs, D)[p] \in Nat
    <2> DEFINE w == Weight(rs, rs[p].stratum)
               h == HitsAt(rs, p)
               d == D \div SeenAt(rs, p)
    <2>1. MeanTerm(rs, D)[p] = IF SeenAt(rs, p) = 0 THEN 0 ELSE w * h * d
      BY DEF MeanTerm
    <2>2. p \in Scored(rs) /\ w \in Nat /\ h \in Nat
      BY <1>1, <1>2, RankableFacts
    <2>3. SeenAt(rs, p) # 0 => d \in Nat
      BY <2>2 DEF IsDenominator
    <2> HIDE DEF w, h, d
    <2>4. CASE SeenAt(rs, p) = 0
      BY <2>1, <2>4
    <2>5. CASE SeenAt(rs, p) # 0
      <3> DEFINE x == w * h
      <3>1. x \in Nat /\ d \in Nat
        BY <2>2, <2>3, <2>5
      <3> HIDE DEF x
      <3>2. x * d \in Nat
        BY <3>1
      <3> QED BY <2>1, <2>5, <3>2 DEF x
    <2> QED BY <2>4, <2>5
  <1> QED BY <1>1, <1>2, <1>3 DEF NatOn

\* A group is seen with those before it: the parcels at least as good as any of its own.
LEMMA GroupIsSeen ==
  ASSUME NEW rs, Rankable(rs), NEW ranks, IsOrdering(Marks(rs), MarkPairs(rs), ranks),
         NEW k \in Nat, k + 1 \in 1 .. Cardinality(Marks(rs)),
         NEW group, group = {p \in Scored(rs) : rs[p].score = ranks[k + 1]}
  PROVE  /\ group # {} /\ group \subseteq Scored(rs)
         /\ group \cap UpToGroup(rs, ranks, k) = {}
         /\ UpToGroup(rs, ranks, k + 1) = UpToGroup(rs, ranks, k) \cup group
         /\ UpToGroup(rs, ranks, k) \subseteq Scored(rs)
         /\ \A p \in group : {q \in Scored(rs) : rs[q].score >= rs[p].score}
                                = UpToGroup(rs, ranks, k + 1)
  <1> DEFINE N == Cardinality(Marks(rs))
  <1>1. /\ ranks \in [1 .. N -> Marks(rs)]
        /\ \A x \in Marks(rs) : \E n \in 1 .. N : ranks[n] = x
        /\ \A n, m \in 1 .. N : n < m => <<ranks[n], ranks[m]>> \in MarkPairs(rs) /\ ranks[n] # ranks[m]
    BY DEF IsOrdering
  <1>2. N \in Nat /\ Marks(rs) \subseteq Nat
    BY RankableFacts, FS_CardinalityType
  <1>3. \A n, m \in 1 .. N : n < m => ranks[n] > ranks[m]
    BY <1>1 DEF MarkPairs
  <1> HIDE DEF N
  <1>4. k + 1 \in 1 .. N /\ \A i \in 1 .. k : i \in 1 .. N /\ i < k + 1
    BY <1>2 DEF N
  <1>5. \A n \in 1 .. N : ranks[n] \in Nat
    BY <1>1, <1>2
  <1>6. group # {}
    <2>1. ranks[k + 1] \in Marks(rs)
      BY <1>1, <1>4
    <2> QED BY <2>1 DEF Marks
  <1>7. group \cap UpToGroup(rs, ranks, k) = {}
    <2>1. \A i \in 1 .. k : ranks[i] # ranks[k + 1]
      BY <1>1, <1>4
    <2> QED BY <2>1 DEF UpToGroup
  <1>8. UpToGroup(rs, ranks, k + 1) = UpToGroup(rs, ranks, k) \cup group
    <2>1. 1 .. k + 1 = (1 .. k) \cup {k + 1}
      OBVIOUS
    <2> QED BY <2>1 DEF UpToGroup
  <1>9. ASSUME NEW p \in group, NEW q \in Scored(rs)
        PROVE  rs[q].score >= rs[p].score <=> \E i \in 1 .. k + 1 : rs[q].score = ranks[i]
    <2>1. rs[q].score \in Marks(rs) /\ rs[p].score = ranks[k + 1]
      BY DEF Marks
    <2>2. PICK n \in 1 .. N : ranks[n] = rs[q].score
      BY <1>1, <2>1
    <2>3. CASE n \in 1 .. k + 1
      <3>1. n = k + 1 \/ n < k + 1
        BY <2>3
      <3>2. ranks[n] >= ranks[k + 1]
        BY <1>3, <1>4, <1>5, <3>1
      <3> QED BY <2>1, <2>2, <2>3, <3>2
    <2>4. CASE n \notin 1 .. k + 1
      <3>1. k + 1 < n
        BY <1>2, <2>4
      <3>2. ranks[k + 1] > ranks[n] /\ ranks[n] \in Nat /\ ranks[k + 1] \in Nat
        BY <1>3, <1>4, <1>5, <3>1
      <3>3. \A i \in 1 .. k + 1 : ranks[i] # ranks[n]
        <4> SUFFICES ASSUME NEW i \in 1 .. k + 1 PROVE ranks[i] # ranks[n]
          OBVIOUS
        <4>1. i \in 1 .. N /\ i < n
          BY <1>2, <1>4, <3>1
        <4> QED BY <1>1, <4>1
      <3>4. ~(ranks[n] >= ranks[k + 1])
        BY <3>2
      <3> QED BY <2>1, <2>2, <3>3, <3>4
    <2> QED BY <2>3, <2>4
  <1>10. ASSUME NEW p \in group
         PROVE  {q \in Scored(rs) : rs[q].score >= rs[p].score} = UpToGroup(rs, ranks, k + 1)
    BY <1>9 DEF UpToGroup
  <1> QED BY <1>6, <1>7, <1>8, <1>10 DEF UpToGroup

\* One more group: its positives add their precision to the mean, each by its weight.
LEMMA AverageGrows ==
  ASSUME NEW rs, Rankable(rs), NEW ranks, IsOrdering(Marks(rs), MarkPairs(rs), ranks),
         NEW D, IsDenominator(rs, D),
         NEW k \in Nat, k + 1 \in 1 .. Cardinality(Marks(rs)),
         NEW group, group = {p \in Scored(rs) : rs[p].score = ranks[k + 1]},
         NEW acc, AverageAfter(rs, ranks, D, k, acc)
  PROVE  AverageAfter(rs, ranks, D, k + 1, GroupStep(rs, acc, group))
  <1> DEFINE I == Improved(rs)
             A == UpToGroup(rs, ranks, k)
             B == UpToGroup(rs, ranks, k + 1)
             term == MeanTerm(rs, D)
             Sum(U) == SumFunctionOnSet(term, U)
             own == group \cap I
             seen == acc.seen + Weights(rs, group)
             gain == Weights(rs, own)
             hits == acc.hits + gain
             next == GroupStep(rs, acc, group)
  <1>1. /\ group # {} /\ group \subseteq Scored(rs) /\ group \cap A = {} /\ B = A \cup group
        /\ A \subseteq Scored(rs)
        /\ \A p \in group : {q \in Scored(rs) : rs[q].score >= rs[p].score} = B
    BY GroupIsSeen
  <1>2. /\ acc \in Averages /\ acc.seen = Weights(rs, A) /\ acc.hits = Weights(rs, A \cap I)
        /\ acc.num * D = acc.den * Sum(A \cap I)
        /\ acc.seen \in Nat /\ acc.hits \in Nat /\ acc.num \in Nat /\ acc.den \in Nat
    BY DEF AverageAfter, Averages
  <1>3. /\ \A p \in Scored(rs) : SeenAt(rs, p) \in Nat /\ HitsAt(rs, p) \in Nat
        /\ NatOn(I, term) /\ IsFiniteSet(I) /\ I \subseteq Scored(rs)
    BY MeanTermType
  <1>4. /\ own \subseteq I /\ A \cap I \subseteq I /\ own \cap (A \cap I) = {}
        /\ B \cap I = (A \cap I) \cup own
    BY <1>1
  <1>5. /\ Weights(rs, B) = seen /\ Weights(rs, B \cap I) = hits
        /\ seen \in Nat /\ gain \in Nat /\ hits \in Nat /\ gain <= seen
        /\ Weights(rs, group) \in Nat
    <2> HIDE DEF A, B, I, own
    <2>1. A \in SUBSET Scored(rs) /\ group \in SUBSET Scored(rs) /\ A \cap group = {}
      BY <1>1
    <2>2. A \cap I \in SUBSET Scored(rs) /\ own \in SUBSET Scored(rs) /\ (A \cap I) \cap own = {}
      BY <1>1, <1>3, <1>4
    <2>3. Weights(rs, A \cup group) = Weights(rs, A) + Weights(rs, group)
      BY <2>1, WeightsFacts
    <2>4. Weights(rs, (A \cap I) \cup own) = Weights(rs, A \cap I) + Weights(rs, own)
      BY <2>2, WeightsFacts
    <2>5. Weights(rs, group) \in Nat /\ Weights(rs, own) \in Nat
      BY <2>1, <2>2, WeightsFacts
    <2>6. Weights(rs, own) <= Weights(rs, group)
      <3> DEFINE other == group \ own
                 u == Weights(rs, own)
                 v == Weights(rs, other)
      <3>1. own \cup other = group /\ other \in SUBSET Scored(rs) /\ own \cap other = {}
        BY <2>1 DEF own
      <3> HIDE DEF other
      <3>2. Weights(rs, own \cup other) = u + v
        BY <2>2, <3>1, WeightsFacts
      <3>3. v \in Nat /\ u \in Nat
        BY <2>5, <3>1, WeightsFacts
      <3>4. Weights(rs, group) = u + v
        BY <3>1, <3>2
      <3> HIDE DEF u, v
      <3>5. u <= u + v
        BY <3>3
      <3> QED BY <3>4, <3>5 DEF u
    <2> QED BY <1>1, <1>2, <1>4, <2>3, <2>4, <2>5, <2>6
  <1>6. /\ Sum(B \cap I) = Sum(A \cap I) + Sum(own)
        /\ Sum(A \cap I) \in Nat /\ Sum(own) \in Nat
    <2> DEFINE X == A \cap I
    <2>1. X \in SUBSET I /\ own \in SUBSET I /\ X \cap own = {}
      BY <1>4
    <2> HIDE DEF X, own, I, term, B
    <2>2. SumFunctionOnSet(term, X \cup own) = SumFunctionOnSet(term, X) + SumFunctionOnSet(term, own)
      BY <1>3, <2>1, SumUnion
    <2>3. SumFunctionOnSet(term, X) \in Nat /\ SumFunctionOnSet(term, own) \in Nat
      BY <1>3, <2>1, SumFacts
    <2>4. B \cap I = X \cup own
      BY <1>4 DEF X
    <2> QED BY <2>2, <2>3, <2>4 DEF X
  <1>7. ASSUME NEW p \in group PROVE SeenAt(rs, p) = seen /\ HitsAt(rs, p) = hits
    <2>1. {q \in Scored(rs) : rs[q].score >= rs[p].score} = B
      BY <1>1
    <2>2. {q \in I : rs[q].score >= rs[p].score} = B \cap I
      BY <1>3, <2>1
    <2> HIDE DEF B
    <2> QED BY <1>5, <2>1, <2>2 DEF SeenAt, HitsAt
  <1>8. CASE seen = 0
    <2>1. next = acc
      BY <1>8 DEF GroupStep
    <2>2. acc.seen = seen /\ hits = acc.hits
      <3> HIDE DEF gain
      <3> QED BY <1>2, <1>5, <1>8
    <2>3. \A p \in own : term[p] = 0
      BY <1>7, <1>8 DEF MeanTerm
    <2>4. Sum(own) = 0
      <3>1. IsFiniteSet(own)
        BY <1>3, FS_Subset
      <3> HIDE DEF own, term
      <3>2. 0 \in Nat
        OBVIOUS
      <3>3. SumFunctionOnSet(term, own) = Cardinality(own) * 0
        BY <2>3, <3>1, <3>2, SumConstant
      <3>4. Cardinality(own) \in Nat
        BY <3>1, FS_CardinalityType
      <3> QED BY <3>3, <3>4
    <2> HIDE DEF next, seen, hits, Sum, B, I
    <2>5. Sum(B \cap I) = Sum(A \cap I)
      BY <1>6, <2>4
    <2>6. next.num * D = next.den * Sum(B \cap I)
      BY <1>2, <2>1, <2>5
    <2> QED BY <1>2, <1>5, <2>1, <2>2, <2>6 DEF AverageAfter, B, I, Sum, next
  <1>9. CASE seen # 0
    <2> DEFINE d == D \div seen
    <2>1. next = [seen |-> seen, hits |-> hits,
                  num |-> acc.num * seen + gain * hits * acc.den,
                  den |-> acc.den * seen]
      BY <1>9 DEF GroupStep
    <2>2. next \in Averages
      BY <1>1, <1>2, GroupStepType
    <2>3. d \in Nat /\ seen * d = D /\ D \in Nat
      <3>1. PICK p \in group : TRUE
        BY <1>1
      <3>2. SeenAt(rs, p) = seen /\ p \in Scored(rs)
        BY <1>1, <1>7
      <3> HIDE DEF seen
      <3> QED BY <1>9, <3>2 DEF IsDenominator
    <2> HIDE DEF d
    <2>4. Sum(own) = hits * d * gain
      <3> DEFINE w == WeightOf(rs)
                 c == hits * d
      <3>1. ASSUME NEW p \in own PROVE term[p] = c * w[p] /\ w[p] \in Nat
        <4>1. p \in I /\ p \in group /\ p \in Scored(rs)
          BY <1>1
        <4>2. term[p] = Weight(rs, rs[p].stratum) * hits * d
          BY <1>7, <1>9, <4>1 DEF MeanTerm, d
        <4>3. w[p] = Weight(rs, rs[p].stratum) /\ w[p] \in Nat
          BY <4>1, RankableFacts DEF WeightOf
        <4> HIDE DEF w, term, hits
        <4>4. w[p] * hits * d = (hits * d) * w[p]
          BY <1>5, <2>3, <4>3
        <4> QED BY <4>2, <4>3, <4>4
      <3>2. NatOn(own, w) /\ IsFiniteSet(own)
        <4>1. IsFiniteSet(own)
          BY <1>3, FS_Subset
        <4> QED BY <3>1, <4>1 DEF NatOn
      <3>3. c \in Nat
        <4> HIDE DEF hits
        <4> QED BY <1>5, <2>3
      <3>4. gain = SumFunctionOnSet(w, own)
        <4>1. own \in SUBSET Scored(rs)
          BY <1>1
        <4> QED BY <4>1, WeightsFacts
      <3>5. \A p \in own : term[p] = c * w[p]
        BY <3>1
      <3> HIDE DEF own, term, w, c, gain
      <3>6. SumFunctionOnSet(term, own) = c * SumFunctionOnSet(w, own)
        BY <3>2, <3>3, <3>5, SumScaled
      <3> QED BY <3>4, <3>6 DEF c
    <2> HIDE DEF next, seen, hits, Sum, gain, B, I, own
    <2>5. (acc.num * seen + gain * hits * acc.den) * D
             = (acc.den * seen) * (Sum(A \cap I) + hits * d * gain)
      <3> DEFINE T == Sum(A \cap I)
                 n == acc.num
                 e == acc.den
      <3>1. T \in Nat /\ n \in Nat /\ e \in Nat /\ n * D = e * T
        BY <1>2, <1>6
      <3> HIDE DEF T, n, e
      <3>2. seen \in Nat /\ gain \in Nat /\ hits \in Nat
        BY <1>5
      <3>3. (n * seen + gain * hits * e) * D = (e * seen) * (T + hits * d * gain)
        BY <2>3, <3>1, <3>2, AverageStep
      <3> QED BY <3>3 DEF T, n, e
    <2>6. Sum(B \cap I) = Sum(A \cap I) + hits * d * gain
      BY <1>6, <2>4
    <2>7. /\ next.seen = seen /\ next.hits = hits /\ next.den = acc.den * seen
          /\ next.num = acc.num * seen + gain * hits * acc.den
      BY <2>1
    <2>8. next.num * D = next.den * Sum(B \cap I)
      BY <2>5, <2>6, <2>7
    <2> QED BY <1>5, <2>2, <2>7, <2>8 DEF AverageAfter, B, I, Sum, next
  <1> QED BY <1>8, <1>9

\* average_precision(), for any scores and weights.
LEMMA AverageOfRankable ==
  ASSUME NEW rs, Rankable(rs)
  PROVE  AveragePrecisionIsMean(rs)
  <1> DEFINE S == Scored(rs)
             I == Improved(rs)
             N == Cardinality(Marks(rs))
             ranks == InOrder(Marks(rs), Above)
             groups == Groups(rs)
             ns == {SeenAt(rs, p) : p \in S} \ {0}
             D == Product(ns)
             ap == AveragePrecision(rs)
  <1>1. IsFiniteSet(S) /\ IsFiniteSet(Marks(rs)) /\ N \in Nat
    BY RankableFacts, FS_CardinalityType
  <1>2. ASSUME NEW p \in S PROVE SeenAt(rs, p) \in Nat
    <2>1. {q \in Scored(rs) : rs[q].score >= rs[p].score} \in SUBSET Scored(rs)
      OBVIOUS
    <2> QED BY <2>1, WeightsFacts DEF SeenAt
  <1>3. IsFiniteSet(ns) /\ \A n \in ns : n \in Nat /\ n # 0
    <2> DEFINE f == [p \in S |-> SeenAt(rs, p)]
    <2>1. f \in Surjection(S, {SeenAt(rs, p) : p \in S})
      BY DEF Surjection
    <2> HIDE DEF f
    <2>2. IsFiniteSet({SeenAt(rs, p) : p \in S})
      BY <1>1, <2>1, FS_Surjection
    <2>3. IsFiniteSet(ns)
      BY <2>2, FS_Subset
    <2> QED BY <1>2, <2>3
  <1>4. IsDenominator(rs, D)
    <2>1. D \in Nat /\ \A n \in ns : \E k \in Nat : D = n * k
      <3>1. NatOn(ns, [n \in ns |-> n])
        BY <1>3 DEF NatOn
      <3> HIDE DEF ns
      <3> QED BY <1>3, <3>1, ProductIsDivided
    <2>2. ASSUME NEW n \in Nat \ {0}, NEW k \in Nat PROVE (n * k) \div n = k
      <3>1. n * k + 0 = k * n + 0 /\ 0 \in 0 .. n - 1
        OBVIOUS
      <3>2. (k * n + 0) \div n = k
        BY <3>1, DivideRest
      <3> QED BY <3>1, <3>2
    <2>3. ASSUME NEW p \in S, SeenAt(rs, p) # 0
          PROVE  D \div SeenAt(rs, p) \in Nat /\ SeenAt(rs, p) * (D \div SeenAt(rs, p)) = D
      <3> DEFINE n == SeenAt(rs, p)
      <3>1. n \in ns /\ n \in Nat \ {0}
        BY <1>2, <2>3
      <3>2. PICK k \in Nat : D = n * k
        BY <2>1, <3>1
      <3> HIDE DEF n, D
      <3>3. D \div n = k
        BY <2>2, <3>1, <3>2
      <3> QED BY <3>2, <3>3 DEF n
    <2> HIDE DEF D
    <2> QED BY <2>1, <2>3 DEF IsDenominator
  <1> HIDE DEF D, ns
  <1>5. IsOrdering(Marks(rs), MarkPairs(rs), ranks)
    BY MarksAreOrdered
  <1>6. DOMAIN ranks = 1 .. N
    BY DEF InOrder
  <1>7. groups = [i \in 1 .. N |-> {p \in S : rs[p].score = ranks[i]}]
    <2> QED BY DEF Groups, InOrder, Marks
  <1> HIDE DEF ranks, groups, N
  <1>8. groups \in [1 .. N -> SUBSET S] /\ \A i \in 1 .. N : groups[i] = {p \in S : rs[p].score = ranks[i]}
    BY <1>7
  <1>9. PICK a : IsAveraging(rs, groups, N, a)
    BY <1>1, <1>8, AverageIsFolded DEF groups
  <1>10. /\ a[0] = NoAverage
         /\ \A k \in 1 .. N : a[k] = GroupStep(rs, a[k - 1], groups[k])
         /\ ap = a[N]
    BY <1>9 DEF IsAveraging
  <1> DEFINE P == {k \in Nat : k <= N => AverageAfter(rs, ranks, D, k, a[k])}
  <1>11. 0 \in P
    <2>1. UpToGroup(rs, ranks, 0) = {}
      BY DEF UpToGroup
    <2>2. Weights(rs, {}) = 0 /\ {} \cap I = {}
      BY WeightsFacts
    <2>3. SumFunctionOnSet(MeanTerm(rs, D), {}) = 0
      BY <1>4, MeanTermType, SumFacts
    <2>4. D \in Nat
      BY <1>4 DEF IsDenominator
    <2>5. NoAverage \in Averages /\ NoAverage.seen = 0 /\ NoAverage.hits = 0
          /\ NoAverage.num * D = 0 /\ NoAverage.den * 0 = 0
      BY <2>4 DEF NoAverage, Averages
    <2>6. AverageAfter(rs, ranks, D, 0, NoAverage)
      BY <2>1, <2>2, <2>3, <2>5 DEF AverageAfter
    <2> QED BY <1>10, <2>6
  <1>12. ASSUME NEW k \in Nat, k \in P PROVE k + 1 \in P
    <2> SUFFICES ASSUME k + 1 <= N PROVE AverageAfter(rs, ranks, D, k + 1, a[k + 1])
      OBVIOUS
    <2>1. k <= N /\ k + 1 \in 1 .. N /\ (k + 1) - 1 = k
      BY <1>1
    <2>2. AverageAfter(rs, ranks, D, k, a[k])
      BY <1>12, <2>1
    <2>3. a[k + 1] = GroupStep(rs, a[k], groups[k + 1])
      BY <1>10, <2>1
    <2>4. groups[k + 1] = {p \in S : rs[p].score = ranks[k + 1]}
      BY <1>8, <2>1
    <2>5. AverageAfter(rs, ranks, D, k + 1, GroupStep(rs, a[k], groups[k + 1]))
      BY <1>4, <1>5, <2>1, <2>2, <2>4, AverageGrows DEF N
    <2> QED BY <2>3, <2>5
  <1>13. N \in P
    <2> HIDE DEF P
    <2> QED BY <1>1, <1>11, <1>12, CountingUp
  <1>14. AverageAfter(rs, ranks, D, N, ap)
    <2> HIDE DEF ap
    <2> QED BY <1>1, <1>10, <1>13
  <1>15. UpToGroup(rs, ranks, N) = S /\ I \subseteq S
    <2>1. \A x \in Marks(rs) : \E n \in 1 .. N : ranks[n] = x
      BY <1>5 DEF IsOrdering, N
    <2>2. I \subseteq S
      BY DEF Improved
    <2> QED BY <2>1, <2>2 DEF UpToGroup, Marks
  <1>16. ap.num * D = ap.den * SumFunctionOnSet(MeanTerm(rs, D), I)
    <2>1. S \cap I = I
      BY <1>15
    <2> HIDE DEF ap, S, I
    <2>2. ap.num * D = ap.den * SumFunctionOnSet(MeanTerm(rs, D), S \cap I)
      BY <1>14, <1>15 DEF AverageAfter, I
    <2> QED BY <2>1, <2>2
  <1> DEFINE num == SumFunctionOnSet(MeanTerm(rs, D), I)
  <1>17. num \in Nat /\ ap.den \in Nat
    <2>1. num \in Nat
      BY <1>4, MeanTermType, SumFacts
    <2> QED BY <1>14, <2>1 DEF AverageAfter, Averages
  <1>18. ap.num * D = num * ap.den
    <2> HIDE DEF num, ap
    <2> QED BY <1>16, <1>17 DEF num
  <1>19. SumFunction([p \in I |-> IF SeenAt(rs, p) = 0 THEN 0
                   ELSE Weight(rs, rs[p].stratum) * HitsAt(rs, p) * (D \div SeenAt(rs, p))]) = num
    <2>1. DOMAIN MeanTerm(rs, D) = I
      BY DEF MeanTerm
    <2>2. SumFunction(MeanTerm(rs, D)) = num
      BY <2>1 DEF SumFunction
    <2> QED BY <2>2 DEF MeanTerm
  <1> QED BY <1>18, <1>19 DEF AveragePrecisionIsMean, D, ns

\* The audit keeps parcels, and moves one to a stratum.
LEMMA CorrectedInvNext ==
  ASSUME DrawnInv, ScoreInv, StrataInv, CorrectedInv, EvalNext
  PROVE  CorrectedInv'
  <1> USE DEF evalSet, evalCache, scoring
  <1>1. CASE Audit
    <2>1. PICK p \in Drawn, t \in Strata \cup {"excluded"} : corrected' = ApplyAudit([q \in {p} |-> t])
      BY <1>1 DEF Audit
    <2>2. /\ DOMAIN results = Drawn /\ Drawn' = Drawn /\ IsFiniteSet(Drawn)
          /\ \A q \in Drawn : results[q] \in Result
          /\ \A s \in Strata : Count(results, s) <= Quota
      BY <1>1, LabelledSet DEF Audit, Drawn
    <2>3. \A q \in Drawn, u \in Strata : Restratified(results[q], u) \in Result
      BY <2>2 DEF Restratified, Result
    <2>4. \A q \in DOMAIN corrected' :
             /\ q \in Drawn
             /\ \/ corrected'[q] = results[q]
                \/ q = p /\ \E u \in Strata : corrected'[q] = Restratified(results[q], u)
      BY <2>1, <2>2 DEF ApplyAudit
    <2>5. \A q \in DOMAIN corrected' : corrected'[q] \in Result
      BY <2>2, <2>3, <2>4
    <2>6. ASSUME NEW s \in Strata PROVE Count(corrected', s) <= Quota + 1
      <3> DEFINE T == {q \in Scored(results) : results[q].stratum = s}
                 U == {q \in Scored(corrected') : corrected'[q].stratum = s}
      <3>1. U \subseteq T \cup {p}
        BY <2>2, <2>4 DEF Scored
      <3>2. IsFiniteSet(T) /\ Cardinality(T) <= Quota
        <4>1. T \subseteq Drawn
          BY <2>2 DEF Scored
        <4> QED BY <2>2, <4>1, FS_Subset DEF Count
      <3>3. Count(corrected', s) = Cardinality(U)
        BY DEF Count
      <3> HIDE DEF T, U
      <3>4. /\ IsFiniteSet(T \cup {p})
            /\ Cardinality(T \cup {p}) = IF p \in T THEN Cardinality(T) ELSE Cardinality(T) + 1
        BY <3>2, FS_AddElement
      <3>5. IsFiniteSet(U) /\ Cardinality(U) <= Cardinality(T \cup {p})
        BY <3>1, <3>4, FS_Subset
      <3>6. Cardinality(U) \in Nat /\ Cardinality(T) \in Nat /\ Quota \in Nat
        BY <3>2, <3>5, FS_CardinalityType, EvalSetAssumption
      <3> QED BY <3>2, <3>3, <3>4, <3>5, <3>6
    <2>7. \A s \in Strata : Count(corrected, s)' <= Quota + 1
      BY <2>6 DEF Count, Scored
    <2> QED BY <2>2, <2>4, <2>5, <2>7 DEF CorrectedInv
  <1>2. CASE score' # "audited"
    BY <1>2 DEF CorrectedInv
  <1>3. CASE UNCHANGED <<corrected, evalSet>> /\ score = "audited"
    <2>1. Drawn' = Drawn
      BY <1>3 DEF Drawn
    <2>2. \A s : Count(corrected, s)' = Count(corrected, s)
      BY <1>3 DEF Count, Scored
    <2> QED BY <1>3, <2>1, <2>2 DEF CorrectedInv
  <1> QED BY <1>1, <1>2, <1>3
      DEF EvalNext, ScoreStart, ScoreFails, ScoreParcel, ApplyLabels, ChipSheets, StrataInv

\* The labelled results can be ranked, and so can the audited ones.
LEMMA FiguresHold ==
  ASSUME DrawnInv, ScoreInv, StrataInv, CorrectedInv
  PROVE  RankingFigures
  <1>1. ASSUME score = "labelled" PROVE Rankable(results)
    BY <1>1, LabelledSet DEF Rankable
  <1>2. ASSUME score = "audited" PROVE Rankable(corrected)
    <2>1. IsFiniteSet(Drawn) /\ Drawn \subseteq Nat
      BY <1>2, LabelledSet
    <2>2. DOMAIN corrected \subseteq Drawn /\ \A p \in DOMAIN corrected : corrected[p] \in Result
      BY <1>2 DEF CorrectedInv
    <2>3. IsFiniteSet(DOMAIN corrected)
      BY <2>1, <2>2, FS_Subset
    <2> QED BY <2>1, <2>2, <2>3 DEF Rankable
  <1> QED BY <1>1, <1>2, AverageOfRankable, TopOfRankable DEF RankingFigures

--------------------------------------------------------------------------------

\* The inductive invariant of the three commands.
Evaluated ==
    /\ BuildInv /\ DrawnInv
    /\ FetchInv
    /\ ScoreInv /\ StrataInv /\ CorrectedInv
    /\ IndexNamesChips

LEMMA EvalInv == EvalSpec => []Evaluated
  <1>1. EvalInit => Evaluated
    <2> SUFFICES ASSUME EvalInit PROVE Evaluated OBVIOUS
    <2>1. BuildInv /\ FetchInv
      BY BuildInitInv, FetchInitInv DEF EvalInit
    <2>2. build = "idle" /\ score = "idle" /\ results = <<>>
      BY DEF EvalInit, BuildInit
    <2>3. ScoreInv
      BY <2>2 DEF ScoreInv, AuditKeepsOutcome
    <2>4. DrawnInv /\ StrataInv /\ CorrectedInv /\ IndexNamesChips
      BY <2>2 DEF DrawnInv, StrataInv, CorrectedInv, IndexNamesChips
    <2> QED BY <2>1, <2>3, <2>4 DEF Evaluated
  <1>2. Evaluated /\ [EvalNext]_evalVars => Evaluated'
    <2> SUFFICES ASSUME Evaluated, [EvalNext]_evalVars PROVE Evaluated' OBVIOUS
    <2>0. /\ BuildInv /\ DrawnInv /\ FetchInv /\ ScoreInv /\ StrataInv /\ CorrectedInv
          /\ IndexNamesChips
      BY DEF Evaluated
    <2> USE DEF evalSet, evalCache, scoring
    <2>1. UNCHANGED evalSet => BuildInv'
      <3>1. BuildInv
        BY <2>0
      <3> QED BY <3>1 DEF BuildInv, Paged, SetIsDrawnFromAll, Eligible
    <2>2. UNCHANGED evalCache => FetchInv'
      BY <2>0 DEF FetchInv, FetchType, ManifestFollows, PartialIsCut, VisitedIsThere
    <2>3. CASE EvalNext
      <3>1. BuildInv'
        BY <2>0, <2>1, <2>3, BuildInvNext
           DEF EvalNext, ScoreStart, ScoreFails, ScoreParcel, ApplyLabels, Audit, ChipSheets
      <3>2. FetchInv'
        BY <2>0, <2>2, <2>3, FetchInvNext
           DEF EvalNext, ScoreStart, ScoreFails, ScoreParcel, ApplyLabels, Audit, ChipSheets
      <3>3. ScoreInv'
        BY <2>0, <2>3, ScoreInvNext
      <3>4. DrawnInv'
        BY <2>0, <2>3, DrawnInvNext
      <3>5. StrataInv'
        BY <2>0, <2>3, StrataInvNext
      <3>6. IndexNamesChips'
        BY <2>0, <2>3, IndexInvNext
      <3>7. CorrectedInv'
        BY <2>0, <2>3, CorrectedInvNext
      <3> QED BY <3>1, <3>2, <3>3, <3>4, <3>5, <3>6, <3>7 DEF Evaluated
    <2>4. CASE UNCHANGED evalVars
      <3>1. ScoreInv'
        BY <2>0, <2>4 DEF evalVars, ScoreInv, AuditKeepsOutcome, Drawn, Scored, Improved
      <3>2. DrawnInv' /\ IndexNamesChips'
        BY <2>0, <2>4 DEF evalVars, DrawnInv, IndexNamesChips, chipping
      <3>3. StrataInv'
        BY <2>0, <2>4 DEF evalVars, StrataInv, Drawn, StratumOf
      <3>4. CorrectedInv'
        BY <2>0, <2>4 DEF evalVars, CorrectedInv, Drawn, Count, Scored
      <3> QED BY <2>1, <2>2, <2>4, <3>1, <3>2, <3>3, <3>4 DEF evalVars, Evaluated
    <2> QED BY <2>3, <2>4
  <1> QED BY <1>1, <1>2, PTL DEF EvalSpec

--------------------------------------------------------------------------------
(* The theorems.                                                           *)

\* A set that was written was drawn from every parcel of the area, each fetched once,
\* whatever the size of a page and the number of parcels; when the service answered a page
\* short, from the parcels before the gap and no others (sources.py:77-101).
THEOREM SetDrawnFromAll == EvalSpec => []SetIsDrawnFromAll
  <1>1. Evaluated => SetIsDrawnFromAll
    BY DEF Evaluated, BuildInv
  <1> QED BY <1>1, EvalInv, PTL

\* A fetch that has visited every item leaves whole files and a manifest that names them,
\* wherever the fetches before it were cut (cli.py:163-171).
THEOREM FetchLeavesWhole == EvalSpec => []FetchedIsWhole
  <1>1. Evaluated => FetchedIsWhole
    BY FetchInvGives DEF Evaluated
  <1> QED BY <1>1, EvalInv, PTL

\* A parcel that an audit keeps has the outcome its label gave it (metrics.py:272-278).
THEOREM AuditKeeps == EvalSpec => []AuditKeepsOutcome
  <1>1. Evaluated => AuditKeepsOutcome
    BY DEF Evaluated, ScoreInv
  <1> QED BY <1>1, EvalInv, PTL

\* The weights carry any sample to its county, however many parcels were drawn, skipped and
\* labelled: the total is the county's, before an audit and after it, and with every parcel
\* scored and labelled the summary agrees with the base rate of the labels
\* (metrics.py:142-153 and 272-278, dataset.py:222-242).
THEOREM SampleCarriesCounty == EvalSpec => []WeightsCarryCounty
  <1>1. Evaluated => WeightsCarryCounty
    BY LabelsGiveCounty, AuditGivesCounty DEF Evaluated, WeightsCarryCounty
  <1> QED BY <1>1, EvalInv, PTL

\* Every parcel with imagery is named once in the index, each entry names the cell that shows
\* its chip, and every chip is named, whatever the size of a sheet and the number of chips
\* (cli.py:694-723, chips.py:152-169).
THEOREM IndexNamesEveryChip == EvalSpec => []IndexNamesChips
  <1>1. Evaluated => IndexNamesChips
    BY DEF Evaluated
  <1> QED BY <1>1, EvalInv, PTL

\* The average precision is the mean of the precisions at which the positives are retrieved,
\* and the top of the ranking is the longest part of it that fits in the budget, whatever the
\* scores, the weights, the ties and the fraction, before the audit and after it
\* (metrics.py:187-242).
THEOREM FiguresAreRight == EvalSpec => []RankingFigures
  <1>1. Evaluated => RankingFigures
    BY FiguresHold DEF Evaluated
  <1> QED BY <1>1, EvalInv, PTL
================================================================================
