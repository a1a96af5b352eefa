----------------------------- MODULE StoreProofs -----------------------------
(***************************************************************************)
(* Proofs about the store.                                                 *)
(*                                                                         *)
(* The rows of the measurements (RunStore) belong to each other, whatever  *)
(* sessions, an abort, a failing write and a removal do at once, for any   *)
(* sets of sessions and profiles: StoreInv says whose row each session     *)
(* holds, and what it has written of it.                                   *)
(*                                                                         *)
(* The store that they are in survives its migrations (StoreSchema), for   *)
(* any number of programs that open it and of kills: SchemaInv says how    *)
(* far each script has got, whose a copied table is and what is in it, and *)
(* that the first migration, as long as nobody came into it, leaves the    *)
(* store as it was after some statement of it.                             *)
(***************************************************************************)
EXTENDS StoreSchema, MCStore, MeasureProofs, FiniteSetTheorems, TLAPS

-----------------------------------------------------------------------------
(* The rows of measurements *)

OnItsRow == {"cycle", "samples", "result", "finish"}
Work == [at : {"rest", "model"} \cup OnItsRow, who : 0..MaxStarts, profile : Profile \cup {NoRow},
         model : 0..MaxStarts, run : 0..MaxStarts, ok : BOOLEAN, measured : BOOLEAN, left : 0..Samples]
Export == [at : {"rest", "run", "results"}, run : 0..MaxStarts,
           status : {"running", "completed", "failed"}, results : BOOLEAN, hit : BOOLEAN]

RowTypes ==
  /\ models \in [Id -> Profile \cup {NoRow}]
  /\ runs \in [Id -> RunRow \cup {NoRow}]
  /\ results \in [Id -> Who \cup {NoRow}]
  /\ samples \in [Id -> SUBSET (Who \X (1..Samples))]
  /\ writer \in [Session -> Work]
  /\ remover.at \in {"rest", "announced"} /\ remover.kind \in {"run", "model"} /\ remover.id \in 0..MaxStarts
  /\ exporter \in Export
  /\ starts \in 0..MaxStarts /\ cut \in SUBSET Who /\ robbed \in BOOLEAN

\* A profile has one row in models, and the rows are numbered from one.
ModelsAreOnce ==
  /\ \A i, j \in Used(models) : models[i] = models[j] => i = j
  /\ \A i \in Used(models) : i <= starts

\* A session that is at work is one of those that were started, with a model's id and,
\* from insert_run on, a run's.
WritersAreKnown ==
  \A s \in Session : writer[s].at # "rest" =>
    /\ writer[s].who \in 1..starts /\ writer[s].profile \in Profile /\ writer[s].model \in Id
    /\ writer[s].at = "model" <=> writer[s].run = 0
    /\ writer[s].at = "model" => ~writer[s].ok

\* Who a session is, is said of one place and of one row.
WhoIsOnce ==
  /\ \A s, t \in Session : writer[s].at # "rest" /\ writer[t].at # "rest" /\ writer[s].who = writer[t].who => s = t
  /\ \A q, r \in Used(runs) : runs[q].who = runs[r].who => q = r
  /\ \A r \in Used(runs) : runs[r].who <= starts
  /\ \A s \in Session, r \in Used(runs) : writer[s].at = "model" => writer[s].who # runs[r].who

\* Every session inserts one run, so that there is an id for those to come.
Entering == {w \in 1..MaxStarts : \E s \in Session : writer[s].at = "model" /\ writer[s].who = w}
RunsAreFew == \A r \in Used(runs) : r + Cardinality(Entering) <= starts

\* A session works on its own row, as far as it has come.
WriterOwns ==
  ~robbed => \A s \in Session :
    /\ writer[s].at # "rest" => models[writer[s].model] = writer[s].profile
    /\ writer[s].at \in OnItsRow => runs[writer[s].run] = Row(s)
RowIsWritten ==
  ~robbed => \A s \in Session : writer[s].at \in OnItsRow =>
    /\ samples[writer[s].run] =
         IF writer[s].at = "cycle" THEN {} ELSE {writer[s].who} \X (writer[s].left + 1 .. Samples)
    /\ writer[s].at \in {"result", "finish"} => writer[s].left = 0
    /\ writer[s].at # "finish" => results[writer[s].run] = NoRow
    /\ writer[s].at = "finish" /\ writer[s].ok => results[writer[s].run] # NoRow
    /\ writer[s].ok => writer[s].measured

\* The announced run is there and over.
RemovalIsKnown ==
  remover.at = "announced" =>
    /\ remover.ended => remover.kind = "run"
    /\ ~robbed /\ remover.ended =>
         /\ remover.id \in Used(runs) /\ runs[remover.id].status # "running"
         /\ Summary({remover.id}) = remover.seen

\* The exported run is there, as it was when the export began, or was deleted meanwhile.
ExportIsKnown ==
  exporter.at # "rest" =>
    /\ exporter.run \in Id
    /\ ~robbed /\ exporter.status = "completed" /\ ~exporter.hit
         => exporter.run \in Used(runs) /\ runs[exporter.run].status = "completed"

StoreInv ==
  /\ RowTypes /\ ModelsAreOnce /\ WritersAreKnown /\ WhoIsOnce /\ RunsAreFew
  /\ NoOrphans /\ WriterOwns /\ RowIsWritten /\ RowsAreOwn /\ ModelIsOwn /\ CompletedIsMeasured
  /\ RemovalIsKnown /\ ExportIsKnown /\ ExportIsWhole /\ RunningIsAtWork

\* There is a largest of some numbers up to n.
LEMMA LargestExists ==
  ASSUME NEW n \in Nat, NEW S \in SUBSET (1..n), S # {}
  PROVE  Max(S) \in S /\ \A i \in S : i <= Max(S)
<1> DEFINE Above == {i \in 0..n : \A j \in S : j <= i}
<1>1. n \in Above
  OBVIOUS
<1>2. PICK x \in Above : \A y \in Above : ~(y < x)
  <2>1. Above \subseteq Nat /\ Above # {}
    BY <1>1
  <2> HIDE DEF Above
  <2>2. PICK x \in Above : \A y \in Above : ~ (<<y, x>> \in OpToRel(<, Nat))
    BY <2>1, NatLessThanWellFounded, WFMin
  <2>3. \A y \in Above : y < x => <<y, x>> \in OpToRel(<, Nat)
    BY <2>1 DEF OpToRel
  <2> QED
    BY <2>2, <2>3
<1>3. x \in S
  <2>1. PICK j \in S : TRUE
    OBVIOUS
  <2>2. x > 0 /\ x \in Nat
    BY <2>1
  <2>3. x - 1 \notin Above
    BY <1>2, <2>2
  <2>4. PICK k \in S : ~(k <= x - 1)
    BY <2>2, <2>3
  <2>5. k <= x /\ k \in Nat
    OBVIOUS
  <2>6. k = x
    BY <2>2, <2>4, <2>5
  <2> QED
    BY <2>6
<1>4. \A i \in S : x >= i
  OBVIOUS
<1>5. \E m \in S : \A i \in S : m >= i
  BY <1>3, <1>4
<1>6. Max(S) \in S /\ \A i \in S : Max(S) >= i
  <2> HIDE DEF Above
  <2> QED
    BY <1>5 DEF Max
<1> QED
  BY <1>6

\* The rowid that comes next is free and one more than one that was used, at most.
LEMMA NextIdIsFree ==
  ASSUME NEW table, NEW n \in Nat, n < MaxStarts, \A i \in Used(table) : i <= n
  PROVE  NextId(table) \in Id /\ NextId(table) \notin Used(table) /\ NextId(table) <= n + 1
<1>1. Used(table) \in SUBSET (1..MaxStarts) /\ MaxStarts \in Nat
  BY StoreAssumption DEF Used, Id
<1>2. CASE Used(table) = {}
  BY <1>1, <1>2 DEF NextId, Id
<1>3. CASE Used(table) # {}
  <2> DEFINE m == Max(Used(table))
  <2>1. m \in Used(table) /\ \A i \in Used(table) : i <= m
    BY <1>1, <1>3, LargestExists
  <2>2. m \in 1..MaxStarts /\ m <= n
    BY <1>1, <2>1
  <2>3. NextId(table) = m + 1
    BY <1>3 DEF NextId
  <2> HIDE DEF m
  <2>4. m + 1 \notin Used(table)
    BY <2>1, <2>2
  <2> QED
    BY <1>1, <2>2, <2>3, <2>4 DEF Id
<1> QED
  BY <1>2, <1>3

LEMMA NoRowIsNone ==
  /\ NoRow \notin Profile /\ NoRow \notin RunRow /\ NoRow \notin Who
  /\ MaxStarts \in Nat /\ Samples \in Nat /\ Id = 1..MaxStarts /\ Who = 1..MaxStarts
BY StoreAssumption DEF Id, Who

LEMMA UsedIs == ASSUME NEW table, NEW i PROVE i \in Used(table) <=> i \in Id /\ table[i] # NoRow
BY DEF Used

LEMMA EnteringIsFinite ==
  /\ IsFiniteSet(Entering) /\ Cardinality(Entering) \in Nat
  /\ IsFiniteSet(Entering') /\ Cardinality(Entering') \in Nat
<1>1. IsFiniteSet(1..MaxStarts)
  BY FS_Interval, NoRowIsNone
<1>2. Entering \in SUBSET (1..MaxStarts) /\ Entering' \in SUBSET (1..MaxStarts)
  BY DEF Entering
<1>3. IsFiniteSet(Entering) /\ IsFiniteSet(Entering')
  BY <1>1, <1>2, FS_Subset
<1> QED
  BY <1>3, FS_CardinalityType

\* Fewer wait when one of them goes on, is cut short or is not counted.
LEMMA FewerWait ==
  ASSUME RunsAreFew, RowTypes, Entering' \subseteq Entering, runs' = runs, starts' = starts
  PROVE  RunsAreFew'
<1>1. Cardinality(Entering') <= Cardinality(Entering)
  BY EnteringIsFinite, FS_Subset
<1>2. Used(runs)' = Used(runs)
  BY DEF Used
<1>3. \A r \in Used(runs) : r + Cardinality(Entering) <= starts /\ r \in Nat
  BY NoRowIsNone DEF RunsAreFew, Used
<1>4. starts \in Nat
  BY NoRowIsNone DEF RowTypes
<1> QED
  BY <1>1, <1>2, <1>3, <1>4, EnteringIsFinite DEF RunsAreFew

\* What is announced of a run stays true as long as its samples and its result stay.
LEMMA SummaryStays ==
  ASSUME NEW r, samples'[r] = samples[r], results'[r] = results[r]
  PROVE  Summary({r})' = Summary({r})
<1>1. {samples'[q] \X {q} : q \in {r}} = {samples[q] \X {q} : q \in {r}}
  OBVIOUS
<1>2. {r} \cap Used(results') = {r} \cap Used(results)
  BY DEF Used
<1> QED
  BY <1>1, <1>2 DEF Summary, Used

\* Steps that leave the tables alone.
LEMMA TablesStay ==
  ASSUME StoreInv, UNCHANGED <<models, runs, results, samples, starts, robbed>>
  PROVE  ModelsAreOnce' /\ NoOrphans' /\ RowsAreOwn' /\ ModelIsOwn' /\ CompletedIsMeasured'
BY DEF StoreInv, ModelsAreOnce, NoOrphans, RowsAreOwn, ModelIsOwn, CompletedIsMeasured, Used, ListRuns

LEMMA WritersStay ==
  ASSUME StoreInv, UNCHANGED <<models, runs, results, samples, starts, robbed, writer, cut>>
  PROVE  /\ WritersAreKnown' /\ WhoIsOnce' /\ RunsAreFew' /\ WriterOwns' /\ RowIsWritten' /\ RunningIsAtWork'
<1>1. WritersAreKnown' /\ WhoIsOnce'
  BY DEF StoreInv, WritersAreKnown, WhoIsOnce, Used
<1>2. WriterOwns' /\ RowIsWritten' /\ RunningIsAtWork'
  BY DEF StoreInv, WriterOwns, RowIsWritten, RunningIsAtWork, Used, Row
<1>3. RunsAreFew'
  BY FewerWait DEF StoreInv, Entering
<1> QED
  BY <1>1, <1>2, <1>3

LEMMA RemovalStays ==
  ASSUME StoreInv, UNCHANGED <<runs, results, samples, robbed, remover>>
  PROVE  RemovalIsKnown'
<1>1. Summary({remover.id})' = Summary({remover.id})
  BY DEF Summary, Used
<1>2. Used(runs)' = Used(runs)
  BY DEF Used
<1> QED
  BY <1>1, <1>2 DEF StoreInv, RemovalIsKnown

LEMMA ExportStays ==
  ASSUME StoreInv, UNCHANGED <<runs, robbed, exporter>>
  PROVE  ExportIsKnown' /\ ExportIsWhole'
BY DEF StoreInv, ExportIsKnown, ExportIsWhole, Used

\* A session that goes from one statement to the next, or is cut short.
LEMMA WriterMoves ==
  ASSUME StoreInv, NEW s \in Session, NEW w \in Work, writer[s].at # "rest",
         writer' = [writer EXCEPT ![s] = w],
         UNCHANGED <<models, runs, results, samples, remover, exporter, starts, robbed>>,
         cut' \in SUBSET Who, cut \subseteq cut',
         \/ w.at = "rest" /\ writer[s].who \in cut'
         \/ /\ w.at \in OnItsRow /\ writer[s].at \in OnItsRow
            /\ w.who = writer[s].who /\ w.profile = writer[s].profile
            /\ w.model = writer[s].model /\ w.run = writer[s].run
            /\ ~robbed =>
                 /\ samples[w.run] = IF w.at = "cycle" THEN {} ELSE {w.who} \X (w.left + 1 .. Samples)
                 /\ w.at \in {"result", "finish"} => w.left = 0
                 /\ w.at # "finish" => results[w.run] = NoRow
                 /\ w.at = "finish" /\ w.ok => results[w.run] # NoRow
                 /\ w.ok => w.measured
  PROVE  StoreInv'
<1>1. writer \in [Session -> Work]
  BY DEF StoreInv, RowTypes
<1>2. writer' \in [Session -> Work] /\ writer'[s] = w /\ \A t \in Session : t # s => writer'[t] = writer[t]
  BY <1>1
<1>3. RowTypes'
  BY <1>2 DEF StoreInv, RowTypes
<1>4. WritersAreKnown'
  BY <1>2 DEF StoreInv, WritersAreKnown, OnItsRow
<1>5. WhoIsOnce'
  BY <1>2 DEF StoreInv, WhoIsOnce, Used, OnItsRow
<1>6. RunsAreFew'
  <2>1. Entering' \subseteq Entering
    BY <1>2 DEF Entering, OnItsRow
  <2> QED
    BY <2>1, FewerWait DEF StoreInv
<1>7. WriterOwns'
  BY <1>2 DEF StoreInv, WriterOwns, Row, OnItsRow
<1>8. RowIsWritten'
  BY <1>2 DEF StoreInv, RowIsWritten, OnItsRow
<1>9. RunningIsAtWork'
  <2> SUFFICES ASSUME ~robbed, NEW r \in Used(runs), runs[r].status = "running"
               PROVE  \/ runs[r].who \in cut'
                      \/ \E t \in Session : writer'[t].at # "rest" /\ writer'[t].who = runs[r].who
    BY DEF RunningIsAtWork, Used
  <2>1. CASE runs[r].who \in cut
    BY <2>1
  <2>2. ASSUME NEW t \in Session, writer[t].at # "rest", writer[t].who = runs[r].who
        PROVE  \/ runs[r].who \in cut'
               \/ \E u \in Session : writer'[u].at # "rest" /\ writer'[u].who = runs[r].who
    <3>1. CASE t = s
      BY <1>2, <2>2, <3>1 DEF OnItsRow
    <3>2. CASE t # s
      BY <1>2, <2>2, <3>2
    <3> QED
      BY <3>1, <3>2
  <2> QED
    BY <2>1, <2>2 DEF StoreInv, RunningIsAtWork
<1> QED
  BY <1>3, <1>4, <1>5, <1>6, <1>7, <1>8, <1>9, TablesStay, RemovalStays, ExportStays DEF StoreInv

LEMMA CycleEndsKeeps == ASSUME StoreInv, NEW s \in Session, CycleEnds(s) PROVE StoreInv'
<1> USE DEF CycleEnds
<1>1. writer \in [Session -> Work] /\ cut \in SUBSET Who /\ writer[s].at = "cycle"
  BY DEF StoreInv, RowTypes
<1>2. PICK ok \in BOOLEAN, measured \in BOOLEAN :
        /\ ok => measured
        /\ writer' = [writer EXCEPT ![s].at = "samples", ![s].ok = ok,
                                    ![s].measured = measured, ![s].left = Samples]
  OBVIOUS
<1> DEFINE w == [writer[s] EXCEPT !.at = "samples", !.ok = ok, !.measured = measured, !.left = Samples]
<1>3. writer' = [writer EXCEPT ![s] = w]
  BY <1>1, <1>2
<1>8. UNCHANGED <<models, runs, results, samples, remover, exporter, starts, cut, robbed>>
  OBVIOUS
<1> HIDE DEF CycleEnds
<1>4. /\ w \in Work /\ w.at = "samples" /\ w.left = Samples /\ w.ok = ok /\ w.measured = measured
      /\ w.who = writer[s].who /\ w.profile = writer[s].profile /\ w.model = writer[s].model /\ w.run = writer[s].run
  <2>1. writer[s] \in Work /\ "samples" \in OnItsRow /\ Samples \in 0..Samples
    BY <1>1, NoRowIsNone DEF OnItsRow
  <2> QED
    <3>1. w = [writer[s] EXCEPT !.at = "samples", !.ok = ok, !.measured = measured, !.left = Samples]
      OBVIOUS
    <3> HIDE DEF w
    <3>2. w \in Work
      BY <2>1, <3>1 DEF Work
    <3>3. w.at = "samples" /\ w.left = Samples
      BY <2>1, <3>1 DEF Work
    <3>4. w.ok = ok
      BY <2>1, <3>1 DEF Work
    <3>5. w.measured = measured
      BY <2>1, <3>1 DEF Work
    <3>6. w.who = writer[s].who /\ w.profile = writer[s].profile /\ w.model = writer[s].model /\ w.run = writer[s].run
      BY <2>1, <3>1 DEF Work
    <3> QED
      BY <3>2, <3>3, <3>4, <3>5, <3>6
<1>5. Samples + 1 .. Samples = {}
  BY NoRowIsNone
<1>6. ~robbed => samples[writer[s].run] = {} /\ results[writer[s].run] = NoRow
  BY <1>1 DEF StoreInv, RowIsWritten, OnItsRow
<1>7. {w.who} \X (w.left + 1 .. Samples) = {}
  BY <1>4, <1>5
<1> HIDE DEF w
<1>9. /\ w.at \in OnItsRow /\ writer[s].at \in OnItsRow
      /\ ~robbed =>
           /\ samples[w.run] = IF w.at = "cycle" THEN {} ELSE {w.who} \X (w.left + 1 .. Samples)
           /\ w.at \in {"result", "finish"} => w.left = 0
           /\ w.at # "finish" => results[w.run] = NoRow
           /\ w.at = "finish" /\ w.ok => results[w.run] # NoRow
           /\ w.ok => w.measured
  BY <1>1, <1>2, <1>4, <1>6, <1>7 DEF OnItsRow
<1> QED
  BY <1>1, <1>3, <1>4, <1>8, <1>9, WriterMoves

LEMMA SamplesDoneKeeps == ASSUME StoreInv, NEW s \in Session, SamplesDone(s) PROVE StoreInv'
<1> USE DEF SamplesDone
<1>1. writer \in [Session -> Work] /\ cut \in SUBSET Who /\ writer[s].at = "samples" /\ writer[s].left = 0
  BY DEF StoreInv, RowTypes
<1> DEFINE next == IF writer[s].measured THEN "result" ELSE "finish"
           w == [writer[s] EXCEPT !.at = next]
<1>2. writer' = [writer EXCEPT ![s] = w]
  BY <1>1
<1>3. writer[s].measured \in BOOLEAN
  BY <1>1 DEF Work
<1>4. next \in {"result", "finish"} /\ (next = "finish" => ~writer[s].measured)
  OBVIOUS
<1>7. UNCHANGED <<models, runs, results, samples, remover, exporter, starts, cut, robbed>>
  OBVIOUS
<1> HIDE DEF next, SamplesDone
<1>5. /\ w \in Work /\ w.at = next /\ w.left = writer[s].left /\ w.ok = writer[s].ok /\ w.measured = writer[s].measured
      /\ w.who = writer[s].who /\ w.profile = writer[s].profile /\ w.model = writer[s].model /\ w.run = writer[s].run
  BY <1>1, <1>4 DEF Work, OnItsRow
<1>6. ~robbed => /\ samples[writer[s].run] = {writer[s].who} \X (writer[s].left + 1 .. Samples)
                 /\ results[writer[s].run] = NoRow
                 /\ writer[s].ok => writer[s].measured
  BY <1>1 DEF StoreInv, RowIsWritten, OnItsRow
<1> HIDE DEF w
<1>8. w.at \in OnItsRow /\ writer[s].at \in OnItsRow
  BY <1>1, <1>4, <1>5 DEF OnItsRow
<1>9. ~robbed =>
        /\ samples[w.run] = IF w.at = "cycle" THEN {} ELSE {w.who} \X (w.left + 1 .. Samples)
        /\ w.at \in {"result", "finish"} => w.left = 0
        /\ w.at # "finish" => results[w.run] = NoRow
        /\ w.at = "finish" /\ w.ok => results[w.run] # NoRow
        /\ w.ok => w.measured
  <2> SUFFICES ASSUME ~robbed
               PROVE  /\ samples[w.run] = {w.who} \X (w.left + 1 .. Samples) /\ w.at # "cycle"
                      /\ w.left = 0 /\ results[w.run] = NoRow /\ ~(w.at = "finish" /\ w.ok) /\ (w.ok => w.measured)
    OBVIOUS
  <2>1. /\ samples[w.run] = {w.who} \X (w.left + 1 .. Samples) /\ w.at # "cycle"
        /\ w.left = 0 /\ results[w.run] = NoRow
    BY <1>1, <1>4, <1>5, <1>6
  <2>2. w.ok => w.measured
    BY <1>5, <1>6
  <2>3. w.at = "finish" => ~w.measured
    BY <1>4, <1>5
  <2> QED
    BY <2>1, <2>2, <2>3
<1> QED
  BY <1>1, <1>2, <1>5, <1>7, <1>8, <1>9, WriterMoves

LEMMA RestIsWork == Rest \in Work /\ Rest.at = "rest"
BY NoRowIsNone DEF Rest, Work

LEMMA CutShortKeeps == ASSUME StoreInv, NEW s \in Session, WriteFails(s) \/ Breaks(s) PROVE StoreInv'
<1>1. /\ writer[s].at # "rest" /\ cut' = cut \cup {writer[s].who}
      /\ writer' = [writer EXCEPT ![s] = Rest]
      /\ UNCHANGED <<models, runs, results, samples, remover, exporter, starts, robbed>>
  BY DEF WriteFails, Breaks
<1>2. cut' \in SUBSET Who
  <2>1. writer[s].who \in 1..starts /\ starts \in 0..MaxStarts /\ cut \in SUBSET Who
    BY <1>1 DEF StoreInv, RowTypes, WritersAreKnown
  <2>2. writer[s].who \in Who
    BY <2>1, NoRowIsNone
  <2> QED
    BY <1>1, <2>1, <2>2
<1> QED
  BY <1>1, <1>2, RestIsWork, WriterMoves

LEMMA ExportsRunKeeps == ASSUME StoreInv, NEW r \in Id, ExportsRun(r) PROVE StoreInv'
<1> USE DEF ExportsRun
<1>1. runs[r] \in RunRow /\ r \in 0..MaxStarts
  BY NoRowIsNone DEF StoreInv, RowTypes, Used
<1>2. exporter' = [at |-> "run", run |-> r, status |-> runs[r].status, results |-> FALSE, hit |-> FALSE]
  BY DEF NoExport
<1>3. exporter' \in Export
  <2>1. runs[r].status \in {"running", "completed", "failed"}
    BY <1>1 DEF RunRow
  <2> HIDE DEF ExportsRun
  <2> QED
    BY <1>1, <1>2, <2>1 DEF Export
<1>4. RowTypes'
  BY <1>3 DEF StoreInv, RowTypes
<1>5. ExportIsKnown' /\ ExportIsWhole'
  BY <1>2 DEF ExportIsKnown, ExportIsWhole, Used
<1> QED
  BY <1>4, <1>5, TablesStay, WritersStay, RemovalStays DEF StoreInv

LEMMA ExportsResultKeeps == ASSUME StoreInv, ExportsResult PROVE StoreInv'
<1> USE DEF ExportsResult
<1> DEFINE found == results[exporter.run] # NoRow
<1>1. exporter \in Export /\ exporter.at = "run" /\ exporter.run \in Id
  BY DEF StoreInv, RowTypes, ExportIsKnown
<1>2. exporter' = [exporter EXCEPT !.at = "results", !.results = found]
  OBVIOUS
<1>3. found \in BOOLEAN
  OBVIOUS
<1>4. ~robbed /\ exporter.status = "completed" /\ ~exporter.hit => found
  BY <1>1 DEF StoreInv, ExportIsKnown, CompletedIsMeasured
<1> HIDE DEF found
<1>5. /\ exporter' \in Export /\ exporter'.at = "results" /\ exporter'.results = found
      /\ exporter'.run = exporter.run /\ exporter'.status = exporter.status /\ exporter'.hit = exporter.hit
  BY <1>1, <1>2, <1>3 DEF Export
<1>6. RowTypes'
  BY <1>5 DEF StoreInv, RowTypes
<1>7. ExportIsKnown'
  BY <1>1, <1>5 DEF StoreInv, ExportIsKnown, Used
<1>8. ExportIsWhole'
  BY <1>4, <1>5 DEF ExportIsWhole
<1> QED
  BY <1>6, <1>7, <1>8, TablesStay, WritersStay, RemovalStays DEF StoreInv

LEMMA ExportedKeeps == ASSUME StoreInv, Exported PROVE StoreInv'
<1> USE DEF Exported
<1>1. NoExport \in Export /\ NoExport.at = "rest"
  BY NoRowIsNone DEF NoExport, Export
<1>2. RowTypes'
  BY <1>1 DEF StoreInv, RowTypes
<1>3. ExportIsKnown' /\ ExportIsWhole'
  BY <1>1 DEF ExportIsKnown, ExportIsWhole
<1> QED
  BY <1>2, <1>3, TablesStay, WritersStay, RemovalStays DEF StoreInv

LEMMA AnnouncesKeeps ==
  ASSUME StoreInv, NEW kind \in {"run", "model"}, NEW i \in Id, Announces(kind, i)
  PROVE  StoreInv'
<1> USE DEF Announces
<1>1. /\ remover'.at = "announced" /\ remover'.kind = kind /\ remover'.id = i
      /\ remover'.ended => kind = "run" /\ runs[i].status # "running"
      /\ kind = "run" => remover'.seen = Summary({i}) /\ i \in Used(runs)
  OBVIOUS
<1>2. i \in 0..MaxStarts
  BY NoRowIsNone
<1>3. RowTypes'
  BY <1>1, <1>2 DEF StoreInv, RowTypes
<1>4. RemovalIsKnown'
  <2>1. Summary({i})' = Summary({i})
    BY DEF Summary, Used
  <2>2. Used(runs)' = Used(runs)
    BY DEF Used
  <2> QED
    BY <1>1, <2>1, <2>2 DEF RemovalIsKnown
<1> QED
  BY <1>3, <1>4, TablesStay, WritersStay, ExportStays DEF StoreInv

LEMMA DeclinesKeeps == ASSUME StoreInv, Declines PROVE StoreInv'
<1> USE DEF Declines
<1>1. remover'.at = "rest" /\ remover'.kind = "run" /\ remover'.id = 0 /\ 0 \in 0..MaxStarts
  BY NoRowIsNone DEF NoRemoval
<1>2. RowTypes'
  BY <1>1 DEF StoreInv, RowTypes
<1>3. RemovalIsKnown'
  BY <1>1 DEF RemovalIsKnown
<1> QED
  BY <1>2, <1>3, TablesStay, WritersStay, ExportStays DEF StoreInv

\* The row a session at work has inserted is there, and no other session works on it.
LEMMA OwnRow ==
  ASSUME StoreInv, ~robbed, NEW s \in Session, writer[s].at \in OnItsRow
  PROVE  /\ writer[s].run \in Used(runs) /\ runs[writer[s].run] = Row(s)
         /\ runs[writer[s].run].status = "running" /\ runs[writer[s].run].who = writer[s].who
         /\ \A t \in Session : t # s /\ writer[t].at \in OnItsRow => writer[t].run # writer[s].run
<1>1. writer[s] \in Work /\ writer[s].at # "rest" /\ writer[s].at # "model"
  BY DEF StoreInv, RowTypes, OnItsRow
<1>2. writer[s].run \in 0..MaxStarts /\ writer[s].run # 0
  BY <1>1 DEF StoreInv, WritersAreKnown, Work
<1>3. writer[s].run \in Id
  BY <1>2, NoRowIsNone
<1>4. runs[writer[s].run] = Row(s)
  BY DEF StoreInv, WriterOwns
<1>5. Row(s).status = "running" /\ Row(s).who = writer[s].who
  BY DEF Row
<1>6. Row(s) \in RunRow
  <2>1. writer[s].who \in 1..starts /\ starts \in 0..MaxStarts /\ writer[s].profile \in Profile /\ writer[s].model \in Id
    BY <1>1 DEF StoreInv, WritersAreKnown, RowTypes
  <2>2. writer[s].who \in Who
    BY <2>1, NoRowIsNone
  <2> QED
    BY <2>1, <2>2 DEF Row, RunRow
<1>7. \A t \in Session : t # s /\ writer[t].at \in OnItsRow => writer[t].run # writer[s].run
  <2> SUFFICES ASSUME NEW t \in Session, t # s, writer[t].at \in OnItsRow PROVE writer[t].run # writer[s].run
    OBVIOUS
  <2>1. runs[writer[t].run] = Row(t) /\ Row(t).who = writer[t].who
    BY DEF StoreInv, WriterOwns, Row
  <2>2. writer[t].at # "rest" /\ writer[t].who # writer[s].who
    BY <1>1 DEF StoreInv, WhoIsOnce, OnItsRow
  <2> QED
    BY <1>4, <1>5, <2>1, <2>2
<1> QED
  BY <1>3, <1>4, <1>5, <1>6, <1>7, NoRowIsNone, UsedIs

\* The row in models for a profile: the one it has, or the next.
LEMMA UpsertedIs ==
  ASSUME StoreInv, NEW p \in Profile, starts < MaxStarts,
         NEW old, old = {i \in Used(models) : models[i] = p},
         NEW id, id = IF old # {} THEN Max(old) ELSE NextId(models)
  PROVE  /\ id \in Id /\ id <= starts + 1
         /\ \A i \in Used(models) : models[i] = p <=> i = id
<1>1. starts \in Nat /\ \A i \in Used(models) : i <= starts
  BY NoRowIsNone DEF StoreInv, RowTypes, ModelsAreOnce
<1>2. CASE old = {}
  <2>1. NextId(models) \in Id /\ NextId(models) \notin Used(models) /\ NextId(models) <= starts + 1
    BY <1>1, NextIdIsFree
  <2> QED
    BY <1>2, <2>1
<1>3. CASE old # {}
  <2>1. old \in SUBSET (1..MaxStarts)
    BY NoRowIsNone DEF Used
  <2>2. Max(old) \in old
    BY <1>3, <2>1, LargestExists, NoRowIsNone
  <2>3. id \in Used(models) /\ models[id] = p
    BY <1>3, <2>2
  <2>4. \A i \in Used(models) : models[i] = p => i = id
    BY <2>3 DEF StoreInv, ModelsAreOnce
  <2>5. id \in Id /\ id \in Nat
    BY <2>3, NoRowIsNone DEF Used
  <2> QED
    BY <1>1, <2>3, <2>4, <2>5
<1> QED
  BY <1>2, <1>3

LEMMA UpsertsModelKeeps == ASSUME StoreInv, NEW s \in Session, NEW p \in Profile, UpsertsModel(s, p) PROVE StoreInv'
<1> DEFINE old == {i \in Used(models) : models[i] = p}
           id == IF old # {} THEN Max(old) ELSE NextId(models)
           w == [Rest EXCEPT !.at = "model", !.who = starts + 1, !.profile = p, !.model = id]
<1>1. /\ writer[s].at = "rest" /\ starts < MaxStarts
      /\ models' = [models EXCEPT ![id] = p] /\ writer' = [writer EXCEPT ![s] = w] /\ starts' = starts + 1
      /\ UNCHANGED <<runs, results, samples, remover, exporter, cut, robbed>>
  BY DEF UpsertsModel
<1>2. /\ id \in Id /\ id <= starts + 1
      /\ \A i \in Used(models) : models[i] = p <=> i = id
  BY <1>1, UpsertedIs
<1> HIDE DEF id, old
<1>3. /\ w.at = "model" /\ w.who = starts + 1 /\ w.profile = p /\ w.model = id /\ w.run = 0 /\ w.left = 0
  <2>1. w = [Rest EXCEPT !.at = "model", !.who = starts + 1, !.profile = p, !.model = id]
    OBVIOUS
  <2>2. Rest \in Work /\ Rest.run = 0 /\ Rest.left = 0
    BY RestIsWork DEF Rest
  <2> HIDE DEF w
  <2> QED
    BY <2>1, <2>2 DEF Work
<1> HIDE DEF w
<1>4. starts \in Nat /\ starts + 1 \in 1..MaxStarts /\ MaxStarts \in Nat
  BY <1>1, NoRowIsNone DEF StoreInv, RowTypes
<1>5. writer \in [Session -> Work] /\ models \in [Id -> Profile \cup {NoRow}]
  BY DEF StoreInv, RowTypes
<1>6. w \in Work
  <2>1. w = [Rest EXCEPT !.at = "model", !.who = starts + 1, !.profile = p, !.model = id]
    BY DEF w
  <2>2. id \in 0..MaxStarts /\ starts + 1 \in 0..MaxStarts
    BY <1>2, <1>4, NoRowIsNone
  <2> QED
    BY <2>1, <2>2, RestIsWork DEF Work
<1>7. writer' \in [Session -> Work] /\ writer'[s] = w /\ \A t \in Session : t # s => writer'[t] = writer[t]
  BY <1>1, <1>5, <1>6
<1>8. /\ models' \in [Id -> Profile \cup {NoRow}] /\ models'[id] = p
      /\ \A i \in Used(models) : models'[i] = models[i]
      /\ \A i \in Used(models') : i \in Used(models) \/ i = id
      /\ \A i \in Used(models) : i \in Used(models')
      /\ id \in Used(models')
  BY <1>1, <1>2, <1>5, NoRowIsNone DEF Used
<1>9. Used(runs)' = Used(runs)
  BY <1>1 DEF Used
<1>10. \A t \in Session : writer[t].at # "rest" => writer[t].who \in 1..starts
  BY DEF StoreInv, WritersAreKnown
<1>a. RowTypes'
  BY <1>1, <1>4, <1>7, <1>8 DEF StoreInv, RowTypes
<1>b. ModelsAreOnce'
  <2>1. \A i, j \in Used(models') : models'[i] = models'[j] => i = j
    BY <1>2, <1>8 DEF StoreInv, ModelsAreOnce
  <2>2. \A i \in Used(models') : i <= starts + 1
    <3>1. \A i \in Used(models) : i <= starts /\ i \in Nat
      BY NoRowIsNone DEF StoreInv, ModelsAreOnce, Used
    <3> QED
      BY <1>2, <1>4, <1>8, <3>1
  <2> QED
    BY <1>1, <2>1, <2>2 DEF ModelsAreOnce, Used
<1>c. WritersAreKnown'
  <2>1. \A x \in 1..starts : x \in 1..starts + 1
    BY <1>4
  <2>2. starts + 1 \in 1..starts + 1
    BY <1>4
  <2>3. WritersAreKnown
    BY DEF StoreInv
  <2> SUFFICES ASSUME NEW t \in Session, writer'[t].at # "rest"
               PROVE  /\ writer'[t].who \in 1..starts + 1 /\ writer'[t].profile \in Profile /\ writer'[t].model \in Id
                      /\ writer'[t].at = "model" <=> writer'[t].run = 0
                      /\ writer'[t].at = "model" => ~writer'[t].ok
    BY <1>1 DEF WritersAreKnown
  <2>4. CASE t = s
    <3>1. ~w.ok
      BY RestIsWork DEF w, Work, Rest
    <3> QED
      BY <1>2, <1>3, <1>7, <2>2, <2>4, <3>1
  <2>5. CASE t # s
    BY <1>7, <2>1, <2>3, <2>5 DEF WritersAreKnown
  <2> QED
    BY <2>4, <2>5
<1>d. WhoIsOnce'
  <2>1. \A t, u \in Session : writer'[t].at # "rest" /\ writer'[u].at # "rest" /\ writer'[t].who = writer'[u].who => t = u
    <3>1. \A t \in Session : writer[t].at # "rest" => writer[t].who # starts + 1
      BY <1>4, <1>10
    <3>2. \A t, u \in Session : writer[t].at # "rest" /\ writer[u].at # "rest" /\ writer[t].who = writer[u].who => t = u
      BY DEF StoreInv, WhoIsOnce
    <3> QED
      BY <1>3, <1>7, <3>1, <3>2
  <2>2. \A r \in Used(runs) : runs[r].who \in Nat /\ runs[r].who <= starts
    BY NoRowIsNone DEF StoreInv, WhoIsOnce, RowTypes, Used, RunRow
  <2>3. \A r \in Used(runs) : runs[r].who <= starts + 1 /\ runs[r].who # starts + 1
    BY <1>4, <2>2
  <2>4. \A t \in Session, r \in Used(runs) : writer'[t].at = "model" => writer'[t].who # runs[r].who
    BY <1>3, <1>7, <2>3 DEF StoreInv, WhoIsOnce
  <2>5. \A q, r \in Used(runs) : runs[q].who = runs[r].who => q = r
    BY DEF StoreInv, WhoIsOnce
  <2> QED
    BY <1>1, <1>9, <2>1, <2>3, <2>4, <2>5 DEF WhoIsOnce
<1>e. RunsAreFew'
  <2>1. starts + 1 \notin Entering
    BY <1>4, <1>10 DEF Entering
  <2>2. Entering' = Entering \cup {starts + 1}
    <3>1. \A x \in 1..MaxStarts : (\E t \in Session : writer'[t].at = "model" /\ writer'[t].who = x)
            <=> x = starts + 1 \/ \E t \in Session : writer[t].at = "model" /\ writer[t].who = x
      BY <1>1, <1>3, <1>7
    <3> QED
      BY <1>4, <3>1 DEF Entering
  <2>3. Cardinality(Entering') = Cardinality(Entering) + 1
    BY <2>1, <2>2, EnteringIsFinite, FS_AddElement
  <2>4. \A r \in Used(runs) : r \in Nat /\ r + Cardinality(Entering) <= starts
    BY NoRowIsNone DEF StoreInv, RunsAreFew, Used
  <2>5. \A r \in Used(runs) : r + Cardinality(Entering') <= starts + 1
    BY <1>4, <2>3, <2>4, EnteringIsFinite
  <2> QED
    BY <1>1, <1>9, <2>5 DEF RunsAreFew
<1>f. NoOrphans'
  <2>1. \A r \in Used(runs) : runs[r].model \in Id /\ models[runs[r].model] # NoRow
    BY DEF StoreInv, NoOrphans, ListRuns
  <2>2. \A r \in Used(runs) : models'[runs[r].model] # NoRow
    BY <1>8, <2>1 DEF Used
  <2>3. ListRuns' = Used(runs)
    BY <1>1, <1>9, <2>1, <2>2 DEF ListRuns
  <2> QED
    BY <1>1, <1>9, <2>3 DEF StoreInv, NoOrphans
<1>g. RowsAreOwn' /\ CompletedIsMeasured'
  BY <1>1, <1>9 DEF StoreInv, RowsAreOwn, CompletedIsMeasured
<1>h. ModelIsOwn'
  <2>1. \A r \in Used(runs) : models'[runs[r].model] = models[runs[r].model]
    BY <1>8 DEF StoreInv, NoOrphans, ListRuns, Used
  <2> QED
    BY <1>1, <1>9, <2>1 DEF StoreInv, ModelIsOwn
<1>i. WriterOwns'
  <2> SUFFICES ASSUME ~robbed, NEW t \in Session
               PROVE  /\ writer'[t].at # "rest" => models'[writer'[t].model] = writer'[t].profile
                      /\ writer'[t].at \in OnItsRow => runs[writer'[t].run] = Row(t)'
    BY <1>1 DEF WriterOwns
  <2>1. CASE t = s
    BY <1>3, <1>7, <1>8, <2>1 DEF OnItsRow
  <2>2. CASE t # s
    <3>1. writer'[t] = writer[t]
      BY <1>7, <2>2
    <3>2. writer[t].at # "rest" => /\ models[writer[t].model] = writer[t].profile
                                   /\ writer[t].profile \in Profile /\ writer[t].model \in Id
      BY DEF StoreInv, WriterOwns, WritersAreKnown
    <3>3. writer[t].at # "rest" => writer[t].model \in Used(models)
      BY <3>2, NoRowIsNone DEF Used
    <3>4. writer[t].at \in OnItsRow => runs[writer[t].run] = Row(t)
      BY DEF StoreInv, WriterOwns
    <3> QED
      BY <1>8, <3>1, <3>2, <3>3, <3>4 DEF Row
  <2> QED
    BY <2>1, <2>2
<1>j. RowIsWritten'
  BY <1>1, <1>3, <1>7 DEF StoreInv, RowIsWritten, OnItsRow
<1>k. RunningIsAtWork'
  <2>1. \A t \in Session : writer[t].at # "rest" => writer'[t] = writer[t]
    BY <1>1, <1>7
  <2> QED
    BY <1>1, <1>9, <2>1 DEF StoreInv, RunningIsAtWork
<1> QED
  BY <1>1, <1>a, <1>b, <1>c, <1>d, <1>e, <1>f, <1>g, <1>h, <1>i, <1>j, <1>k, RemovalStays, ExportStays DEF StoreInv

\* A session waits for the id of its run, and there is one.
LEMMA IdForRun ==
  ASSUME StoreInv, NEW s \in Session, writer[s].at = "model"
  PROVE  /\ writer[s].who \in Entering
         /\ NextId(runs) \in Id /\ NextId(runs) \notin Used(runs)
         /\ NextId(runs) + Cardinality(Entering) <= starts + 1
<1>1. starts \in Nat /\ starts <= MaxStarts /\ MaxStarts \in Nat
  BY NoRowIsNone DEF StoreInv, RowTypes
<1>2. writer[s].who \in Entering
  BY <1>1 DEF StoreInv, WritersAreKnown, Entering
<1>3. Entering \in SUBSET (1..starts)
  BY DEF StoreInv, WritersAreKnown, Entering
<1> DEFINE c == Cardinality(Entering)
<1>4. c \in Nat /\ c <= starts
  <2>1. IsFiniteSet(1..starts) /\ Cardinality(1..starts) <= starts
    <3>1. 1 \in Int /\ starts \in Int
      BY <1>1
    <3>2. IsFiniteSet(1..starts) /\ Cardinality(1..starts) = IF 1 > starts THEN 0 ELSE starts - 1 + 1
      BY <3>1, FS_Interval
    <3> QED
      BY <1>1, <3>2
  <2>2. Cardinality(Entering) <= Cardinality(1..starts)
    BY <1>3, <2>1, FS_Subset
  <2>3. Cardinality(1..starts) \in Nat
    BY <2>1, FS_CardinalityType
  <2> QED
    BY <1>1, <2>1, <2>2, <2>3, EnteringIsFinite
<1>5. c # 0
  BY <1>2, FS_EmptySet, EnteringIsFinite
<1>6. \A r \in Used(runs) : r \in Nat /\ r + c <= starts
  BY NoRowIsNone DEF StoreInv, RunsAreFew, Used
<1> HIDE DEF c
<1>7. starts - c \in Nat /\ starts - c < MaxStarts /\ \A r \in Used(runs) : r <= starts - c
  BY <1>1, <1>4, <1>5, <1>6
<1>8. NextId(runs) \in Id /\ NextId(runs) \notin Used(runs) /\ NextId(runs) <= (starts - c) + 1
  BY <1>7, NextIdIsFree
<1>9. NextId(runs) \in Nat
  BY <1>8, NoRowIsNone
<1>10. NextId(runs) + c <= starts + 1
  BY <1>1, <1>4, <1>8, <1>9
<1> QED
  BY <1>2, <1>8, <1>10 DEF c

LEMMA InsertsRunKeeps == ASSUME StoreInv, NEW s \in Session, InsertsRun(s) PROVE StoreInv'
<1> DEFINE n == NextId(runs)
           w == [writer[s] EXCEPT !.at = "cycle", !.run = n]
<1>1. /\ writer[s].at = "model" /\ models[writer[s].model] # NoRow
      /\ runs' = [runs EXCEPT ![n] = Row(s)]
      /\ UNCHANGED <<models, results, samples, remover, exporter, starts, cut, robbed>>
  BY DEF InsertsRun
<1>2. /\ writer \in [Session -> Work] /\ runs \in [Id -> RunRow \cup {NoRow}]
      /\ starts \in Nat /\ starts <= MaxStarts /\ MaxStarts \in Nat
  BY NoRowIsNone DEF StoreInv, RowTypes
<1>3. writer' = [writer EXCEPT ![s] = w]
  BY <1>2 DEF InsertsRun
<1>4. /\ writer[s].who \in Entering /\ n \in Id /\ n \notin Used(runs)
      /\ n + Cardinality(Entering) <= starts + 1
  BY <1>1, IdForRun
<1> HIDE DEF n
<1>5. n \in 1..MaxStarts /\ n \in Nat
  BY <1>2, <1>4, NoRowIsNone
<1>6. /\ w \in Work /\ w.at = "cycle" /\ w.run = n /\ w.who = writer[s].who
      /\ w.profile = writer[s].profile /\ w.model = writer[s].model
  <2>1. w = [writer[s] EXCEPT !.at = "cycle", !.run = n] /\ writer[s] \in Work
    BY <1>2
  <2>2. n \in 0..MaxStarts /\ "cycle" \in OnItsRow
    BY <1>5 DEF OnItsRow
  <2> HIDE DEF w
  <2>3. w \in Work
    BY <2>1, <2>2 DEF Work
  <2> QED
    BY <2>1, <2>3 DEF Work
<1> HIDE DEF w
<1>7. writer' \in [Session -> Work] /\ writer'[s] = w /\ \A t \in Session : t # s => writer'[t] = writer[t]
  BY <1>2, <1>3, <1>6
<1>8. writer[s].who \in 1..starts /\ writer[s].profile \in Profile /\ writer[s].model \in Id
  BY <1>1 DEF StoreInv, WritersAreKnown
<1>9. /\ Row(s) \in RunRow /\ Row(s).who = writer[s].who /\ Row(s).model = writer[s].model
      /\ Row(s).profile = writer[s].profile /\ Row(s).status = "running"
  <2>1. writer[s].who \in Who
    BY <1>2, <1>8, NoRowIsNone
  <2> QED
    BY <1>8, <2>1 DEF Row, RunRow
<1>10. /\ runs' \in [Id -> RunRow \cup {NoRow}] /\ runs'[n] = Row(s)
       /\ \A r \in Id : r # n => runs'[r] = runs[r]
       /\ \A r \in Id : r \in Used(runs') <=> r \in Used(runs) \/ r = n
       /\ Used(runs') \subseteq Id /\ Used(runs) \subseteq Id
       /\ \A r \in Used(runs) : runs'[r] = runs[r]
  BY <1>1, <1>2, <1>4, <1>9, NoRowIsNone DEF Used
<1>11. results[n] = NoRow /\ samples[n] = {}
  BY <1>4 DEF StoreInv, NoOrphans, Used
<1>12. Used(models)' = Used(models)
  BY <1>1 DEF Used
<1>a. RowTypes'
  BY <1>1, <1>7, <1>10 DEF StoreInv, RowTypes
<1>b. ModelsAreOnce'
  BY <1>1, <1>12 DEF StoreInv, ModelsAreOnce
<1>c. WritersAreKnown'
  <2>1. n # 0
    BY <1>5
  <2> QED
    BY <1>1, <1>6, <1>7, <1>8, <2>1 DEF StoreInv, WritersAreKnown
<1>d. WhoIsOnce'
  <2>1. \A t, u \in Session : writer'[t].at # "rest" /\ writer'[u].at # "rest" /\ writer'[t].who = writer'[u].who => t = u
    BY <1>1, <1>6, <1>7 DEF StoreInv, WhoIsOnce
  <2>2. \A r \in Used(runs) : runs[r].who # writer[s].who
    BY <1>1 DEF StoreInv, WhoIsOnce
  <2>3. \A q, r \in Used(runs') : runs'[q].who = runs'[r].who => q = r
    BY <1>9, <1>10, <2>2 DEF StoreInv, WhoIsOnce
  <2>4. \A r \in Used(runs') : runs'[r].who <= starts
    <3>1. writer[s].who <= starts
      BY <1>8
    <3> QED
      BY <1>9, <1>10, <3>1 DEF StoreInv, WhoIsOnce
  <2>5. \A t \in Session, r \in Used(runs') : writer'[t].at = "model" => writer'[t].who # runs'[r].who
    <3> SUFFICES ASSUME NEW t \in Session, NEW r \in Used(runs'), writer'[t].at = "model"
                 PROVE  writer'[t].who # runs'[r].who
      OBVIOUS
    <3>1. t # s /\ writer'[t] = writer[t]
      BY <1>6, <1>7
    <3>2. CASE r = n
      BY <1>1, <1>9, <1>10, <3>1, <3>2 DEF StoreInv, WhoIsOnce
    <3>3. CASE r \in Used(runs)
      BY <1>10, <3>1, <3>3 DEF StoreInv, WhoIsOnce
    <3> QED
      BY <1>10, <3>2, <3>3
  <2>6. Used(runs)' = Used(runs')
    BY DEF Used
  <2> QED
    BY <1>1, <2>1, <2>3, <2>4, <2>5, <2>6 DEF WhoIsOnce
<1>e. RunsAreFew'
  <2>1. Entering' = Entering \ {writer[s].who}
    <3>1. \A t \in Session : t # s /\ writer[t].at = "model" => writer[t].who # writer[s].who
      BY <1>1 DEF StoreInv, WhoIsOnce
    <3>2. \A x : (\E t \in Session : writer'[t].at = "model" /\ writer'[t].who = x)
            <=> x # writer[s].who /\ \E t \in Session : writer[t].at = "model" /\ writer[t].who = x
      BY <1>6, <1>7, <3>1
    <3> QED
      BY <3>2 DEF Entering
  <2>2. Cardinality(Entering') = Cardinality(Entering) - 1
    BY <1>4, <2>1, EnteringIsFinite, FS_RemoveElement
  <2>3. n + Cardinality(Entering') <= starts
    BY <1>2, <1>4, <1>5, <2>2, EnteringIsFinite
  <2>4. \A r \in Used(runs) : r \in Nat /\ r + Cardinality(Entering) <= starts
    BY NoRowIsNone DEF StoreInv, RunsAreFew, Used
  <2>5. \A r \in Used(runs) : r + Cardinality(Entering') <= starts
    BY <1>2, <2>2, <2>4, EnteringIsFinite
  <2>6. Used(runs)' = Used(runs')
    BY DEF Used
  <2> QED
    BY <1>1, <1>10, <2>3, <2>5, <2>6 DEF RunsAreFew
<1>f. NoOrphans'
  <2>1. \A r \in Used(runs) : runs[r].model \in Id /\ models[runs[r].model] # NoRow
    BY DEF StoreInv, NoOrphans, ListRuns
  <2>2. \A r \in Used(runs') : runs'[r].model \in Id /\ models[runs'[r].model] # NoRow
    BY <1>1, <1>8, <1>9, <1>10, <2>1
  <2>3. Used(runs)' = ListRuns'
    BY <1>1, <2>2 DEF ListRuns, Used
  <2>4. \A r \in Id : (samples[r] # {} \/ results[r] # NoRow) => runs'[r] # NoRow
    BY <1>10, <1>11 DEF StoreInv, NoOrphans
  <2> QED
    BY <1>1, <2>3, <2>4 DEF NoOrphans
<1>g. RowsAreOwn'
  <2>1. Used(runs)' = Used(runs')
    BY DEF Used
  <2> QED
    BY <1>1, <1>10, <1>11, <2>1 DEF StoreInv, RowsAreOwn
<1>h. CompletedIsMeasured'
  <2>1. Used(runs)' = Used(runs')
    BY DEF Used
  <2> QED
    BY <1>1, <1>9, <1>10, <2>1 DEF StoreInv, CompletedIsMeasured
<1>i. ModelIsOwn'
  <2>1. Used(runs)' = Used(runs')
    BY DEF Used
  <2>2. ~robbed => models[Row(s).model] = Row(s).profile
    BY <1>1, <1>9 DEF StoreInv, WriterOwns
  <2> QED
    BY <1>1, <1>10, <2>1, <2>2 DEF StoreInv, ModelIsOwn
<1>j. WriterOwns' /\ RowIsWritten'
  <2> SUFFICES ASSUME ~robbed PROVE WriterOwns' /\ RowIsWritten'
    BY <1>1 DEF WriterOwns, RowIsWritten
  <2>1. \A t \in Session : t # s /\ writer[t].at \in OnItsRow => runs'[writer[t].run] = runs[writer[t].run]
    BY <1>10, OwnRow
  <2>2. Row(s)' = Row(s)
    BY <1>6, <1>7 DEF Row
  <2>3. WriterOwns'
    <3> SUFFICES ASSUME NEW t \in Session
                 PROVE  /\ writer'[t].at # "rest" => models[writer'[t].model] = writer'[t].profile
                        /\ writer'[t].at \in OnItsRow => runs'[writer'[t].run] = Row(t)'
      BY <1>1 DEF WriterOwns
    <3>1. CASE t = s
      BY <1>1, <1>6, <1>7, <1>10, <2>2, <3>1 DEF StoreInv, WriterOwns
    <3>2. CASE t # s
      BY <1>7, <2>1, <3>2 DEF StoreInv, WriterOwns, Row
    <3> QED
      BY <3>1, <3>2
  <2>4. RowIsWritten'
    <3>1. w.ok = writer[s].ok
      BY <1>2 DEF w, Work
    <3> SUFFICES ASSUME NEW t \in Session, writer'[t].at \in OnItsRow
                 PROVE  /\ samples[writer'[t].run] =
                             IF writer'[t].at = "cycle" THEN {} ELSE {writer'[t].who} \X (writer'[t].left + 1 .. Samples)
                        /\ writer'[t].at \in {"result", "finish"} => writer'[t].left = 0
                        /\ writer'[t].at # "finish" => results[writer'[t].run] = NoRow
                        /\ writer'[t].at = "finish" /\ writer'[t].ok => results[writer'[t].run] # NoRow
                        /\ writer'[t].ok => writer'[t].measured
      BY <1>1 DEF RowIsWritten
    <3>2. CASE t = s
      <4>1. ~w.ok
        BY <1>1, <3>1 DEF StoreInv, WritersAreKnown
      <4> QED
        BY <1>6, <1>7, <1>11, <3>2, <4>1
    <3>3. CASE t # s
      BY <1>7, <3>3 DEF StoreInv, RowIsWritten
    <3> QED
      BY <3>2, <3>3
  <2> QED
    BY <2>3, <2>4
<1>k. RemovalIsKnown'
  <2>1. Summary({remover.id})' = Summary({remover.id})
    BY <1>1 DEF Summary, Used
  <2>2. Used(runs)' = Used(runs')
    BY DEF Used
  <2> QED
    BY <1>1, <1>10, <2>1, <2>2 DEF StoreInv, RemovalIsKnown
<1>l. ExportIsKnown' /\ ExportIsWhole'
  <2>1. Used(runs)' = Used(runs')
    BY DEF Used
  <2> QED
    BY <1>1, <1>10, <2>1 DEF StoreInv, ExportIsKnown, ExportIsWhole
<1>m. RunningIsAtWork'
  <2> SUFFICES ASSUME ~robbed, NEW r \in Used(runs'), runs'[r].status = "running"
               PROVE  \/ runs'[r].who \in cut
                      \/ \E t \in Session : writer'[t].at # "rest" /\ writer'[t].who = runs'[r].who
    BY <1>1 DEF RunningIsAtWork, Used
  <2>1. CASE r = n
    BY <1>6, <1>7, <1>9, <1>10, <2>1
  <2>2. CASE r \in Used(runs)
    <3>1. runs'[r] = runs[r]
      BY <1>10, <2>2
    <3>2. \A t \in Session : writer[t].at # "rest" => writer'[t].at # "rest" /\ writer'[t].who = writer[t].who
      BY <1>6, <1>7
    <3> QED
      BY <2>2, <3>1, <3>2 DEF StoreInv, RunningIsAtWork
  <2> QED
    BY <1>10, <2>1, <2>2
<1> QED
  BY <1>a, <1>b, <1>c, <1>d, <1>e, <1>f, <1>g, <1>h, <1>i, <1>j, <1>k, <1>l, <1>m DEF StoreInv

LEMMA RunIsId ==
  ASSUME StoreInv, NEW s \in Session, writer[s].at \in OnItsRow
  PROVE  writer[s].run \in Id /\ writer[s].who \in Who /\ writer[s].at # "rest" /\ writer[s].at # "model"
<1>1. writer[s] \in Work /\ writer[s].at # "rest" /\ writer[s].at # "model" /\ starts \in 0..MaxStarts
  BY DEF StoreInv, RowTypes, OnItsRow
<1>2. writer[s].run \in 0..MaxStarts /\ writer[s].run # 0 /\ writer[s].who \in 1..starts
  BY <1>1 DEF StoreInv, WritersAreKnown, Work
<1> QED
  BY <1>1, <1>2, NoRowIsNone

\* A session that is where it was in its run stands for the same rows.
LEMMA WhoStays ==
  ASSUME StoreInv, NEW s \in Session, NEW w \in Work, writer[s].at \in OnItsRow,
         writer' = [writer EXCEPT ![s] = w], runs' = runs, starts' = starts, models' = models, robbed' = robbed, cut' = cut,
         w.at \in OnItsRow, w.who = writer[s].who, w.profile = writer[s].profile,
         w.model = writer[s].model, w.run = writer[s].run
  PROVE  /\ writer' \in [Session -> Work] /\ writer'[s] = w /\ \A t \in Session : t # s => writer'[t] = writer[t]
         /\ ModelsAreOnce' /\ WritersAreKnown' /\ WhoIsOnce' /\ RunsAreFew' /\ WriterOwns' /\ ModelIsOwn' /\ RunningIsAtWork'
<1>1. writer \in [Session -> Work]
  BY DEF StoreInv, RowTypes
<1>2. writer' \in [Session -> Work] /\ writer'[s] = w /\ \A t \in Session : t # s => writer'[t] = writer[t]
  BY <1>1
<1>3. WritersAreKnown'
  BY <1>2 DEF StoreInv, WritersAreKnown, OnItsRow
<1>4. WhoIsOnce'
  BY <1>2 DEF StoreInv, WhoIsOnce, Used, OnItsRow
<1>5. RunsAreFew'
  <2>1. Entering' \subseteq Entering
    BY <1>2 DEF Entering, OnItsRow
  <2> QED
    BY <2>1, FewerWait DEF StoreInv
<1>6. WriterOwns'
  BY <1>2 DEF StoreInv, WriterOwns, Row, OnItsRow
<1>7. RunningIsAtWork'
  <2>1. \A t \in Session : writer[t].at # "rest" => writer'[t].at # "rest" /\ writer'[t].who = writer[t].who
    BY <1>2 DEF OnItsRow
  <2> QED
    BY <2>1 DEF StoreInv, RunningIsAtWork, Used
<1>8. ModelsAreOnce' /\ ModelIsOwn'
  BY DEF StoreInv, ModelsAreOnce, ModelIsOwn, Used
<1> QED
  BY <1>2, <1>3, <1>4, <1>5, <1>6, <1>7, <1>8

LEMMA InsertsSampleKeeps == ASSUME StoreInv, NEW s \in Session, InsertsSample(s) PROVE StoreInv'
<1> DEFINE n == writer[s].run
           k == writer[s].left
           w == [writer[s] EXCEPT !.left = k - 1]
<1>1. /\ writer[s].at = "samples" /\ k > 0 /\ runs[n] # NoRow
      /\ samples' = [samples EXCEPT ![n] = @ \cup {<<writer[s].who, k>>}]
      /\ UNCHANGED <<models, runs, results, remover, exporter, starts, cut, robbed>>
  BY DEF InsertsSample
<1>2. writer \in [Session -> Work] /\ writer[s].at \in OnItsRow /\ writer[s] \in Work
  BY <1>1 DEF StoreInv, RowTypes, OnItsRow
<1>3. writer' = [writer EXCEPT ![s] = w]
  BY <1>2 DEF InsertsSample
<1>4. n \in Id /\ writer[s].who \in Who
  BY <1>2, RunIsId
<1>5. k \in 1..Samples /\ k - 1 \in 0..Samples /\ k \in Nat /\ Samples \in Nat
  <2>1. writer[s].left \in 0..Samples
    BY <1>2 DEF Work
  <2> QED
    BY <1>1, <2>1, NoRowIsNone
<1>6. /\ w \in Work /\ w.left = k - 1 /\ w.at = writer[s].at /\ w.who = writer[s].who /\ w.profile = writer[s].profile
      /\ w.model = writer[s].model /\ w.run = n
  <2>1. w = [writer[s] EXCEPT !.left = k - 1]
    OBVIOUS
  <2> HIDE DEF w, k
  <2> QED
    BY <1>2, <1>5, <2>1 DEF Work
<1>7. w.ok = writer[s].ok /\ w.measured = writer[s].measured
  BY <1>2 DEF Work
<1> HIDE DEF n, k, w
<1>8. /\ writer' \in [Session -> Work] /\ writer'[s] = w /\ \A t \in Session : t # s => writer'[t] = writer[t]
      /\ ModelsAreOnce' /\ WritersAreKnown' /\ WhoIsOnce' /\ RunsAreFew' /\ WriterOwns' /\ ModelIsOwn' /\ RunningIsAtWork'
  BY <1>1, <1>2, <1>3, <1>6, WhoStays DEF n
<1>9. samples \in [Id -> SUBSET (Who \X (1..Samples))]
  BY DEF StoreInv, RowTypes
<1>10. /\ samples' \in [Id -> SUBSET (Who \X (1..Samples))]
       /\ samples'[n] = samples[n] \cup {<<writer[s].who, k>>} /\ \A r \in Id : r # n => samples'[r] = samples[r]
  BY <1>1, <1>4, <1>5, <1>9
<1>11. ~robbed => /\ n \in Used(runs) /\ runs[n].status = "running" /\ runs[n].who = writer[s].who
                  /\ \A t \in Session : t # s /\ writer[t].at \in OnItsRow => writer[t].run # n
  BY <1>2, OwnRow DEF n
<1>a. RowTypes'
  BY <1>1, <1>8, <1>10 DEF StoreInv, RowTypes
<1>b. NoOrphans'
  BY <1>1, <1>10 DEF StoreInv, NoOrphans, ListRuns, Used
<1>c. RowsAreOwn'
  <2> SUFFICES ASSUME ~robbed, NEW r \in Used(runs)
               PROVE  results[r] \in {NoRow, runs[r].who} /\ \A x \in samples'[r] : x[1] = runs[r].who
    BY <1>1 DEF RowsAreOwn, Used
  <2>1. results[r] \in {NoRow, runs[r].who} /\ \A x \in samples[r] : x[1] = runs[r].who
    BY DEF StoreInv, RowsAreOwn
  <2>2. CASE r = n
    BY <1>10, <1>11, <2>1, <2>2
  <2>3. CASE r # n
    BY <1>10, <2>1, <2>3 DEF Used
  <2> QED
    BY <2>2, <2>3
<1>d. CompletedIsMeasured'
  <2> SUFFICES ASSUME ~robbed, NEW r \in Used(runs), runs[r].status = "completed"
               PROVE  results[r] # NoRow /\ Cardinality(samples'[r]) = Samples
    BY <1>1 DEF CompletedIsMeasured, Used
  <2>1. r # n /\ r \in Id
    BY <1>11 DEF Used
  <2> QED
    BY <1>10, <2>1 DEF StoreInv, CompletedIsMeasured
<1>e. RowIsWritten'
  <2> SUFFICES ASSUME ~robbed, NEW t \in Session, writer'[t].at \in OnItsRow
               PROVE  /\ samples'[writer'[t].run] =
                           IF writer'[t].at = "cycle" THEN {} ELSE {writer'[t].who} \X (writer'[t].left + 1 .. Samples)
                      /\ writer'[t].at \in {"result", "finish"} => writer'[t].left = 0
                      /\ writer'[t].at # "finish" => results[writer'[t].run] = NoRow
                      /\ writer'[t].at = "finish" /\ writer'[t].ok => results[writer'[t].run] # NoRow
                      /\ writer'[t].ok => writer'[t].measured
    BY <1>1 DEF RowIsWritten
  <2>1. CASE t = s
    <3>1. samples[n] = {writer[s].who} \X (k + 1 .. Samples) /\ results[n] = NoRow
      BY <1>1, <1>2 DEF StoreInv, RowIsWritten, n, k
    <3>2. writer[s].ok => writer[s].measured
      BY <1>2 DEF StoreInv, RowIsWritten
    <3>3. (k + 1 .. Samples) \cup {k} = (k - 1) + 1 .. Samples
      BY <1>5
    <3>4. samples'[n] = {w.who} \X (w.left + 1 .. Samples)
      BY <1>6, <1>10, <3>1, <3>3
    <3> QED
      BY <1>1, <1>6, <1>7, <1>8, <2>1, <3>1, <3>2, <3>4
  <2>2. CASE t # s
    <3>1. writer'[t] = writer[t]
      BY <1>8, <2>2
    <3>2. writer[t].run \in Id /\ writer[t].run # n
      BY <1>11, <2>2, <3>1, RunIsId
    <3>3. samples'[writer[t].run] = samples[writer[t].run]
      BY <1>10, <3>2
    <3>4. /\ samples[writer[t].run] =
               IF writer[t].at = "cycle" THEN {} ELSE {writer[t].who} \X (writer[t].left + 1 .. Samples)
          /\ writer[t].at \in {"result", "finish"} => writer[t].left = 0
          /\ writer[t].at # "finish" => results[writer[t].run] = NoRow
          /\ writer[t].at = "finish" /\ writer[t].ok => results[writer[t].run] # NoRow
          /\ writer[t].ok => writer[t].measured
      BY <3>1 DEF StoreInv, RowIsWritten
    <3> QED
      BY <3>1, <3>3, <3>4
  <2> QED
    BY <2>1, <2>2
<1>f. RemovalIsKnown'
  <2> SUFFICES ASSUME remover.at = "announced", ~robbed, remover.ended
               PROVE  Summary({remover.id})' = remover.seen
    BY <1>1 DEF StoreInv, RemovalIsKnown, Used
  <2>1. remover.id \in Used(runs) /\ runs[remover.id].status # "running" /\ Summary({remover.id}) = remover.seen
    BY DEF StoreInv, RemovalIsKnown
  <2>2. remover.id # n /\ remover.id \in Id
    BY <1>11, <2>1 DEF Used
  <2>3. samples'[remover.id] = samples[remover.id] /\ results'[remover.id] = results[remover.id]
    BY <1>1, <1>10, <2>2
  <2>4. remover' = remover
    BY <1>1
  <2> DEFINE i == remover.id
  <2>5. Summary({i})' = Summary({i})
    BY <2>3, <2>4 DEF Summary, Used
  <2> QED
    BY <2>1, <2>5
<1> QED
  BY <1>1, <1>8, <1>a, <1>b, <1>c, <1>d, <1>e, <1>f, ExportStays DEF StoreInv

LEMMA InsertsResultKeeps == ASSUME StoreInv, NEW s \in Session, InsertsResult(s) PROVE StoreInv'
<1> DEFINE n == writer[s].run
           w == [writer[s] EXCEPT !.at = "finish"]
<1>1. /\ writer[s].at = "result" /\ runs[n] # NoRow /\ results[n] = NoRow
      /\ results' = [results EXCEPT ![n] = writer[s].who]
      /\ UNCHANGED <<models, runs, samples, remover, exporter, starts, cut, robbed>>
  BY DEF InsertsResult
<1>2. writer \in [Session -> Work] /\ writer[s].at \in OnItsRow /\ writer[s] \in Work
  BY <1>1 DEF StoreInv, RowTypes, OnItsRow
<1>3. writer' = [writer EXCEPT ![s] = w]
  BY <1>2 DEF InsertsResult
<1>4. n \in Id /\ writer[s].who \in Who
  BY <1>2, RunIsId
<1>5. /\ w \in Work /\ w.at = "finish" /\ w.left = writer[s].left /\ w.who = writer[s].who
      /\ w.profile = writer[s].profile /\ w.model = writer[s].model /\ w.run = n
  BY <1>2 DEF Work, OnItsRow
<1>6. w.ok = writer[s].ok /\ w.measured = writer[s].measured
  BY <1>2 DEF Work
<1> HIDE DEF n, w
<1>7. "finish" \in OnItsRow
  BY DEF OnItsRow
<1>8. /\ writer' \in [Session -> Work] /\ writer'[s] = w /\ \A t \in Session : t # s => writer'[t] = writer[t]
      /\ ModelsAreOnce' /\ WritersAreKnown' /\ WhoIsOnce' /\ RunsAreFew' /\ WriterOwns' /\ ModelIsOwn' /\ RunningIsAtWork'
  BY <1>1, <1>2, <1>3, <1>5, <1>7, WhoStays DEF n
<1>9. results \in [Id -> Who \cup {NoRow}]
  BY DEF StoreInv, RowTypes
<1>10. /\ results' \in [Id -> Who \cup {NoRow}]
       /\ results'[n] = writer[s].who /\ results'[n] # NoRow /\ \A r \in Id : r # n => results'[r] = results[r]
  BY <1>1, <1>4, <1>9, NoRowIsNone
<1>11. ~robbed => /\ n \in Used(runs) /\ runs[n].status = "running" /\ runs[n].who = writer[s].who
                  /\ \A t \in Session : t # s /\ writer[t].at \in OnItsRow => writer[t].run # n
  BY <1>2, OwnRow DEF n
<1>a. RowTypes'
  BY <1>1, <1>8, <1>10 DEF StoreInv, RowTypes
<1>b. NoOrphans'
  BY <1>1, <1>10 DEF StoreInv, NoOrphans, ListRuns, Used
<1>c. RowsAreOwn'
  <2> SUFFICES ASSUME ~robbed, NEW r \in Used(runs)
               PROVE  results'[r] \in {NoRow, runs[r].who} /\ \A x \in samples[r] : x[1] = runs[r].who
    BY <1>1 DEF RowsAreOwn, Used
  <2>1. results[r] \in {NoRow, runs[r].who} /\ \A x \in samples[r] : x[1] = runs[r].who
    BY DEF StoreInv, RowsAreOwn
  <2>2. CASE r = n
    BY <1>10, <1>11, <2>1, <2>2
  <2>3. CASE r # n
    BY <1>10, <2>1, <2>3 DEF Used
  <2> QED
    BY <2>2, <2>3
<1>d. CompletedIsMeasured'
  <2> SUFFICES ASSUME ~robbed, NEW r \in Used(runs), runs[r].status = "completed"
               PROVE  results'[r] # NoRow /\ Cardinality(samples[r]) = Samples
    BY <1>1 DEF CompletedIsMeasured, Used
  <2>1. r # n /\ r \in Id
    BY <1>11 DEF Used
  <2> QED
    BY <1>10, <2>1 DEF StoreInv, CompletedIsMeasured
<1>e. RowIsWritten'
  <2> SUFFICES ASSUME ~robbed, NEW t \in Session, writer'[t].at \in OnItsRow
               PROVE  /\ samples[writer'[t].run] =
                           IF writer'[t].at = "cycle" THEN {} ELSE {writer'[t].who} \X (writer'[t].left + 1 .. Samples)
                      /\ writer'[t].at \in {"result", "finish"} => writer'[t].left = 0
                      /\ writer'[t].at # "finish" => results'[writer'[t].run] = NoRow
                      /\ writer'[t].at = "finish" /\ writer'[t].ok => results'[writer'[t].run] # NoRow
                      /\ writer'[t].ok => writer'[t].measured
    BY <1>1 DEF RowIsWritten
  <2>1. CASE t = s
    <3>1. samples[n] = {writer[s].who} \X (writer[s].left + 1 .. Samples) /\ writer[s].left = 0
      BY <1>1, <1>2 DEF StoreInv, RowIsWritten, n
    <3>2. writer[s].ok => writer[s].measured
      BY <1>2 DEF StoreInv, RowIsWritten
    <3> QED
      BY <1>5, <1>6, <1>8, <1>10, <2>1, <3>1, <3>2
  <2>2. CASE t # s
    <3>1. writer'[t] = writer[t]
      BY <1>8, <2>2
    <3>2. writer[t].run \in Id /\ writer[t].run # n
      BY <1>11, <2>2, <3>1, RunIsId
    <3>3. results'[writer[t].run] = results[writer[t].run]
      BY <1>10, <3>2
    <3>4. /\ samples[writer[t].run] =
               IF writer[t].at = "cycle" THEN {} ELSE {writer[t].who} \X (writer[t].left + 1 .. Samples)
          /\ writer[t].at \in {"result", "finish"} => writer[t].left = 0
          /\ writer[t].at # "finish" => results[writer[t].run] = NoRow
          /\ writer[t].at = "finish" /\ writer[t].ok => results[writer[t].run] # NoRow
          /\ writer[t].ok => writer[t].measured
      BY <3>1 DEF StoreInv, RowIsWritten
    <3> QED
      BY <3>1, <3>3, <3>4
  <2> QED
    BY <2>1, <2>2
<1>f. RemovalIsKnown'
  <2> SUFFICES ASSUME remover.at = "announced", ~robbed, remover.ended
               PROVE  Summary({remover.id})' = remover.seen
    BY <1>1 DEF StoreInv, RemovalIsKnown, Used
  <2>1. remover.id \in Used(runs) /\ runs[remover.id].status # "running" /\ Summary({remover.id}) = remover.seen
    BY DEF StoreInv, RemovalIsKnown
  <2>2. remover.id # n /\ remover.id \in Id
    BY <1>11, <2>1 DEF Used
  <2>3. samples'[remover.id] = samples[remover.id] /\ results'[remover.id] = results[remover.id]
    BY <1>1, <1>10, <2>2
  <2>4. remover' = remover
    BY <1>1
  <2> DEFINE i == remover.id
  <2>5. Summary({i})' = Summary({i})
    BY <2>3, <2>4 DEF Summary, Used
  <2> QED
    BY <2>1, <2>5
<1> QED
  BY <1>1, <1>8, <1>a, <1>b, <1>c, <1>d, <1>e, <1>f, ExportStays DEF StoreInv

\* What a session has written of a cycle it has completed.
LEMMA WrittenIsWhole ==
  ASSUME StoreInv, ~robbed, NEW s \in Session, writer[s].at = "finish", writer[s].ok
  PROVE  results[writer[s].run] # NoRow /\ Cardinality(samples[writer[s].run]) = Samples
<1> DEFINE n == writer[s].run
           who == writer[s].who
<1>1. writer[s].at \in OnItsRow /\ writer[s].at \in {"result", "finish"}
  BY DEF OnItsRow
<1>2. samples[n] = {who} \X (writer[s].left + 1 .. Samples) /\ writer[s].left = 0 /\ results[n] # NoRow
  BY <1>1 DEF StoreInv, RowIsWritten
<1>3. samples[n] = {who} \X (1 .. Samples)
  BY <1>2
<1>4. IsFiniteSet(1 .. Samples) /\ Cardinality(1 .. Samples) = Samples
  <2>1. Samples \in Nat /\ Samples \in Int /\ 1 \in Int
    BY NoRowIsNone
  <2>2. IsFiniteSet(1 .. Samples) /\ Cardinality(1 .. Samples) = IF 1 > Samples THEN 0 ELSE Samples - 1 + 1
    BY <2>1, FS_Interval
  <2> QED
    BY <2>1, <2>2
<1>5. IsFiniteSet({who}) /\ Cardinality({who}) = 1
  BY FS_Singleton
<1>6. Cardinality({who} \X (1 .. Samples)) = Cardinality({who}) * Cardinality(1 .. Samples)
  BY <1>4, <1>5, FS_Product
<1>7. 1 * Samples = Samples
  BY NoRowIsNone
<1> QED
  BY <1>2, <1>3, <1>4, <1>5, <1>6, <1>7

LEMMA FinishesRunKeeps == ASSUME StoreInv, NEW s \in Session, FinishesRun(s) PROVE StoreInv'
<1> DEFINE n == writer[s].run
           verdict == IF writer[s].ok THEN "completed" ELSE "failed"
<1>1. /\ writer[s].at = "finish"
      /\ runs' = IF runs[n] = NoRow THEN runs ELSE [runs EXCEPT ![n].status = verdict]
      /\ writer' = [writer EXCEPT ![s] = Rest]
      /\ UNCHANGED <<models, results, samples, remover, exporter, starts, cut, robbed>>
  BY DEF FinishesRun
<1>2. /\ writer \in [Session -> Work] /\ writer[s].at \in OnItsRow
      /\ runs \in [Id -> RunRow \cup {NoRow}]
  BY <1>1 DEF StoreInv, RowTypes, OnItsRow
<1>3. n \in Id /\ writer[s].who \in Who
  BY <1>2, RunIsId
<1>4. verdict \in {"completed", "failed"} /\ (verdict = "completed" => writer[s].ok)
  OBVIOUS
<1> HIDE DEF verdict
<1>5. /\ writer' \in [Session -> Work] /\ writer'[s].at = "rest" /\ \A t \in Session : t # s => writer'[t] = writer[t]
  BY <1>1, <1>2, RestIsWork
<1>6. ~robbed => /\ n \in Used(runs) /\ runs[n].status = "running" /\ runs[n].who = writer[s].who
                 /\ \A t \in Session : t # s /\ writer[t].at \in OnItsRow => writer[t].run # n
  BY <1>2, OwnRow
<1> HIDE DEF n
<1>7. /\ runs' \in [Id -> RunRow \cup {NoRow}]
      /\ \A r \in Id : runs'[r] = NoRow <=> runs[r] = NoRow
      /\ \A r \in Id : r # n => runs'[r] = runs[r]
      /\ \A r \in Id : runs[r] # NoRow => /\ runs'[r].who = runs[r].who /\ runs'[r].model = runs[r].model
                                          /\ runs'[r].profile = runs[r].profile
      /\ runs[n] # NoRow => runs'[n].status = verdict
  <2>1. CASE runs[n] = NoRow
    BY <1>1, <1>2, <2>1
  <2>2. CASE runs[n] # NoRow
    <3>1. runs[n] \in RunRow
      BY <1>2, <1>3, <2>2
    <3> DEFINE line == [runs[n] EXCEPT !.status = verdict]
    <3>2. runs' = [runs EXCEPT ![n] = line]
      BY <1>1, <1>2, <1>3, <2>2
    <3>3. /\ line \in RunRow /\ line.status = verdict /\ line.who = runs[n].who
          /\ line.model = runs[n].model /\ line.profile = runs[n].profile
      BY <1>4, <3>1 DEF RunRow
    <3> HIDE DEF line
    <3> QED
      BY <1>2, <1>3, <2>2, <3>2, <3>3, NoRowIsNone
  <2> QED
    BY <2>1, <2>2
<1>8. Used(runs') = Used(runs) /\ Used(runs)' = Used(runs) /\ Used(runs) \subseteq Id
  BY <1>7 DEF Used
<1>9. \A r \in Used(runs) : /\ r \in Id /\ runs'[r].who = runs[r].who /\ runs'[r].model = runs[r].model
                            /\ runs'[r].profile = runs[r].profile
  BY <1>7 DEF Used
<1>a. RowTypes'
  BY <1>1, <1>5, <1>7 DEF StoreInv, RowTypes
<1>b. ModelsAreOnce'
  BY <1>1 DEF StoreInv, ModelsAreOnce, Used
<1>c. WritersAreKnown'
  BY <1>1, <1>5 DEF StoreInv, WritersAreKnown
<1>d. WhoIsOnce'
  <2>1. \A t, u \in Session : writer'[t].at # "rest" /\ writer'[u].at # "rest" /\ writer'[t].who = writer'[u].who => t = u
    BY <1>1, <1>5 DEF StoreInv, WhoIsOnce
  <2>2. \A q, r \in Used(runs) : runs'[q].who = runs'[r].who => q = r
    BY <1>9 DEF StoreInv, WhoIsOnce
  <2>3. \A r \in Used(runs) : runs'[r].who <= starts
    BY <1>9 DEF StoreInv, WhoIsOnce
  <2>4. \A t \in Session, r \in Used(runs) : writer'[t].at = "model" => writer'[t].who # runs'[r].who
    BY <1>5, <1>9 DEF StoreInv, WhoIsOnce
  <2> QED
    BY <1>1, <1>8, <2>1, <2>2, <2>3, <2>4 DEF WhoIsOnce
<1>e. RunsAreFew'
  <2>1. Entering' = Entering
    BY <1>1, <1>5 DEF Entering
  <2> QED
    BY <1>1, <1>8, <2>1 DEF StoreInv, RunsAreFew
<1>f. NoOrphans'
  <2>1. \A r \in Used(runs) : runs[r].model \in Id /\ models[runs[r].model] # NoRow
    BY DEF StoreInv, NoOrphans, ListRuns
  <2>2. ListRuns' = Used(runs)
    BY <1>1, <1>8, <1>9, <2>1 DEF ListRuns
  <2> QED
    BY <1>1, <1>7, <1>8, <2>2 DEF StoreInv, NoOrphans
<1>g. RowsAreOwn' /\ ModelIsOwn'
  BY <1>1, <1>8, <1>9 DEF StoreInv, RowsAreOwn, ModelIsOwn
<1>h. CompletedIsMeasured'
  <2> SUFFICES ASSUME ~robbed, NEW r \in Used(runs), runs'[r].status = "completed"
               PROVE  results[r] # NoRow /\ Cardinality(samples[r]) = Samples
    BY <1>1, <1>8 DEF CompletedIsMeasured
  <2>1. CASE r = n
    BY <1>1, <1>4, <1>6, <1>7, <2>1, WrittenIsWhole DEF n, Used
  <2>2. CASE r # n
    BY <1>7, <1>8, <2>2 DEF StoreInv, CompletedIsMeasured
  <2> QED
    BY <2>1, <2>2
<1>i. WriterOwns' /\ RowIsWritten'
  <2> SUFFICES ASSUME ~robbed PROVE WriterOwns' /\ RowIsWritten'
    BY <1>1 DEF WriterOwns, RowIsWritten
  <2>1. \A t \in Session : t # s /\ writer[t].at \in OnItsRow => runs'[writer[t].run] = runs[writer[t].run]
    BY <1>6, <1>7, RunIsId
  <2>2. "rest" \notin OnItsRow
    BY DEF OnItsRow
  <2>3. WriterOwns'
    BY <1>1, <1>5, <2>1, <2>2 DEF StoreInv, WriterOwns, Row
  <2>4. RowIsWritten'
    BY <1>1, <1>5, <2>2 DEF StoreInv, RowIsWritten
  <2> QED
    BY <2>3, <2>4
<1>j. RemovalIsKnown'
  <2>1. Summary({remover.id})' = Summary({remover.id})
    BY <1>1 DEF Summary, Used
  <2>2. ~robbed => \A r \in Used(runs) : runs[r].status # "running" => runs'[r] = runs[r]
    BY <1>6, <1>7, <1>8
  <2> QED
    BY <1>1, <1>8, <2>1, <2>2 DEF StoreInv, RemovalIsKnown
<1>k. ExportIsKnown' /\ ExportIsWhole'
  <2>1. ~robbed => \A r \in Used(runs) : runs[r].status # "running" => runs'[r] = runs[r]
    BY <1>6, <1>7, <1>8
  <2> QED
    BY <1>1, <1>8, <2>1 DEF StoreInv, ExportIsKnown, ExportIsWhole
<1>l. RunningIsAtWork'
  <2> SUFFICES ASSUME ~robbed, NEW r \in Used(runs), runs'[r].status = "running"
               PROVE  \/ runs'[r].who \in cut
                      \/ \E t \in Session : writer'[t].at # "rest" /\ writer'[t].who = runs'[r].who
    BY <1>1, <1>8 DEF RunningIsAtWork
  <2>1. r # n
    BY <1>4, <1>6, <1>7 DEF Used
  <2>2. runs'[r] = runs[r] /\ runs[r].who # writer[s].who
    BY <1>6, <1>7, <1>8, <2>1 DEF StoreInv, WhoIsOnce
  <2>3. runs[r].who \in cut \/ \E t \in Session : writer[t].at # "rest" /\ writer[t].who = runs[r].who
    BY <2>2 DEF StoreInv, RunningIsAtWork
  <2> QED
    BY <1>5, <2>2, <2>3
<1> QED
  BY <1>a, <1>b, <1>c, <1>d, <1>e, <1>f, <1>g, <1>h, <1>i, <1>j, <1>k, <1>l DEF StoreInv

LEMMA DeletesKeeps == ASSUME StoreInv, Deletes PROVE StoreInv'
<1> DEFINE D == Doomed
           i == remover.id
           hit == exporter.hit \/ exporter.run \in D
<1>1. /\ runs' = [r \in Id |-> IF r \in D THEN NoRow ELSE runs[r]]
      /\ results' = [r \in Id |-> IF r \in D THEN NoRow ELSE results[r]]
      /\ samples' = [r \in Id |-> IF r \in D THEN {} ELSE samples[r]]
      /\ models' = IF remover.kind = "model" THEN [models EXCEPT ![i] = NoRow] ELSE models
      /\ exporter' = [exporter EXCEPT !.hit = hit]
      /\ remover' = NoRemoval
      /\ UNCHANGED <<writer, starts, cut>>
  BY DEF Deletes
<1>2. robbed' = (robbed \/ \E s \in Session :
                             /\ writer[s].at # "rest"
                             /\ \/ writer[s].run \in D
                                \/ remover.kind = "model" /\ writer[s].model = i)
  BY DEF Deletes
<1>3. ~robbed' => /\ ~robbed
                  /\ \A s \in Session : writer[s].at # "rest" => /\ writer[s].run \notin D
                                                                 /\ remover.kind = "model" => writer[s].model # i
  BY <1>2
<1>4. \A r \in Used(runs) : r \notin D /\ remover.kind = "model" => runs[r].model # i
  BY DEF Doomed, RunsOf
<1>5. hit \in BOOLEAN /\ (~hit => ~exporter.hit /\ exporter.run \notin D) /\ (exporter.hit => hit)
  BY DEF StoreInv, RowTypes, Export
<1> HIDE DEF D, hit
<1>6. /\ exporter \in Export /\ writer \in [Session -> Work] /\ models \in [Id -> Profile \cup {NoRow}]
      /\ runs \in [Id -> RunRow \cup {NoRow}] /\ results \in [Id -> Who \cup {NoRow}]
      /\ samples \in [Id -> SUBSET (Who \X (1..Samples))]
  BY DEF StoreInv, RowTypes
<1>7. /\ exporter' \in Export /\ exporter'.at = exporter.at /\ exporter'.run = exporter.run
      /\ exporter'.status = exporter.status /\ exporter'.results = exporter.results
  BY <1>1, <1>5, <1>6 DEF Export
<1>8. exporter'.hit = hit
  BY <1>1, <1>6 DEF Export
<1>9. /\ remover'.at = "rest" /\ remover'.kind = "run" /\ remover'.id = 0 /\ 0 \in 0..MaxStarts
  BY <1>1, NoRowIsNone DEF NoRemoval
<1>10. /\ \A r \in Id : r \notin D => runs'[r] = runs[r] /\ results'[r] = results[r] /\ samples'[r] = samples[r]
       /\ \A r \in Id : r \in D => runs'[r] = NoRow /\ results'[r] = NoRow /\ samples'[r] = {}
  BY <1>1
<1>11. /\ runs' \in [Id -> RunRow \cup {NoRow}] /\ results' \in [Id -> Who \cup {NoRow}]
       /\ samples' \in [Id -> SUBSET (Who \X (1..Samples))]
  BY <1>1, <1>6
<1>12. /\ models' \in [Id -> Profile \cup {NoRow}]
       /\ \A m \in Id : (remover.kind = "model" => m # i) => models'[m] = models[m]
       /\ \A m \in Id : models'[m] # NoRow => models'[m] = models[m]
  BY <1>1, <1>6
<1>13. \A r : r \in Used(runs') <=> r \in Used(runs) /\ r \notin D
  BY <1>10 DEF Used
<1>14. Used(runs)' = Used(runs') /\ \A r \in Used(runs') : r \in Used(runs) /\ r \in Id /\ r \notin D /\ runs'[r] = runs[r]
  BY <1>10, <1>13 DEF Used
<1>15. "cycle" # "rest" /\ \A a \in OnItsRow : a # "rest"
  BY DEF OnItsRow
<1>a. RowTypes'
  <2>1. robbed' \in BOOLEAN
    BY <1>2 DEF StoreInv, RowTypes
  <2> QED
    BY <1>1, <1>6, <1>7, <1>9, <1>11, <1>12, <2>1 DEF StoreInv, RowTypes
<1>b. ModelsAreOnce'
  <2>1. \A m \in Used(models') : m \in Used(models) /\ models'[m] = models[m]
    BY <1>12 DEF Used
  <2>2. Used(models)' = Used(models')
    BY DEF Used
  <2> QED
    BY <1>1, <2>1, <2>2 DEF StoreInv, ModelsAreOnce
<1>c. WritersAreKnown'
  BY <1>1 DEF StoreInv, WritersAreKnown
<1>d. WhoIsOnce'
  BY <1>1, <1>14 DEF StoreInv, WhoIsOnce
<1>e. RunsAreFew'
  <2>1. Entering' = Entering
    BY <1>1 DEF Entering
  <2> QED
    BY <1>1, <1>14, <2>1 DEF StoreInv, RunsAreFew
<1>f. NoOrphans'
  <2>1. \A r \in Used(runs) : runs[r].model \in Id /\ models[runs[r].model] # NoRow
    BY DEF StoreInv, NoOrphans, ListRuns
  <2>2. \A r \in Used(runs') : runs'[r].model \in Id /\ models'[runs'[r].model] # NoRow
    BY <1>4, <1>12, <1>14, <2>1
  <2>3. Used(runs)' = ListRuns'
    BY <1>14, <2>2 DEF ListRuns
  <2>4. \A r \in Id : (samples'[r] # {} \/ results'[r] # NoRow) => runs'[r] # NoRow
    BY <1>10 DEF StoreInv, NoOrphans
  <2> QED
    BY <2>3, <2>4 DEF NoOrphans
<1>g. RowsAreOwn' /\ CompletedIsMeasured'
  BY <1>3, <1>10, <1>14 DEF StoreInv, RowsAreOwn, CompletedIsMeasured
<1>h. ModelIsOwn'
  <2> SUFFICES ASSUME ~robbed', NEW r \in Used(runs') PROVE models'[runs'[r].model] = runs'[r].profile
    BY <1>14 DEF ModelIsOwn
  <2>1. runs'[r] = runs[r] /\ r \in Used(runs) /\ (remover.kind = "model" => runs[r].model # i)
    BY <1>4, <1>14
  <2>2. runs[r].model \in Id
    BY <2>1 DEF StoreInv, NoOrphans, ListRuns
  <2>3. models[runs[r].model] = runs[r].profile
    BY <1>3, <2>1 DEF StoreInv, ModelIsOwn
  <2> QED
    BY <1>12, <2>1, <2>2, <2>3
<1>i. WriterOwns'
  <2> SUFFICES ASSUME ~robbed', NEW t \in Session
               PROVE  /\ writer[t].at # "rest" => models'[writer[t].model] = writer[t].profile
                      /\ writer[t].at \in OnItsRow => runs'[writer[t].run] = Row(t)
    BY <1>1 DEF WriterOwns, Row
  <2>1. writer[t].at # "rest" => models'[writer[t].model] = writer[t].profile
    BY <1>3, <1>12 DEF StoreInv, WriterOwns, WritersAreKnown
  <2>2. writer[t].at \in OnItsRow => runs'[writer[t].run] = Row(t)
    BY <1>3, <1>10, <1>15, RunIsId DEF StoreInv, WriterOwns
  <2> QED
    BY <2>1, <2>2
<1>j. RowIsWritten'
  <2> SUFFICES ASSUME ~robbed', NEW t \in Session, writer[t].at \in OnItsRow
               PROVE  /\ samples'[writer[t].run] =
                           IF writer[t].at = "cycle" THEN {} ELSE {writer[t].who} \X (writer[t].left + 1 .. Samples)
                      /\ writer[t].at \in {"result", "finish"} => writer[t].left = 0
                      /\ writer[t].at # "finish" => results'[writer[t].run] = NoRow
                      /\ writer[t].at = "finish" /\ writer[t].ok => results'[writer[t].run] # NoRow
                      /\ writer[t].ok => writer[t].measured
    BY <1>1 DEF RowIsWritten
  <2>1. writer[t].run \in Id /\ writer[t].run \notin D /\ ~robbed
    BY <1>3, <1>15, RunIsId
  <2>2. samples'[writer[t].run] = samples[writer[t].run] /\ results'[writer[t].run] = results[writer[t].run]
    BY <1>10, <2>1
  <2>3. /\ samples[writer[t].run] =
             IF writer[t].at = "cycle" THEN {} ELSE {writer[t].who} \X (writer[t].left + 1 .. Samples)
        /\ writer[t].at \in {"result", "finish"} => writer[t].left = 0
        /\ writer[t].at # "finish" => results[writer[t].run] = NoRow
        /\ writer[t].at = "finish" /\ writer[t].ok => results[writer[t].run] # NoRow
        /\ writer[t].ok => writer[t].measured
    BY <2>1 DEF StoreInv, RowIsWritten
  <2> QED
    BY <2>2, <2>3
<1>k. RemovalIsKnown'
  BY <1>9 DEF RemovalIsKnown
<1>l. ExportIsKnown'
  <2> SUFFICES ASSUME exporter.at # "rest"
               PROVE  /\ exporter.run \in Id
                      /\ ~robbed' /\ exporter.status = "completed" /\ ~hit
                           => exporter.run \in Used(runs') /\ runs'[exporter.run].status = "completed"
    BY <1>7, <1>8, <1>14 DEF ExportIsKnown
  <2>1. exporter.run \in Id
    BY DEF StoreInv, ExportIsKnown
  <2>2. ASSUME ~robbed', exporter.status = "completed", ~hit
        PROVE  exporter.run \in Used(runs') /\ runs'[exporter.run].status = "completed"
    <3>1. exporter.run \in Used(runs) /\ runs[exporter.run].status = "completed" /\ exporter.run \notin D
      BY <1>3, <1>5, <2>2 DEF StoreInv, ExportIsKnown
    <3> QED
      BY <1>13, <1>14, <3>1
  <2> QED
    BY <2>1, <2>2
<1>m. ExportIsWhole'
  <2> SUFFICES ASSUME ~robbed', exporter.at = "results", exporter.status = "completed"
               PROVE  exporter.results \/ hit
    BY <1>7, <1>8 DEF ExportIsWhole
  <2>1. exporter.results \/ exporter.hit
    BY <1>3 DEF StoreInv, ExportIsWhole
  <2> QED
    BY <1>5, <2>1
<1>n. RunningIsAtWork'
  BY <1>1, <1>3, <1>14 DEF StoreInv, RunningIsAtWork
<1> QED
  BY <1>a, <1>b, <1>c, <1>d, <1>e, <1>f, <1>g, <1>h, <1>i, <1>j, <1>k, <1>l, <1>m, <1>n DEF StoreInv

LEMMA StoreStarts == StoreInit => StoreInv
<1> SUFFICES ASSUME StoreInit PROVE StoreInv
  OBVIOUS
<1> USE DEF StoreInit
<1>1. Used(models) = {} /\ Used(runs) = {}
  BY DEF Used
<1>2. RowTypes
  <2>1. NoExport \in Export /\ Rest \in Work
    BY RestIsWork, NoRowIsNone DEF NoExport, Export
  <2>2. NoRemoval.at = "rest" /\ NoRemoval.kind = "run" /\ NoRemoval.id = 0
    BY DEF NoRemoval
  <2>3. 0 \in 0..MaxStarts
    BY NoRowIsNone
  <2>4. /\ models \in [Id -> Profile \cup {NoRow}] /\ runs \in [Id -> RunRow \cup {NoRow}]
        /\ results \in [Id -> Who \cup {NoRow}] /\ samples \in [Id -> SUBSET (Who \X (1..Samples))]
        /\ writer \in [Session -> Work]
    BY <2>1
  <2>5. /\ remover.at \in {"rest", "announced"} /\ remover.kind \in {"run", "model"} /\ remover.id \in 0..MaxStarts
        /\ exporter \in Export
    BY <2>1, <2>2, <2>3
  <2>6. starts \in 0..MaxStarts /\ cut \in SUBSET Who /\ robbed \in BOOLEAN
    BY <2>3
  <2> QED
    BY <2>4, <2>5, <2>6 DEF RowTypes
<1>3. \A s \in Session : writer[s].at = "rest"
  BY RestIsWork
<1>4. "rest" \notin OnItsRow
  BY DEF OnItsRow
<1>5. ModelsAreOnce /\ WritersAreKnown /\ WhoIsOnce /\ RunsAreFew
  BY <1>1, <1>3 DEF ModelsAreOnce, WritersAreKnown, WhoIsOnce, RunsAreFew
<1>6. NoOrphans
  BY <1>1 DEF NoOrphans, ListRuns
<1>7. WriterOwns /\ RowIsWritten
  BY <1>3, <1>4 DEF WriterOwns, RowIsWritten
<1>8. RowsAreOwn /\ ModelIsOwn /\ CompletedIsMeasured /\ RunningIsAtWork
  BY <1>1 DEF RowsAreOwn, ModelIsOwn, CompletedIsMeasured, RunningIsAtWork
<1>9. RemovalIsKnown /\ ExportIsKnown /\ ExportIsWhole
  BY DEF RemovalIsKnown, ExportIsKnown, ExportIsWhole, NoRemoval, NoExport
<1> QED
  BY <1>2, <1>5, <1>6, <1>7, <1>8, <1>9 DEF StoreInv

LEMMA StoreStepsKeep == ASSUME StoreInv, [StoreNext]_storeVars PROVE StoreInv'
<1>1. CASE UNCHANGED storeVars
  <2> USE <1>1 DEF storeVars
  <2>1. RowTypes'
    BY DEF StoreInv, RowTypes
  <2> QED
    BY <2>1, TablesStay, WritersStay, RemovalStays, ExportStays DEF StoreInv
<1>2. CASE StoreNext
  BY <1>2, UpsertsModelKeeps, InsertsRunKeeps, CycleEndsKeeps, InsertsSampleKeeps, SamplesDoneKeeps,
     InsertsResultKeeps, FinishesRunKeeps, CutShortKeeps, AnnouncesKeeps, DeclinesKeeps, DeletesKeeps,
     ExportsRunKeeps, ExportsResultKeeps, ExportedKeeps DEF StoreNext, WriterStep
<1> QED
  BY <1>1, <1>2

\* The inductive invariant of the rows.
THEOREM StoreHolds == StoreSpec => []StoreInv
<1>1. StoreInit => StoreInv
  BY StoreStarts
<1>2. StoreInv /\ [StoreNext]_storeVars => StoreInv'
  BY StoreStepsKeep
<1> QED
  BY <1>1, <1>2, PTL DEF StoreSpec

\* However many programs measure, delete and export in one store, for any profiles and
\* any number of samples: rows hang together and on those that measured them, though
\* ids are given out again, and what is announced or exported is what is there.
THEOREM RowsStayRight == StoreSpec => []RowsAreRight
<1>1. StoreInv => RowsAreRight
  <2> SUFFICES ASSUME StoreInv PROVE RowsAreRight
    OBVIOUS
  <2>1. StoreTypeOK
    <3>1. \A s \in Session : writer[s].at \in {"rest", "model", "cycle", "samples", "result", "finish"}
      BY DEF StoreInv, RowTypes, Work, OnItsRow
    <3>2. \A r \in Used(runs) : runs[r] \in RunRow
      BY DEF StoreInv, RowTypes, Used
    <3>3. exporter.at \in {"rest", "run", "results"}
      BY DEF StoreInv, RowTypes, Export
    <3> QED
      BY <3>1, <3>2, <3>3 DEF StoreInv, RowTypes, ModelsAreOnce, StoreTypeOK
  <2>2. AnnouncedIsDeleted
    <3> SUFFICES ASSUME ~robbed, remover.at = "announced", remover.ended
                 PROVE  Summary(Doomed) = remover.seen
      BY DEF AnnouncedIsDeleted
    <3>1. /\ remover.kind = "run" /\ remover.id \in Used(runs)
          /\ Summary({remover.id}) = remover.seen
      BY DEF StoreInv, RemovalIsKnown
    <3>2. Doomed = {remover.id}
      BY <3>1 DEF Doomed
    <3> QED
      BY <3>1, <3>2
  <2> QED
    BY <2>1, <2>2 DEF StoreInv, RowsAreRight
<1> QED
  BY <1>1, StoreHolds, PTL

\* The verdict on a run that is there is never changed by anybody, whatever is deleted
\* and inserted under its id, unless a row was deleted under a session at work.
THEOREM VerdictsAreFinal == StoreSpec => VerdictIsFinal
<1> DEFINE Final == ~robbed' => \A r \in Id : runs[r] # NoRow /\ runs'[r] # NoRow /\ runs[r].status # "running"
                                   => runs'[r].status = runs[r].status
<1>1. ASSUME StoreInv, StoreNext PROVE Final
  <2>1. CASE runs' = runs
    BY <2>1
  <2>2. ASSUME NEW s \in Session, InsertsRun(s) PROVE Final
    <3>1. /\ runs' = [runs EXCEPT ![NextId(runs)] = Row(s)] /\ writer[s].at = "model"
      BY <2>2 DEF InsertsRun
    <3>2. NextId(runs) \notin Used(runs) /\ NextId(runs) \in Id
      BY <1>1, <3>1, IdForRun
    <3>3. runs \in [Id -> RunRow \cup {NoRow}]
      BY <1>1 DEF StoreInv, RowTypes
    <3> QED
      BY <3>1, <3>2, <3>3 DEF Used
  <2>3. ASSUME NEW s \in Session, FinishesRun(s) PROVE Final
    <3>1. /\ writer[s].at = "finish" /\ robbed' = robbed
          /\ \/ runs' = runs
             \/ \E v : runs' = [runs EXCEPT ![writer[s].run].status = v]
      BY <2>3 DEF FinishesRun
    <3>2. ~robbed => runs[writer[s].run].status = "running"
      BY <1>1, <3>1, OwnRow DEF OnItsRow
    <3>3. runs \in [Id -> RunRow \cup {NoRow}]
      BY <1>1 DEF StoreInv, RowTypes
    <3> QED
      BY <3>1, <3>2, <3>3
  <2>4. ASSUME Deletes PROVE Final
    <3>1. \A r \in Id : runs'[r] \in {NoRow, runs[r]}
      BY <2>4, SMTT(30) DEF Deletes
    <3> QED
      BY <3>1
  <2>5. runs' = runs \/ Deletes \/ \E s \in Session : InsertsRun(s) \/ FinishesRun(s)
    BY <1>1 DEF StoreNext, WriterStep, UpsertsModel, CycleEnds, InsertsSample, SamplesDone, InsertsResult,
       WriteFails, Breaks, Announces, Declines, ExportsRun, ExportsResult, Exported
  <2> QED
    BY <2>1, <2>2, <2>3, <2>4, <2>5
<1>2. StoreInv /\ [StoreNext]_storeVars => [Final]_storeVars
  BY <1>1
<1>3. VerdictIsFinal <=> [][Final]_storeVars
  BY DEF VerdictIsFinal
<1> QED
  BY <1>2, <1>3, StoreHolds, PTL DEF StoreSpec

-----------------------------------------------------------------------------
(* The schema of the store *)

Statement == ({"create", "fill", "drop", "rename", "ensure", "addColumn"} \X TableName)
               \cup ({"version"} \X (1..4))
Opening == [at : {"closed", "migrating", "failed", "open"}, by : 0..4, todo : Seq(Statement)]

SchemaTypes ==
  /\ base \in [TableName -> Content] /\ copy \in [Measured -> Content]
  /\ column \in BOOLEAN /\ version \in 0..4
  /\ opener \in [Opener -> Opening]
  /\ kills \in 0..MaxKills /\ mixed \in BOOLEAN
  /\ kept \in {{}, Measured, TableName}

\* The scripts, and what is left of one after its first k statements.
CopyAll == CopyScript \o SetVersion(1)
FreshAll == FreshScript \o SetVersion(1)
Remains(S, k) == SubSeq(S, k + 1, Len(S))

AddTodo == {<< <<"addColumn", "runs">>, <<"version", 2>> >>, << <<"version", 2>> >>}
ChatTodo == {<< <<"ensure", "chat_sessions">>, <<"ensure", "chat_messages">>, <<"version", 3>> >>,
             << <<"ensure", "chat_messages">>, <<"version", 3>> >>, << <<"version", 3>> >>}
EvalTodo == {<< <<"ensure", "eval_template_results">>, <<"version", 4>> >>, << <<"version", 4>> >>}

Copies(p, k) == opener[p].at = "migrating" /\ opener[p].by = 1 /\ opener[p].todo = Remains(CopyAll, k)
Freshens(p, k) == opener[p].at = "migrating" /\ opener[p].by = 1 /\ opener[p].todo = Remains(FreshAll, k)

\* An opener has the rest of the script to the version it goes by.
TodoIsKnown ==
  \A p \in Opener :
    /\ opener[p].at # "migrating" => opener[p].todo = <<>>
    /\ opener[p].at = "migrating" /\ opener[p].todo # <<>> =>
         \/ \E k \in 0..20 : Copies(p, k)
         \/ \E k \in 0..5 : Freshens(p, k)
         \/ opener[p].by = 2 /\ opener[p].todo \in AddTodo
         \/ opener[p].by = 3 /\ opener[p].todo \in ChatTodo
         \/ opener[p].by = 4 /\ opener[p].todo \in EvalTodo

\* The places of a table among those that are created and renamed, and filled.
Place == [t \in Measured |-> CASE t = "models" -> 1 [] t = "sweeps" -> 2 [] t = "runs" -> 3
                               [] t = "results" -> 4 [] t = "samples" -> 5]
FillPlace == [t \in Measured |-> CASE t = "models" -> 1 [] t = "sweeps" -> 2 [] t = "results" -> 3
                                   [] t = "samples" -> 4 [] t = "runs" -> 5]
Owned(t, k) == Place[t] <= k /\ k < 15 + Place[t]
Filled(t, k) == 5 + FillPlace[t] <= k /\ k < 15 + Place[t]

Owns(p, t) == \E k \in 0..20 : Copies(p, k) /\ Owned(t, k)
HasFilled(p, t) == \E k \in 0..20 : Copies(p, k) /\ Filled(t, k)

\* The copy of a table belongs to the one opener that has created it and not yet renamed it.
CopiesAreOwned ==
  \A p \in Opener, t \in Measured : Owns(p, t) =>
    copy[t] # "absent" /\ \A q \in Opener : Owns(q, t) => q = p

\* A copy that was filled keeps the old rows until it is renamed.
CopiesAreFilled ==
  kept = Measured => \A p \in Opener, t \in Measured : HasFilled(p, t) => copy[t] = "rows"

\* An opener has not finished the migration to version 1, which is the version then; and
\* nobody else is in the store, unless they got mixed.
Early(p) == opener[p].at = "migrating" /\ (opener[p].by = 0 \/ (opener[p].by = 1 /\ opener[p].todo # <<>>))
EarlyIsAlone ==
  ~mixed => \A p \in Opener :
    /\ opener[p].at \in {"migrating", "open"} => (Early(p) <=> version = 0)
    /\ Early(p) => \A q \in Opener \ {p} : opener[q].at \notin {"migrating", "open"}

\* The store before that migration; after k statements of either script.
Old == kept = Measured /\ base = [t \in TableName |-> IF t \in Measured THEN "rows" ELSE "absent"]
New == kept = {} /\ base = [t \in TableName |-> "absent"]
NoCopy == copy = [t \in Measured |-> "absent"]
CopyState(k) ==
  /\ kept = Measured
  /\ \A t \in TableName \ Measured : base[t] = "absent"
  /\ \A t \in Measured :
       /\ base[t] = IF 16 - Place[t] <= k /\ k < 15 + Place[t] THEN "absent" ELSE "rows"
       /\ copy[t] = IF ~Owned(t, k) THEN "absent" ELSE IF Filled(t, k) THEN "rows" ELSE "empty"
FreshState(k) ==
  /\ kept = {} /\ NoCopy
  /\ \A t \in TableName : base[t] = IF t \in Measured /\ Place[t] <= k THEN "empty" ELSE "absent"

InScript(p) == opener[p].at = "migrating" /\ opener[p].by = 1 /\ opener[p].todo # <<>>
FirstIsWhole ==
  ~mixed =>
    /\ version = 0 => ~column
    /\ \A p \in Opener : InScript(p) => \/ \E k \in 0..20 : Copies(p, k) /\ CopyState(k)
                                        \/ \E k \in 0..5 : Freshens(p, k) /\ FreshState(k)
    /\ (\A p \in Opener : ~InScript(p)) => NoCopy /\ (version = 0 => Old \/ New)

\* After it the tables stay, with the rows that they have held.
MeasuredStay ==
  ~mixed /\ version # 0 =>
    /\ NoCopy /\ \A t \in Measured : base[t] # "absent"
    /\ \A t \in kept : base[t] = "rows"

\* What a later script adds is there, or is still to be done.
ThereOr(p, there, s) == there \/ s \in ToSet(opener[p].todo)
LaterIsDone ==
  ~mixed => \A p \in Opener : opener[p].at = "migrating" =>
    /\ opener[p].by >= 2 => ThereOr(p, column, <<"addColumn", "runs">>)
    /\ opener[p].by >= 3 => /\ ThereOr(p, base["chat_sessions"] # "absent", <<"ensure", "chat_sessions">>)
                            /\ ThereOr(p, base["chat_messages"] # "absent", <<"ensure", "chat_messages">>)
    /\ opener[p].by >= 4 => ThereOr(p, base["eval_template_results"] # "absent", <<"ensure", "eval_template_results">>)

SchemaInv ==
  /\ SchemaTypes /\ TodoIsKnown /\ CopiesAreOwned /\ CopiesAreFilled /\ OldRowsExist
  /\ EarlyIsAlone /\ FirstIsWhole /\ MeasuredStay /\ LaterIsDone /\ VersionIsTrue

-----------------------------------------------------------------------------
(* Scripts *)

LEMMA TablesAre ==
  /\ Measured = {"models", "sweeps", "runs", "results", "samples"}
  /\ TableName = Measured \cup {"chat_sessions", "chat_messages", "eval_template_results"}
<1>1. ToSet(Order) = {"models", "sweeps", "runs", "results", "samples"}
  <2>1. DOMAIN Order = {1, 2, 3, 4, 5}
    BY DEF Order
  <2> QED
    BY <2>1 DEF Order, ToSet
<1>2. ToSet(Later) = {"chat_sessions", "chat_messages", "eval_template_results"}
  <2>1. DOMAIN Later = {1, 2, 3}
    BY DEF Later
  <2> QED
    BY <2>1 DEF Later, ToSet
<1> QED
  BY <1>1, <1>2 DEF Measured, TableName

LEMMA PlacesAre ==
  /\ Place["models"] = 1 /\ Place["sweeps"] = 2 /\ Place["runs"] = 3
  /\ Place["results"] = 4 /\ Place["samples"] = 5
  /\ FillPlace["models"] = 1 /\ FillPlace["sweeps"] = 2 /\ FillPlace["runs"] = 5
  /\ FillPlace["results"] = 3 /\ FillPlace["samples"] = 4
BY TablesAre DEF Place, FillPlace

\* What is left of a script.
IsRest(R, S, k) ==
  /\ R \in Seq(Statement) /\ Len(R) = Len(S) - k
  /\ k = Len(S) <=> R = <<>>
  /\ k < Len(S) => Head(R) = S[k + 1] /\ Tail(R) = Remains(S, k + 1)
  /\ ToSet(R) = {S[i] : i \in (k + 1)..Len(S)}

LEMMA RestIs ==
  ASSUME NEW S \in Seq(Statement), NEW k \in 0..Len(S)
  PROVE  IsRest(Remains(S, k), S, k)
<1>1. Remains(S, k) \in Seq(Statement) /\ Len(Remains(S, k)) = Len(S) - k /\ DOMAIN Remains(S, k) = 1..(Len(S) - k)
  BY DEF Remains
<1>2. \A i \in 1..(Len(S) - k) : Remains(S, k)[i] = S[i + k]
  BY DEF Remains
<1>4. k = Len(S) <=> Remains(S, k) = <<>>
  BY <1>1
<1>5. ASSUME k < Len(S) PROVE Head(Remains(S, k)) = S[k + 1] /\ Tail(Remains(S, k)) = Remains(S, k + 1)
  BY <1>5 DEF Remains
<1>6. ToSet(Remains(S, k)) = {S[i] : i \in (k + 1)..Len(S)}
  <2>1. \A i \in (k + 1)..Len(S) : i - k \in 1..(Len(S) - k) /\ Remains(S, k)[i - k] = S[i]
    BY <1>2
  <2>2. \A i \in 1..(Len(S) - k) : i + k \in (k + 1)..Len(S) /\ Remains(S, k)[i] = S[i + k]
    BY <1>2
  <2>3. ToSet(Remains(S, k)) = {Remains(S, k)[i] : i \in 1..(Len(S) - k)}
    BY <1>1 DEF ToSet
  <2> DEFINE A == {Remains(S, k)[i] : i \in 1..(Len(S) - k)}
             B == {S[i] : i \in (k + 1)..Len(S)}
  <2>4. A \subseteq B
    BY <2>2
  <2>5. B \subseteq A
    BY <2>1
  <2> QED
    BY <2>3, <2>4, <2>5
<1> QED
  BY <1>1, <1>4, <1>5, <1>6 DEF IsRest

LEMMA RestOfAll ==
  ASSUME NEW S \in Seq(Statement)
  PROVE  Remains(S, 0) = S
BY DEF Remains

LEMMA JoinIs ==
  ASSUME NEW R \in Seq(Statement), NEW S \in Seq(Statement)
  PROVE  /\ R \o S \in Seq(Statement) /\ Len(R \o S) = Len(R) + Len(S)
         /\ \A i \in 1..Len(R) : (R \o S)[i] = R[i]
         /\ \A i \in 1..Len(S) : (R \o S)[i + Len(R)] = S[i]
OBVIOUS

\* Five parts of five, one after the other; the last has one.
Five(A, B, C, D, E) == A \o B \o C \o D \o E
IsFive(W, A, B, C, D, E) ==
  /\ W \in Seq(Statement) /\ Len(W) = 21 /\ W[21] = E[1]
  /\ \A i \in 1..5 : W[i] = A[i] /\ W[i + 5] = B[i] /\ W[i + 10] = C[i] /\ W[i + 15] = D[i]

LEMMA FiveJoined ==
  ASSUME NEW A \in Seq(Statement), NEW B \in Seq(Statement), NEW C \in Seq(Statement),
         NEW D \in Seq(Statement), NEW E \in Seq(Statement),
         Len(A) = 5, Len(B) = 5, Len(C) = 5, Len(D) = 5, Len(E) = 1
  PROVE  IsFive(Five(A, B, C, D, E), A, B, C, D, E)
<1> DEFINE W == Five(A, B, C, D, E)
           AB == A \o B
           ABC == AB \o C
           ABCD == ABC \o D
<1>1. /\ AB \in Seq(Statement) /\ Len(AB) = 10
      /\ \A i \in 1..5 : AB[i] = A[i] /\ AB[i + 5] = B[i]
  <2>1. /\ A \o B \in Seq(Statement) /\ Len(A \o B) = Len(A) + Len(B)
        /\ \A i \in 1..Len(A) : (A \o B)[i] = A[i]
        /\ \A i \in 1..Len(B) : (A \o B)[i + Len(A)] = B[i]
    BY JoinIs
  <2> HIDE DEF AB
  <2>2. AB = A \o B
    BY DEF AB
  <2> QED
    BY <2>1, <2>2
<1> HIDE DEF AB
<1>2. /\ ABC \in Seq(Statement) /\ Len(ABC) = 15
      /\ \A i \in 1..10 : ABC[i] = AB[i]
      /\ \A i \in 1..5 : ABC[i + 10] = C[i]
  <2>1. /\ ABC \in Seq(Statement) /\ Len(ABC) = Len(AB) + Len(C)
        /\ \A i \in 1..Len(AB) : ABC[i] = AB[i]
        /\ \A i \in 1..Len(C) : ABC[i + Len(AB)] = C[i]
    BY <1>1, JoinIs, ZenonT(40)
  <2> HIDE DEF ABC
  <2> QED
    BY <2>1, <1>1
<1> HIDE DEF ABC
<1>3. /\ ABCD \in Seq(Statement) /\ Len(ABCD) = 20
      /\ \A i \in 1..15 : ABCD[i] = ABC[i]
      /\ \A i \in 1..5 : ABCD[i + 15] = D[i]
  <2>1. /\ ABCD \in Seq(Statement) /\ Len(ABCD) = Len(ABC) + Len(D)
        /\ \A i \in 1..Len(ABC) : ABCD[i] = ABC[i]
        /\ \A i \in 1..Len(D) : ABCD[i + Len(ABC)] = D[i]
    BY <1>2, JoinIs, ZenonT(40)
  <2> HIDE DEF ABCD
  <2> QED
    BY <2>1, <1>2
<1>4. W = ABCD \o E
  BY DEF Five, AB, ABC
<1> HIDE DEF ABCD, W
<1>5. /\ W \in Seq(Statement) /\ Len(W) = 21
      /\ \A i \in 1..20 : W[i] = ABCD[i]
      /\ W[21] = E[1]
  <2>1. /\ ABCD \o E \in Seq(Statement) /\ Len(ABCD \o E) = Len(ABCD) + Len(E)
        /\ \A i \in 1..Len(ABCD) : (ABCD \o E)[i] = ABCD[i]
        /\ \A i \in 1..Len(E) : (ABCD \o E)[i + Len(ABCD)] = E[i]
    BY <1>3, JoinIs, ZenonT(40)
  <2>2. 1 \in 1..Len(E) /\ 1 + Len(ABCD) = 21
    BY <1>3
  <2>3. /\ W \in Seq(Statement) /\ Len(W) = 21
        /\ \A i \in 1..Len(ABCD) : W[i] = ABCD[i]
    <3>1. W \in Seq(Statement)
      BY <2>1, <1>4
    <3>2. Len(W) = Len(ABCD) + Len(E)
      BY <2>1, <1>4
    <3>3. \A i \in 1..Len(ABCD) : W[i] = ABCD[i]
      BY <2>1, <1>4
    <3> QED
      BY <3>1, <3>2, <3>3, <1>3
  <2>4. W[21] = E[1]
    BY <2>1, <2>2, <1>4
  <2> QED
    BY <2>3, <2>4, <1>3
<1>6. ASSUME NEW i \in 1..5
      PROVE  /\ W[i] = A[i] /\ W[i + 5] = B[i]
             /\ W[i + 10] = C[i] /\ W[i + 15] = D[i]
  <2>0. /\ i \in 1..10 /\ i \in 1..15 /\ i \in 1..20
        /\ i + 5 \in 1..10 /\ i + 5 \in 1..15 /\ i + 5 \in 1..20
        /\ i + 10 \in 1..15 /\ i + 10 \in 1..20 /\ i + 15 \in 1..20
    OBVIOUS
  <2>1. W[i] = AB[i] /\ W[i + 5] = AB[i + 5]
    <3>1. ABC[i] = AB[i] /\ ABC[i + 5] = AB[i + 5]
      BY <2>0, <1>2
    <3>2. ABCD[i] = ABC[i] /\ ABCD[i + 5] = ABC[i + 5]
      BY <2>0, <1>3
    <3>3. W[i] = ABCD[i] /\ W[i + 5] = ABCD[i + 5]
      BY <2>0, <1>5
    <3> QED
      BY <3>1, <3>2, <3>3
  <2>2. W[i + 10] = ABC[i + 10]
    <3>1. ABCD[i + 10] = ABC[i + 10]
      BY <2>0, <1>3
    <3>2. W[i + 10] = ABCD[i + 10]
      BY <2>0, <1>5
    <3> QED
      BY <3>1, <3>2
  <2>3. W[i + 15] = ABCD[i + 15]
    BY <2>0, <1>5
  <2> QED
    BY <2>1, <2>2, <2>3, <1>1, <1>2, <1>3
<1> QED
  BY <1>5, <1>6 DEF W, IsFive

LEMMA ReverseIs ==
  ASSUME NEW S \in Seq(TableName)
  PROVE  /\ Reverse(S) \in Seq(TableName) /\ Len(Reverse(S)) = Len(S)
         /\ \A i \in 1..Len(S) : Reverse(S)[i] = S[(Len(S) + 1) - i]
<1>1. \A i \in 1..Len(S) : (Len(S) - i) + 1 \in 1..Len(S) /\ (Len(S) - i) + 1 = (Len(S) + 1) - i
  OBVIOUS
<1>2. \A i \in 1..Len(S) : S[(Len(S) - i) + 1] \in TableName
  BY <1>1
<1> QED
  BY <1>1, <1>2 DEF Reverse

LEMMA EachIs ==
  ASSUME NEW o \in {"create", "fill", "drop", "rename", "ensure", "addColumn"},
         NEW tables \in Seq(TableName)
  PROVE  /\ Each(o, tables) \in Seq(Statement) /\ Len(Each(o, tables)) = Len(tables)
         /\ \A i \in 1..Len(tables) : Each(o, tables)[i] = <<o, tables[i]>>
BY DEF Each, Statement

\* The statements of the scripts, by their places.
LEMMA CopyAllIs ==
  /\ CopyAll \in Seq(Statement) /\ Len(CopyAll) = 21
  /\ CopyAll[21] = <<"version", 1>>
  /\ \A k \in 0..4 : \E t \in Measured : CopyAll[k + 1] = <<"create", t>> /\ Place[t] = k + 1
  /\ \A k \in 5..9 : \E t \in Measured : CopyAll[k + 1] = <<"fill", t>> /\ FillPlace[t] = k - 4
  /\ \A k \in 10..14 : \E t \in Measured : CopyAll[k + 1] = <<"drop", t>> /\ Place[t] = 15 - k
  /\ \A k \in 15..19 : \E t \in Measured : CopyAll[k + 1] = <<"rename", t>> /\ Place[t] = k - 14
<1> DEFINE FillOrder == <<"models", "sweeps", "results", "samples", "runs">>
           A == Each("create", Order)
           B == Each("fill", FillOrder)
           C == Each("drop", Reverse(Order))
           D == Each("rename", Order)
           E == SetVersion(1)
<1>1. Order \in Seq(TableName) /\ FillOrder \in Seq(TableName) /\ Len(Order) = 5 /\ Len(FillOrder) = 5
  BY TablesAre DEF Order
<1>2. Reverse(Order) \in Seq(TableName) /\ Len(Reverse(Order)) = 5 /\ \A i \in 1..5 : Reverse(Order)[i] = Order[6 - i]
  <2> HIDE DEF FillOrder
  <2>1. /\ Reverse(Order) \in Seq(TableName) /\ Len(Reverse(Order)) = Len(Order)
        /\ \A i \in 1..Len(Order) : Reverse(Order)[i] = Order[(Len(Order) + 1) - i]
    BY <1>1, ReverseIs
  <2> QED
    BY <1>1, <2>1
<1>3. /\ A \in Seq(Statement) /\ Len(A) = 5 /\ \A i \in 1..5 : A[i] = <<"create", Order[i]>>
      /\ D \in Seq(Statement) /\ Len(D) = 5 /\ \A i \in 1..5 : D[i] = <<"rename", Order[i]>>
  <2> HIDE DEF FillOrder
  <2>1. A \in Seq(Statement) /\ Len(A) = Len(Order) /\ \A i \in 1..Len(Order) : A[i] = <<"create", Order[i]>>
    BY <1>1, EachIs
  <2>2. D \in Seq(Statement) /\ Len(D) = Len(Order) /\ \A i \in 1..Len(Order) : D[i] = <<"rename", Order[i]>>
    BY <1>1, EachIs
  <2> QED
    BY <1>1, <2>1, <2>2
<1>4. B \in Seq(Statement) /\ Len(B) = 5 /\ \A i \in 1..5 : B[i] = <<"fill", FillOrder[i]>>
  BY <1>1, EachIs
<1>5. C \in Seq(Statement) /\ Len(C) = 5 /\ \A i \in 1..5 : C[i] = <<"drop", Order[6 - i]>>
  BY <1>2, EachIs
<1>6. E \in Seq(Statement) /\ Len(E) = 1 /\ E[1] = <<"version", 1>>
  BY DEF SetVersion, Statement
<1>7. CopyAll = A \o B \o C \o D \o E
  BY DEF CopyAll, CopyScript
<1> HIDE DEF A, B, C, D, E
<1>8. /\ CopyAll \in Seq(Statement) /\ Len(CopyAll) = 21 /\ CopyAll[21] = E[1]
      /\ \A i \in 1..5 : /\ CopyAll[i] = A[i] /\ CopyAll[i + 5] = B[i]
                         /\ CopyAll[i + 10] = C[i] /\ CopyAll[i + 15] = D[i]
  <2>1. /\ A \in Seq(Statement) /\ B \in Seq(Statement) /\ C \in Seq(Statement)
        /\ D \in Seq(Statement) /\ E \in Seq(Statement)
    BY <1>3, <1>4, <1>5, <1>6
  <2>2. Len(A) = 5 /\ Len(B) = 5 /\ Len(C) = 5 /\ Len(D) = 5 /\ Len(E) = 1
    BY <1>3, <1>4, <1>5, <1>6
  <2>3. IsFive(Five(A, B, C, D, E), A, B, C, D, E)
    BY <2>1, <2>2, FiveJoined, Zenon
  <2>4. CopyAll = Five(A, B, C, D, E)
    BY <1>7 DEF Five
  <2> QED
    BY <2>3, <2>4 DEF IsFive
<1>9. /\ \A i \in 1..5 : Order[i] \in Measured /\ Place[Order[i]] = i
      /\ \A i \in 1..5 : FillOrder[i] \in Measured /\ FillPlace[FillOrder[i]] = i
  BY PlacesAre, TablesAre DEF Order
<1> HIDE DEF FillOrder
<1>10. ASSUME NEW k \in 0..4 PROVE \E t \in Measured : CopyAll[k + 1] = <<"create", t>> /\ Place[t] = k + 1
  <2>1. k + 1 \in 1..5
    OBVIOUS
  <2>2. CopyAll[k + 1] = <<"create", Order[k + 1]>>
    BY <2>1, <1>3, <1>8
  <2> QED
    BY <2>1, <2>2, <1>9
<1>11. ASSUME NEW k \in 5..9 PROVE \E t \in Measured : CopyAll[k + 1] = <<"fill", t>> /\ FillPlace[t] = k - 4
  <2>1. k - 4 \in 1..5 /\ k + 1 = (k - 4) + 5
    OBVIOUS
  <2>2. CopyAll[k + 1] = <<"fill", FillOrder[k - 4]>>
    BY <2>1, <1>4, <1>8
  <2> QED
    BY <2>1, <2>2, <1>9
<1>12. ASSUME NEW k \in 10..14 PROVE \E t \in Measured : CopyAll[k + 1] = <<"drop", t>> /\ Place[t] = 15 - k
  <2>1. k - 9 \in 1..5 /\ k + 1 = (k - 9) + 10 /\ 6 - (k - 9) = 15 - k /\ 15 - k \in 1..5
    OBVIOUS
  <2>2. CopyAll[k + 1] = <<"drop", Order[15 - k]>>
    <3>1. CopyAll[(k - 9) + 10] = C[k - 9]
      BY <2>1, <1>8
    <3>2. C[k - 9] = <<"drop", Order[6 - (k - 9)]>>
      BY <2>1, <1>5
    <3> QED
      BY <2>1, <3>1, <3>2
  <2> QED
    BY <2>1, <2>2, <1>9
<1>13. ASSUME NEW k \in 15..19 PROVE \E t \in Measured : CopyAll[k + 1] = <<"rename", t>> /\ Place[t] = k - 14
  <2>1. k - 14 \in 1..5 /\ k + 1 = (k - 14) + 15
    OBVIOUS
  <2>2. CopyAll[k + 1] = <<"rename", Order[k - 14]>>
    BY <2>1, <1>3, <1>8
  <2> QED
    BY <2>1, <2>2, <1>9
<1> QED
  BY <1>6, <1>8, <1>10, <1>11, <1>12, <1>13

LEMMA PairIs ==
  ASSUME NEW x \in Statement, NEW y \in Statement, NEW z \in Statement
  PROVE  <<x>> \o <<y>> = <<x, y>> /\ <<x, y>> \o <<z>> = <<x, y, z>>
<1> DEFINE R == <<x>> \o <<y>>
           S == <<x, y>> \o <<z>>
<1>1. R \in Seq(Statement) /\ Len(R) = 2 /\ R[1] = x /\ R[2] = y
  BY JoinIs
<1>2. S \in Seq(Statement) /\ Len(S) = 3 /\ S[1] = x /\ S[2] = y /\ S[3] = z
  BY JoinIs
<1> HIDE DEF R, S
<1>3. R = <<x, y>> /\ S = <<x, y, z>>
  BY <1>1, <1>2
<1> QED
  BY <1>3 DEF R, S

LEMMA OtherScriptsAre ==
  /\ FreshAll \in Seq(Statement) /\ Len(FreshAll) = 6 /\ FreshAll[6] = <<"version", 1>>
  /\ \A k \in 0..4 : \E t \in Measured : FreshAll[k + 1] = <<"ensure", t>> /\ Place[t] = k + 1
  /\ SecondScript = IF NoColumn THEN << <<"addColumn", "runs">>, <<"version", 2>> >> ELSE << <<"version", 2>> >>
  /\ Script(2) = << <<"ensure", "chat_sessions">>, <<"ensure", "chat_messages">>, <<"version", 3>> >>
  /\ Script(3) = << <<"ensure", "eval_template_results">>, <<"version", 4>> >>
<1>1. /\ FreshAll \in Seq(Statement) /\ Len(FreshAll) = 6 /\ FreshAll[6] = <<"version", 1>>
      /\ \A k \in 0..4 : \E t \in Measured : FreshAll[k + 1] = <<"ensure", t>> /\ Place[t] = k + 1
  <2> DEFINE A == Each("ensure", Order)
             E == SetVersion(1)
  <2>1. Order \in Seq(TableName) /\ Len(Order) = 5
    BY TablesAre DEF Order
  <2>2. A \in Seq(Statement) /\ Len(A) = 5 /\ \A i \in 1..5 : A[i] = <<"ensure", Order[i]>>
    BY <2>1, EachIs, ZenonT(40)
  <2>3. E \in Seq(Statement) /\ Len(E) = 1 /\ E[1] = <<"version", 1>>
    BY DEF SetVersion, Statement
  <2>4. FreshAll = A \o E
    BY DEF FreshAll, FreshScript
  <2> HIDE DEF A, E
  <2>5. /\ FreshAll \in Seq(Statement) /\ Len(FreshAll) = 6 /\ FreshAll[6] = E[1]
        /\ \A i \in 1..5 : FreshAll[i] = A[i]
    <3>1. /\ A \o E \in Seq(Statement) /\ Len(A \o E) = Len(A) + Len(E)
          /\ \A i \in 1..Len(A) : (A \o E)[i] = A[i]
          /\ \A i \in 1..Len(E) : (A \o E)[i + Len(A)] = E[i]
      BY <2>2, <2>3, JoinIs
    <3>2. 1 \in 1..Len(E) /\ 1 + Len(A) = 6
      BY <2>2, <2>3
    <3> QED
      BY <3>1, <3>2, <2>2, <2>3, <2>4
  <2>6. \A i \in 1..5 : Order[i] \in Measured /\ Place[Order[i]] = i
    BY PlacesAre, TablesAre DEF Order
  <2>7. ASSUME NEW k \in 0..4 PROVE FreshAll[k + 1] = <<"ensure", Order[k + 1]>> /\ k + 1 \in 1..5
    BY <2>2, <2>5
  <2> QED
    BY <2>3, <2>5, <2>6, <2>7
<1>2. SubSeq(Later, 1, 2) = <<"chat_sessions", "chat_messages">> /\ SubSeq(Later, 3, 3) = <<"eval_template_results">>
  <2> DEFINE two == SubSeq(Later, 1, 2)
             one == SubSeq(Later, 3, 3)
  <2>1. Later \in Seq(TableName) /\ Len(Later) = 3 /\ Later[1] = "chat_sessions"
        /\ Later[2] = "chat_messages" /\ Later[3] = "eval_template_results"
    BY TablesAre DEF Later
  <2>2. /\ two \in Seq(TableName) /\ Len(two) = 2 /\ two[1] = Later[1] /\ two[2] = Later[2]
        /\ one \in Seq(TableName) /\ Len(one) = 1 /\ one[1] = Later[3]
    BY <2>1
  <2> HIDE DEF two, one
  <2>3. two = <<"chat_sessions", "chat_messages">> /\ one = <<"eval_template_results">>
    BY <2>1, <2>2
  <2> QED
    BY <2>3 DEF two, one
<1>3. /\ Each("ensure", <<"chat_sessions", "chat_messages">>) = << <<"ensure", "chat_sessions">>, <<"ensure", "chat_messages">> >>
      /\ Each("ensure", <<"eval_template_results">>) = << <<"ensure", "eval_template_results">> >>
  BY DEF Each
<1>4. SecondScript = IF NoColumn THEN << <<"addColumn", "runs">>, <<"version", 2>> >> ELSE << <<"version", 2>> >>
  <2>1. CASE NoColumn
    <3>1. <<"addColumn", "runs">> \in Statement /\ <<"version", 2>> \in Statement
      BY TablesAre DEF Statement
    <3>2. SecondScript = << <<"addColumn", "runs">> >> \o << <<"version", 2>> >>
      BY <2>1 DEF SecondScript, AddColumn, SetVersion
    <3> QED
      BY <2>1, <3>1, <3>2, PairIs
  <2>2. CASE ~NoColumn
    <3>1. << <<"version", 2>> >> \in Seq(Statement)
      BY DEF Statement
    <3>2. SecondScript = <<>> \o << <<"version", 2>> >>
      BY <2>2 DEF SecondScript, SetVersion
    <3>3. SecondScript = << <<"version", 2>> >>
      BY <3>1, <3>2
    <3> QED
      BY <2>2, <3>3
  <2> QED
    BY <2>1, <2>2
<1>5. Script(2) = << <<"ensure", "chat_sessions">>, <<"ensure", "chat_messages">>, <<"version", 3>> >>
  <2>1. Script(2) = << <<"ensure", "chat_sessions">>, <<"ensure", "chat_messages">> >> \o << <<"version", 3>> >>
    <3>1. Script(2) = Each("ensure", SubSeq(Later, 1, 2)) \o SetVersion(3)
      BY DEF Script
    <3> QED
      BY <3>1, <1>2, <1>3 DEF SetVersion
  <2>2. /\ <<"ensure", "chat_sessions">> \in Statement /\ <<"ensure", "chat_messages">> \in Statement
        /\ <<"version", 3>> \in Statement
    BY TablesAre DEF Statement
  <2> QED
    BY <2>1, <2>2, PairIs
<1>6. Script(3) = << <<"ensure", "eval_template_results">>, <<"version", 4>> >>
  <2>1. Script(3) = << <<"ensure", "eval_template_results">> >> \o << <<"version", 4>> >>
    <3>1. Script(3) = Each("ensure", SubSeq(Later, 3, 3)) \o SetVersion(4)
      BY DEF Script
    <3> QED
      BY <3>1, <1>2, <1>3 DEF SetVersion
  <2>2. <<"ensure", "eval_template_results">> \in Statement /\ <<"version", 4>> \in Statement
    BY TablesAre DEF Statement
  <2> QED
    BY <2>1, <2>2, PairIs
<1> QED
  BY <1>1, <1>4, <1>5, <1>6

-----------------------------------------------------------------------------
(* The steps of an opener *)

\* What is left of the scripts of the first migration.
LEMMA RestOfCopy ==
  ASSUME NEW k \in 0..20
  PROVE  /\ Len(Remains(CopyAll, k)) = 21 - k /\ Remains(CopyAll, k) # <<>>
         /\ Head(Remains(CopyAll, k)) = CopyAll[k + 1] /\ Tail(Remains(CopyAll, k)) = Remains(CopyAll, k + 1)
         /\ <<"version", 1>> \in ToSet(Remains(CopyAll, k))
         /\ Remains(CopyAll, k) \in Seq(Statement)
         /\ k = 20 => Tail(Remains(CopyAll, k)) = <<>>
<1>1. CopyAll \in Seq(Statement) /\ Len(CopyAll) = 21 /\ CopyAll[21] = <<"version", 1>> /\ k \in 0..Len(CopyAll)
  BY CopyAllIs
<1>2. IsRest(Remains(CopyAll, k), CopyAll, k)
  BY <1>1, RestIs, Zenon
<1>3. ToSet(Remains(CopyAll, k)) = {CopyAll[i] : i \in (k + 1)..21} /\ 21 \in (k + 1)..21
  <2>1. ToSet(Remains(CopyAll, k)) = {CopyAll[i] : i \in (k + 1)..Len(CopyAll)}
    BY <1>2 DEF IsRest
  <2> QED
    BY <1>1, <2>1, SMTT(30)
<1>4. k = 20 => Remains(CopyAll, k + 1) = <<>>
  <2>1. 21 \in 0..Len(CopyAll)
    BY <1>1
  <2>2. IsRest(Remains(CopyAll, 21), CopyAll, 21)
    BY <1>1, <2>1, RestIs, Zenon
  <2> QED
    BY <1>1, <2>2 DEF IsRest
<1>5. k < Len(CopyAll) /\ k # Len(CopyAll)
  BY <1>1
<1>6. /\ Remains(CopyAll, k) \in Seq(Statement) /\ Len(Remains(CopyAll, k)) = 21 - k /\ Remains(CopyAll, k) # <<>>
      /\ Head(Remains(CopyAll, k)) = CopyAll[k + 1] /\ Tail(Remains(CopyAll, k)) = Remains(CopyAll, k + 1)
  BY <1>1, <1>2, <1>5 DEF IsRest
<1>7. <<"version", 1>> \in ToSet(Remains(CopyAll, k))
  BY <1>1, <1>3
<1> QED
  BY <1>4, <1>6, <1>7

LEMMA RestOfFresh ==
  ASSUME NEW k \in 0..5
  PROVE  /\ Len(Remains(FreshAll, k)) = 6 - k /\ Remains(FreshAll, k) # <<>>
         /\ Head(Remains(FreshAll, k)) = FreshAll[k + 1] /\ Tail(Remains(FreshAll, k)) = Remains(FreshAll, k + 1)
         /\ <<"version", 1>> \in ToSet(Remains(FreshAll, k))
         /\ Remains(FreshAll, k) \in Seq(Statement)
         /\ k = 5 => Tail(Remains(FreshAll, k)) = <<>>
<1>1. FreshAll \in Seq(Statement) /\ Len(FreshAll) = 6 /\ FreshAll[6] = <<"version", 1>> /\ k \in 0..Len(FreshAll)
  BY OtherScriptsAre
<1>2. IsRest(Remains(FreshAll, k), FreshAll, k)
  BY <1>1, RestIs, Zenon
<1>3. ToSet(Remains(FreshAll, k)) = {FreshAll[i] : i \in (k + 1)..6} /\ 6 \in (k + 1)..6
  BY <1>1, <1>2 DEF IsRest
<1>4. k = 5 => Remains(FreshAll, k + 1) = <<>>
  <2>1. 6 \in 0..Len(FreshAll)
    BY <1>1
  <2>2. IsRest(Remains(FreshAll, 6), FreshAll, 6)
    BY <1>1, <2>1, RestIs, Zenon
  <2> QED
    BY <1>1, <2>2 DEF IsRest
<1> QED
  BY <1>1, <1>2, <1>3, <1>4 DEF IsRest

\* The two have only their last statement in common.
LEMMA RestsDiffer ==
  ASSUME NEW j \in 0..20, NEW k \in 0..5, Remains(CopyAll, j) = Remains(FreshAll, k)
  PROVE  j = 20 /\ k = 5
<1>1. Len(Remains(CopyAll, j)) = 21 - j /\ Head(Remains(CopyAll, j)) = CopyAll[j + 1]
  BY RestOfCopy
<1>2. Len(Remains(FreshAll, k)) = 6 - k /\ Head(Remains(FreshAll, k)) = FreshAll[k + 1]
  BY RestOfFresh
<1>3. 21 - j = 6 - k /\ CopyAll[j + 1] = FreshAll[k + 1]
  BY <1>1, <1>2
<1>4. ASSUME k \in 0..4 PROVE FALSE
  <2>1. j \in 15..19
    BY <1>3, <1>4
  <2>2. PICK t \in Measured : CopyAll[j + 1] = <<"rename", t>>
    BY <2>1, CopyAllIs
  <2>3. PICK u \in Measured : FreshAll[k + 1] = <<"ensure", u>>
    BY <1>4, OtherScriptsAre
  <2>4. <<"rename", t>> # <<"ensure", u>>
    OBVIOUS
  <2> QED
    BY <1>3, <2>2, <2>3, <2>4, Zenon
<1> QED
  BY <1>3, <1>4

\* What an opener of the first migration does next.
LEMMA CopyAt ==
  ASSUME NEW p \in Opener, NEW k \in 0..20, Copies(p, k)
  PROVE  /\ opener[p].todo # <<>> /\ Len(opener[p].todo) = 21 - k
         /\ Head(opener[p].todo) = CopyAll[k + 1] /\ Tail(opener[p].todo) = Remains(CopyAll, k + 1)
         /\ <<"version", 1>> \in ToSet(opener[p].todo)
         /\ k = 20 => Tail(opener[p].todo) = <<>>
BY RestOfCopy DEF Copies

LEMMA FreshAt ==
  ASSUME NEW p \in Opener, NEW k \in 0..5, Freshens(p, k)
  PROVE  /\ opener[p].todo # <<>> /\ Len(opener[p].todo) = 6 - k
         /\ Head(opener[p].todo) = FreshAll[k + 1] /\ Tail(opener[p].todo) = Remains(FreshAll, k + 1)
         /\ <<"version", 1>> \in ToSet(opener[p].todo)
         /\ k = 5 => Tail(opener[p].todo) = <<>>
BY RestOfFresh DEF Freshens

\* What an opener with this rest of the copying script owns, now and after a step.
LEMMA CopyOwns ==
  ASSUME NEW p \in Opener, NEW k \in 0..20
  PROVE  /\ Copies(p, k) => \A t : (Owns(p, t) <=> Owned(t, k)) /\ (HasFilled(p, t) <=> Filled(t, k))
         /\ Copies(p, k)' => \A t : (Owns(p, t)' <=> Owned(t, k)) /\ (HasFilled(p, t)' <=> Filled(t, k))
<1>1. \A j \in 0..20 : Len(Remains(CopyAll, j)) = 21 - j
  BY RestOfCopy
<1>2. ASSUME NEW j \in 0..20, Remains(CopyAll, j) = Remains(CopyAll, k) PROVE j = k
  <2>1. 21 - j = 21 - k
    BY <1>1, <1>2
  <2> QED
    BY <2>1
<1>3. Copies(p, k) => \A j \in 0..20 : Copies(p, j) => j = k
  BY <1>2 DEF Copies
<1>4. Copies(p, k)' => \A j \in 0..20 : Copies(p, j)' => j = k
  BY <1>2 DEF Copies
<1> QED
  BY <1>3, <1>4 DEF Owns, HasFilled, Owned, Filled

\* An opener with the other script, or none, owns nothing.
LEMMA FreshOwnsNothing ==
  ASSUME NEW p \in Opener, NEW k \in 0..5
  PROVE  /\ Freshens(p, k) => \A t \in Measured : ~Owns(p, t) /\ ~HasFilled(p, t)
         /\ Freshens(p, k)' => \A t \in Measured : ~Owns(p, t)' /\ ~HasFilled(p, t)'
<1>1. \A t \in Measured : Place[t] \in 1..5 /\ FillPlace[t] \in 1..5
  BY PlacesAre, TablesAre
<1>2. \A t \in Measured : ~Owned(t, 20) /\ ~Filled(t, 20)
  BY <1>1 DEF Owned, Filled
<1>3. \A j \in 0..20 : Remains(CopyAll, j) = Remains(FreshAll, k) => j = 20
  BY RestsDiffer
<1>4. Freshens(p, k) => \A j \in 0..20 : Copies(p, j) => j = 20
  BY <1>3 DEF Copies, Freshens
<1>5. Freshens(p, k)' => \A j \in 0..20 : Copies(p, j)' => j = 20
  BY <1>3 DEF Copies, Freshens
<1>6. Freshens(p, k) => \A t \in Measured : ~Owns(p, t) /\ ~HasFilled(p, t)
  BY <1>2, <1>4 DEF Owns, HasFilled
<1>7. Freshens(p, k)' => \A t \in Measured : ~Owns(p, t)' /\ ~HasFilled(p, t)'
  BY <1>2, <1>5 DEF Owns, HasFilled, Owned, Filled
<1> QED
  BY <1>6, <1>7

\* Who is in no script, and whose rest is known: what the step of one opener leaves of this.
LEMMA OthersStay ==
  ASSUME NEW p \in Opener, NEW q \in Opener, opener'[q] = opener[q]
  PROVE  /\ \A k : (Copies(q, k)' <=> Copies(q, k)) /\ (Freshens(q, k)' <=> Freshens(q, k))
         /\ \A t : (Owns(q, t)' <=> Owns(q, t)) /\ (HasFilled(q, t)' <=> HasFilled(q, t))
         /\ Early(q)' <=> Early(q)
         /\ InScript(q)' <=> InScript(q)
<1>1. \A k : (Copies(q, k)' <=> Copies(q, k)) /\ (Freshens(q, k)' <=> Freshens(q, k))
  BY DEF Copies, Freshens, Remains
<1>2. \A t : (Owns(q, t)' <=> Owns(q, t)) /\ (HasFilled(q, t)' <=> HasFilled(q, t))
  BY <1>1 DEF Owns, HasFilled, Owned, Filled
<1> QED
  BY <1>1, <1>2 DEF Early, InScript

\* The tables stay as they are, and nobody comes to own one.
LEMMA OwnersStay ==
  ASSUME CopiesAreOwned, CopiesAreFilled, OldRowsExist, UNCHANGED <<base, copy, kept>>,
         \A p \in Opener, t \in Measured : (Owns(p, t)' => Owns(p, t)) /\ (HasFilled(p, t)' => HasFilled(p, t))
  PROVE  CopiesAreOwned' /\ CopiesAreFilled' /\ OldRowsExist'
BY DEF CopiesAreOwned, CopiesAreFilled, OldRowsExist, Measured

\* Who does not migrate owns nothing.
LEMMA IdleOwnsNothing ==
  ASSUME NEW p \in Opener, opener[p].at # "migrating" \/ opener[p].by # 1, NEW t
  PROVE  ~Owns(p, t) /\ ~HasFilled(p, t) /\ ~InScript(p)
BY DEF Owns, HasFilled, Copies, InScript

\* An opener in a script is early, and then nobody else is there.
LEMMA ScriptIsEarly ==
  ASSUME SchemaTypes, TodoIsKnown, EarlyIsAlone, ~mixed, NEW p \in Opener, InScript(p)
  PROVE  /\ version = 0 /\ Early(p)
         /\ \A q \in Opener \ {p} : opener[q].at \notin {"migrating", "open"} /\ ~InScript(q) /\ ~Early(q)
BY DEF InScript, Early, EarlyIsAlone

LEMMA SchemaStarts == SchemaInit => SchemaInv
<1> SUFFICES ASSUME SchemaInit PROVE SchemaInv
  OBVIOUS
<1>1. \A p \in Opener : opener[p] = Closed /\ opener[p].at = "closed" /\ opener[p].todo = <<>>
  BY DEF SchemaInit, Closed
<1>2. SchemaTypes
  <2>1. Closed \in Opening
    <3>1. <<>> \in Seq(Statement)
      OBVIOUS
    <3> QED
      BY <3>1 DEF Closed, Opening
  <2>2. opener \in [Opener -> Opening]
    BY <2>1 DEF SchemaInit
  <2> QED
    <3>1. base \in [TableName -> Content] /\ copy \in [Measured -> Content]
      BY DEF SchemaInit, Content
    <3>2. column \in BOOLEAN /\ mixed \in BOOLEAN /\ kept \in {{}, Measured, TableName}
      BY Zenon DEF SchemaInit
    <3>4. version \in 0..4
      BY DEF SchemaInit
    <3>3. kills \in 0..MaxKills
      BY KillsAssumption DEF SchemaInit
    <3> QED
      BY <2>2, <3>1, <3>2, <3>3, <3>4 DEF SchemaTypes
<1>3. TodoIsKnown
  BY <1>1 DEF TodoIsKnown
<1>4. CopiesAreOwned /\ CopiesAreFilled
  BY <1>1, IdleOwnsNothing DEF CopiesAreOwned, CopiesAreFilled
<1>5. OldRowsExist
  <2>1. kept # Measured
    BY TablesAre DEF SchemaInit
  <2> QED
    BY <2>1 DEF OldRowsExist
<1>6. EarlyIsAlone /\ LaterIsDone
  BY <1>1 DEF EarlyIsAlone, LaterIsDone, Early
<1>7. FirstIsWhole
  BY <1>1 DEF FirstIsWhole, InScript, NoCopy, New, SchemaInit
<1>8. MeasuredStay /\ VersionIsTrue
  BY DEF MeasuredStay, VersionIsTrue, SchemaInit
<1> QED
  BY <1>2, <1>3, <1>4, <1>5, <1>6, <1>7, <1>8 DEF SchemaInv

LEMMA InheritsKeeps == SchemaInv /\ Inherits => SchemaInv'
<1> SUFFICES ASSUME SchemaInv, Inherits PROVE SchemaInv'
  OBVIOUS
<1>1. /\ opener' = opener /\ copy' = copy /\ column' = column /\ version' = version /\ version = 0
      /\ kills' = kills /\ mixed' = mixed /\ kept' = Measured
      /\ base' = [t \in TableName |-> IF t \in Measured THEN "rows" ELSE "absent"]
  BY DEF Inherits
<1>2. \A p \in Opener : opener[p].at = "closed"
  BY DEF Inherits, Closed
<1>3. SchemaTypes'
  BY <1>1 DEF SchemaInv, SchemaTypes, Content
<1>4. TodoIsKnown'
  BY <1>1, <1>2 DEF SchemaInv, TodoIsKnown
<1>5. \A p \in Opener : (\A t : ~Owns(p, t)' /\ ~HasFilled(p, t)') /\ ~InScript(p)' /\ ~Early(p)' /\ ~InScript(p)
  BY <1>1, <1>2 DEF Owns, HasFilled, Copies, InScript, Early
<1>6. CopiesAreOwned' /\ CopiesAreFilled'
  BY <1>5 DEF CopiesAreOwned, CopiesAreFilled
<1>7. \A t \in Measured : t \in TableName /\ base'[t] = "rows"
  BY <1>1, TablesAre
<1>8. OldRowsExist'
  BY <1>7 DEF OldRowsExist, Measured
<1>9. EarlyIsAlone' /\ LaterIsDone'
  BY <1>1, <1>2, <1>5 DEF EarlyIsAlone, LaterIsDone
<1>10. FirstIsWhole'
  <2>1. ~mixed => NoCopy /\ ~column
    BY <1>1, <1>5 DEF SchemaInv, FirstIsWhole
  <2>2. Old'
    BY <1>1 DEF Old, Measured, TableName
  <2> QED
    BY <2>1, <2>2, <1>1, <1>5 DEF FirstIsWhole, NoCopy, Measured
<1>11. MeasuredStay' /\ VersionIsTrue'
  BY <1>1 DEF MeasuredStay, VersionIsTrue
<1> QED
  BY <1>3, <1>4, <1>6, <1>8, <1>9, <1>10, <1>11 DEF SchemaInv

\* The version in the store, and what it says, for who reads it now.
LEMMA OpensKeeps == ASSUME SchemaInv, NEW p \in Opener, Opens(p) PROVE SchemaInv'
<1> DEFINE new == [at |-> "migrating", by |-> version, todo |-> <<>>]
<1>1. /\ base' = base /\ copy' = copy /\ column' = column /\ version' = version
      /\ kills' = kills /\ kept' = kept
      /\ mixed' = (mixed \/ \E q \in Opener \ {p} : opener[q].at = "migrating" /\ opener[q].by <= 1)
      /\ opener' = [opener EXCEPT ![p] = new]
  BY DEF Opens
<1>2. opener \in [Opener -> Opening] /\ version \in 0..4 /\ mixed \in BOOLEAN
  BY DEF SchemaInv, SchemaTypes
<1>3. new \in Opening /\ new.at = "migrating" /\ new.by = version /\ new.todo = <<>>
  <2>1. <<>> \in Seq(Statement)
    OBVIOUS
  <2> QED
    BY <1>2, <2>1 DEF Opening
<1> HIDE DEF new
<1>4. opener' \in [Opener -> Opening] /\ opener'[p] = new /\ \A q \in Opener \ {p} : opener'[q] = opener[q]
  BY <1>1, <1>2, <1>3
<1>5. SchemaTypes'
  BY <1>1, <1>2, <1>4 DEF SchemaInv, SchemaTypes
<1>6. \A q \in Opener \ {p} :
        /\ \A k : (Copies(q, k)' <=> Copies(q, k)) /\ (Freshens(q, k)' <=> Freshens(q, k))
        /\ \A t : (Owns(q, t)' <=> Owns(q, t)) /\ (HasFilled(q, t)' <=> HasFilled(q, t))
        /\ (Early(q)' <=> Early(q)) /\ (InScript(q)' <=> InScript(q))
  BY <1>4, OthersStay
<1>7. \A k \in 0..20 : ~Copies(p, k)'
  <2>1. \A k \in 0..20 : Remains(CopyAll, k) # <<>>
    <3> TAKE k \in 0..20
    <3>1. CopyAll \in Seq(Statement) /\ Len(CopyAll) = 21 /\ k \in 0..Len(CopyAll) /\ k # Len(CopyAll)
      BY CopyAllIs
    <3>2. IsRest(Remains(CopyAll, k), CopyAll, k)
      BY <3>1, RestIs, Zenon
    <3> QED
      BY <3>1, <3>2 DEF IsRest
  <2> QED
    BY <2>1, <1>3, <1>4 DEF Copies, Remains
<1>8. /\ \A t : ~Owns(p, t)' /\ ~HasFilled(p, t)'
      /\ ~InScript(p)' /\ (Early(p)' <=> version = 0)
  BY <1>3, <1>4, <1>7 DEF Owns, HasFilled, InScript, Early
<1>9. TodoIsKnown'
  <2>1. \A q \in Opener \ {p} : /\ opener'[q] = opener[q]
                                /\ \A k : (Copies(q, k)' <=> Copies(q, k)) /\ (Freshens(q, k)' <=> Freshens(q, k))
    BY <1>4, <1>6
  <2>2. opener'[p].at = "migrating" /\ opener'[p].todo = <<>>
    BY <1>3, <1>4
  <2> QED
    BY <2>1, <2>2 DEF SchemaInv, TodoIsKnown
<1>10. CopiesAreOwned' /\ CopiesAreFilled' /\ OldRowsExist'
  BY <1>1, <1>6, <1>8, OwnersStay DEF SchemaInv
<1>11. ASSUME ~mixed' PROVE ~mixed /\ \A q \in Opener \ {p} : ~Early(q) /\ ~InScript(q)
  <2>1. ~mixed /\ \A q \in Opener \ {p} : ~(opener[q].at = "migrating" /\ opener[q].by <= 1)
    BY <1>1, <1>11, Zenon
  <2> QED
    BY <2>1, <1>2 DEF Early, InScript
<1>12. EarlyIsAlone'
  <2> SUFFICES ASSUME ~mixed', NEW q \in Opener
               PROVE  /\ opener'[q].at \in {"migrating", "open"} => (Early(q)' <=> version' = 0)
                      /\ Early(q)' => \A r \in Opener \ {q} : opener'[r].at \notin {"migrating", "open"}
    BY DEF EarlyIsAlone
  <2>1. ~mixed /\ \A r \in Opener \ {p} : ~Early(r)
    BY <1>11
  <2>2. \A r \in Opener : opener[r].at \in {"migrating", "open"} => (Early(r) <=> version = 0)
    BY <2>1 DEF SchemaInv, EarlyIsAlone
  <2>3. CASE q = p
    BY <2>1, <2>2, <2>3, <1>1, <1>4, <1>8
  <2>4. CASE q # p
    BY <2>1, <2>2, <2>4, <1>1, <1>4, <1>6
  <2> QED
    BY <2>3, <2>4
<1>13. FirstIsWhole'
  <2> SUFFICES ASSUME ~mixed' PROVE FirstIsWhole'
    BY DEF FirstIsWhole
  <2>1. ~mixed /\ (\A q \in Opener \ {p} : ~InScript(q)) /\ \A q \in Opener : ~InScript(q)'
    BY <1>6, <1>8, <1>11
  <2>2. ~InScript(p)
    BY DEF Opens, InScript
  <2>3. (version = 0 => ~column) /\ NoCopy /\ (version = 0 => Old \/ New)
    BY <2>1, <2>2 DEF SchemaInv, FirstIsWhole
  <2> QED
    BY <2>1, <2>3, <1>1 DEF FirstIsWhole, NoCopy, Old, New, Measured, TableName
<1>14. MeasuredStay'
  BY <1>1, <1>2 DEF SchemaInv, MeasuredStay, NoCopy, Measured
<1>15. VersionIsTrue'
  BY <1>1, <1>2 DEF SchemaInv, VersionIsTrue, Measured
<1>16. LaterIsDone'
  <2> SUFFICES ASSUME ~mixed', NEW q \in Opener, opener'[q].at = "migrating"
               PROVE  /\ opener'[q].by >= 2 => ThereOr(q, column, <<"addColumn", "runs">>)'
                      /\ opener'[q].by >= 3 =>
                           /\ ThereOr(q, base["chat_sessions"] # "absent", <<"ensure", "chat_sessions">>)'
                           /\ ThereOr(q, base["chat_messages"] # "absent", <<"ensure", "chat_messages">>)'
                      /\ opener'[q].by >= 4 =>
                           ThereOr(q, base["eval_template_results"] # "absent", <<"ensure", "eval_template_results">>)'
    BY DEF LaterIsDone
  <2>1. CASE q = p
    BY <2>1, <1>1, <1>3, <1>4, <1>11 DEF SchemaInv, VersionIsTrue, ThereOr
  <2>2. CASE q # p
    BY <2>2, <1>1, <1>4, <1>11 DEF SchemaInv, LaterIsDone, ThereOr
  <2> QED
    BY <2>1, <2>2
<1> QED
  BY <1>5, <1>9, <1>10, <1>12, <1>13, <1>14, <1>15, <1>16 DEF SchemaInv

\* An opener that stops migrating, or closes the store: what it leaves behind is well as
\* long as it has not left it in the middle of the first migration.
LEMMA LeavingKeeps ==
  ASSUME SchemaInv, NEW p \in Opener, NEW new \in Opening,
         new.at # "migrating", new.todo = <<>>,
         opener' = [opener EXCEPT ![p] = new], UNCHANGED <<base, copy, column, version, kept>>,
         mixed' \in BOOLEAN, kills' \in 0..MaxKills,
         ~mixed' => ~mixed /\ ~InScript(p) /\ (new.at = "open" => version # 0)
  PROVE  SchemaInv'
<1>1. /\ base' = base /\ copy' = copy /\ column' = column /\ version' = version /\ kept' = kept
      /\ opener \in [Opener -> Opening]
  BY DEF SchemaInv, SchemaTypes
<1>2. opener' \in [Opener -> Opening] /\ opener'[p] = new /\ \A q \in Opener \ {p} : opener'[q] = opener[q]
  BY <1>1
<1>3. SchemaTypes'
  BY <1>1, <1>2 DEF SchemaInv, SchemaTypes
<1>4. \A q \in Opener \ {p} :
        /\ \A k : (Copies(q, k)' <=> Copies(q, k)) /\ (Freshens(q, k)' <=> Freshens(q, k))
        /\ \A t : (Owns(q, t)' <=> Owns(q, t)) /\ (HasFilled(q, t)' <=> HasFilled(q, t))
        /\ (Early(q)' <=> Early(q)) /\ (InScript(q)' <=> InScript(q))
  BY <1>2, OthersStay
<1>5. ~InScript(p)' /\ ~Early(p)' /\ \A t : ~Owns(p, t)' /\ ~HasFilled(p, t)'
  BY <1>2 DEF InScript, Early, Owns, HasFilled, Copies
<1>6. TodoIsKnown'
  BY <1>2, <1>4 DEF SchemaInv, TodoIsKnown
<1>7. CopiesAreOwned' /\ CopiesAreFilled' /\ OldRowsExist'
  BY <1>1, <1>4, <1>5, OwnersStay DEF SchemaInv
<1>8. EarlyIsAlone'
  <2> SUFFICES ASSUME ~mixed', NEW q \in Opener
               PROVE  /\ opener'[q].at \in {"migrating", "open"} => (Early(q)' <=> version' = 0)
                      /\ Early(q)' => \A r \in Opener \ {q} : opener'[r].at \notin {"migrating", "open"}
    BY DEF EarlyIsAlone
  <2>1. /\ opener[q].at \in {"migrating", "open"} => (Early(q) <=> version = 0)
        /\ Early(q) => \A r \in Opener \ {q} : opener[r].at \notin {"migrating", "open"}
        /\ Early(q) => version = 0
    BY DEF SchemaInv, EarlyIsAlone, Early
  <2>2. CASE q = p
    BY <2>2, <1>1, <1>2, <1>5
  <2>3. CASE q # p
    BY <2>1, <2>3, <1>1, <1>2, <1>4
  <2> QED
    BY <2>2, <2>3
<1>9. FirstIsWhole'
  <2> SUFFICES ASSUME ~mixed' PROVE FirstIsWhole'
    BY DEF FirstIsWhole
  <2>6. ~InScript(p)
    OBVIOUS
  <2>1. \A q \in Opener : InScript(q)' <=> InScript(q)
    BY <1>4, <1>5, <2>6
  <2>2. \A q \in Opener : InScript(q) =>
           \A k : (Copies(q, k)' <=> Copies(q, k)) /\ (Freshens(q, k)' <=> Freshens(q, k))
    BY <1>4, <2>6
  <2>3. \A k : (CopyState(k)' <=> CopyState(k)) /\ (FreshState(k)' <=> FreshState(k))
    BY <1>1 DEF CopyState, FreshState, NoCopy, Place, FillPlace, Owned, Filled, Measured, TableName
  <2>4. (NoCopy' <=> NoCopy) /\ (Old' <=> Old) /\ (New' <=> New)
    BY <1>1 DEF NoCopy, Old, New, Measured, TableName
  <2>5. FirstIsWhole /\ ~mixed
    BY DEF SchemaInv
  <2>7. version' = 0 => ~column'
    BY <2>5, <1>1 DEF FirstIsWhole
  <2>8. ASSUME NEW q \in Opener, InScript(q)'
        PROVE  \/ \E k \in 0..20 : Copies(q, k)' /\ CopyState(k)'
               \/ \E k \in 0..5 : Freshens(q, k)' /\ FreshState(k)'
    <3>1. InScript(q)
      BY <2>1, <2>8
    <3>2. \A k : (Copies(q, k)' <=> Copies(q, k)) /\ (Freshens(q, k)' <=> Freshens(q, k))
      BY <2>2, <3>1
    <3>3. \/ \E k \in 0..20 : Copies(q, k) /\ CopyState(k)
          \/ \E k \in 0..5 : Freshens(q, k) /\ FreshState(k)
      BY <2>5, <3>1 DEF FirstIsWhole
    <3> QED
      BY <2>3, <3>2, <3>3
  <2>9. (\A q \in Opener : ~InScript(q)') => NoCopy' /\ (version' = 0 => Old' \/ New')
    <3>1. (\A q \in Opener : ~InScript(q)) => NoCopy /\ (version = 0 => Old \/ New)
      BY <2>5 DEF FirstIsWhole
    <3> QED
      BY <2>1, <2>4, <3>1, <1>1
  <2> QED
    BY <2>7, <2>8, <2>9 DEF FirstIsWhole
<1>10. MeasuredStay' /\ VersionIsTrue'
  BY <1>1 DEF SchemaInv, MeasuredStay, VersionIsTrue, NoCopy, Measured
<1>11. LaterIsDone'
  BY <1>1, <1>2 DEF SchemaInv, LaterIsDone, ThereOr
<1> QED
  BY <1>3, <1>6, <1>7, <1>8, <1>9, <1>10, <1>11 DEF SchemaInv

\* Nobody else in the store, the first migration does not fail.
LEMMA FirstSucceeds ==
  ASSUME SchemaInv, ~mixed, NEW p \in Opener, InScript(p)
  PROVE  Allowed(Head(opener[p].todo))
<1>1. SchemaTypes /\ version = 0 /\ ~column
  BY ScriptIsEarly DEF SchemaInv, FirstIsWhole
<1>2. ASSUME NEW k \in 0..5, Freshens(p, k) PROVE Allowed(Head(opener[p].todo))
  <2>1. Head(opener[p].todo) = FreshAll[k + 1]
    BY <1>2, FreshAt
  <2>2. \/ \E t \in Measured : FreshAll[k + 1] = <<"ensure", t>>
        \/ FreshAll[k + 1] = <<"version", 1>>
    <3>1. CASE k \in 0..4
      BY <3>1, OtherScriptsAre
    <3>2. CASE k = 5
      BY <3>2, OtherScriptsAre
    <3> QED
      BY <3>1, <3>2
  <2> QED
    BY <2>1, <2>2 DEF Allowed
<1>3. ASSUME NEW k \in 0..20, Copies(p, k), CopyState(k) PROVE Allowed(Head(opener[p].todo))
  <2>1. Head(opener[p].todo) = CopyAll[k + 1]
    BY <1>3, CopyAt
  <2>2. \A t \in Measured : Place[t] \in 1..5 /\ FillPlace[t] \in 1..5
    BY PlacesAre, TablesAre
  <2>3. \A t \in Measured :
           /\ base[t] = IF 16 - Place[t] <= k /\ k < 15 + Place[t] THEN "absent" ELSE "rows"
           /\ copy[t] = IF ~Owned(t, k) THEN "absent" ELSE IF Filled(t, k) THEN "rows" ELSE "empty"
    BY <1>3 DEF CopyState
  <2>4. CASE k \in 0..4
    <3>1. PICK t \in Measured : CopyAll[k + 1] = <<"create", t>> /\ Place[t] = k + 1
      BY <2>4, CopyAllIs
    <3>2. copy[t] = "absent"
      BY <2>3, <3>1 DEF Owned
    <3> QED
      BY <2>1, <3>1, <3>2 DEF Allowed
  <2>5. CASE k \in 5..9
    <3>1. PICK t \in Measured : CopyAll[k + 1] = <<"fill", t>> /\ FillPlace[t] = k - 4
      BY <2>5, CopyAllIs
    <3>2. copy[t] = "empty" /\ base[t] = "rows"
      BY <2>2, <2>3, <2>5, <3>1 DEF Owned, Filled
    <3> QED
      BY <1>1, <2>1, <3>1, <3>2 DEF Allowed
  <2>6. CASE k \in 10..14
    <3>1. PICK t \in Measured : CopyAll[k + 1] = <<"drop", t>> /\ Place[t] = 15 - k
      BY <2>6, CopyAllIs
    <3>2. base[t] = "rows"
      BY <2>2, <2>3, <2>6, <3>1
    <3> QED
      BY <2>1, <3>1, <3>2 DEF Allowed
  <2>7. CASE k \in 15..19
    <3>1. PICK t \in Measured : CopyAll[k + 1] = <<"rename", t>> /\ Place[t] = k - 14
      BY <2>7, CopyAllIs
    <3>2. base[t] = "absent" /\ copy[t] = "rows"
      BY <2>2, <2>3, <2>7, <3>1 DEF Owned, Filled
    <3> QED
      BY <2>1, <3>1, <3>2 DEF Allowed
  <2>8. CASE k = 20
    BY <2>1, <2>8, CopyAllIs DEF Allowed
  <2> QED
    BY <2>4, <2>5, <2>6, <2>7, <2>8
<1> QED
  BY <1>2, <1>3 DEF SchemaInv, FirstIsWhole

LEMMA ClosedIs == Closed \in Opening /\ [Closed EXCEPT !.at = "failed"] \in Opening
<1>1. <<>> \in Seq(Statement)
  OBVIOUS
<1>2. Closed \in Opening
  BY <1>1 DEF Closed, Opening
<1>3. [Closed EXCEPT !.at = "failed"] = [at |-> "failed", by |-> 0, todo |-> <<>>]
  BY DEF Closed
<1>4. [at |-> "failed", by |-> 0, todo |-> <<>>] \in Opening
  BY <1>1 DEF Opening
<1> QED
  BY <1>2, <1>3, <1>4

LEMMA OpenedKeeps == ASSUME SchemaInv, NEW p \in Opener, Opened(p) PROVE SchemaInv'
<1> DEFINE new == [opener[p] EXCEPT !.at = "open"]
<1>1. opener[p] \in Opening /\ opener[p].by >= 4 /\ opener[p].at = "migrating" /\ opener[p].todo = <<>>
  BY DEF SchemaInv, SchemaTypes, Opened
<1>2. new \in Opening /\ new.at = "open" /\ new.todo = <<>>
  BY <1>1 DEF Opening
<1>3. opener' = [opener EXCEPT ![p] = new]
  BY DEF Opened
<1>4. UNCHANGED <<base, copy, column, version, kept>> /\ mixed' \in BOOLEAN /\ kills' \in 0..MaxKills /\ mixed' = mixed
  BY DEF Opened, SchemaInv, SchemaTypes
<1>5. ~InScript(p) /\ ~Early(p)
  BY <1>1 DEF InScript, Early
<1>6. ~mixed => version # 0
  BY <1>1, <1>5 DEF SchemaInv, EarlyIsAlone
<1> HIDE DEF new
<1> QED
  BY <1>2, <1>3, <1>4, <1>5, <1>6, LeavingKeeps

LEMMA FailsKeeps == ASSUME SchemaInv, NEW p \in Opener, Fails(p) PROVE SchemaInv'
<1> DEFINE new == [Closed EXCEPT !.at = "failed"]
<1>1. new \in Opening /\ new.at = "failed" /\ new.todo = <<>>
  BY ClosedIs DEF Closed
<1>2. opener' = [opener EXCEPT ![p] = new]
  BY DEF Fails
<1>3. UNCHANGED <<base, copy, column, version, kept>> /\ mixed' \in BOOLEAN /\ kills' \in 0..MaxKills /\ mixed' = mixed
  BY DEF Fails, SchemaInv, SchemaTypes
<1>4. ~mixed => ~InScript(p)
  BY FirstSucceeds DEF Fails
<1> HIDE DEF new
<1> QED
  BY <1>1, <1>2, <1>3, <1>4, LeavingKeeps

LEMMA KilledKeeps == ASSUME SchemaInv, NEW p \in Opener, SchemaKilled(p) PROVE SchemaInv'
<1>1. Closed \in Opening /\ Closed.at = "closed" /\ Closed.todo = <<>>
  BY ClosedIs DEF Closed
<1>2. opener' = [opener EXCEPT ![p] = Closed]
  BY DEF SchemaKilled
<1>3. UNCHANGED <<base, copy, column, version, kept>>
  BY DEF SchemaKilled
<1>4. kills' \in 0..MaxKills
  BY KillsAssumption DEF SchemaKilled, SchemaInv, SchemaTypes
<1>5. mixed' = (mixed \/ InFirst(p))
  BY DEF SchemaKilled
<1>6. mixed' \in BOOLEAN /\ (~mixed' => ~mixed /\ ~InFirst(p))
  BY <1>5, Zenon
<1>7. InScript(p) => InFirst(p)
  <2> SUFFICES ASSUME InScript(p) PROVE InFirst(p)
    OBVIOUS
  <2>1. opener[p].at = "migrating" /\ opener[p].by = 1 /\ opener[p].todo # <<>>
    BY DEF InScript
  <2>2. (\E k \in 0..20 : Copies(p, k)) \/ (\E k \in 0..5 : Freshens(p, k))
    BY <2>1 DEF SchemaInv, TodoIsKnown
  <2>3. <<"version", 1>> \in ToSet(opener[p].todo)
    BY <2>2, CopyAt, FreshAt DEF SchemaInv
  <2> QED
    BY <2>1, <2>3 DEF InFirst
<1> HIDE DEF Closed
<1> QED
  BY <1>1, <1>2, <1>3, <1>4, <1>6, <1>7, LeavingKeeps

LEMMA ClosesKeeps == ASSUME SchemaInv, NEW p \in Opener, Closes(p) PROVE SchemaInv'
<1>1. Closed \in Opening /\ Closed.at = "closed" /\ Closed.todo = <<>>
  BY ClosedIs DEF Closed
<1>2. opener' = [opener EXCEPT ![p] = Closed] /\ opener[p].at = "open"
  BY DEF Closes
<1>3. UNCHANGED <<base, copy, column, version, kept>> /\ mixed' \in BOOLEAN /\ kills' \in 0..MaxKills /\ mixed' = mixed
  BY DEF Closes, SchemaInv, SchemaTypes
<1>4. ~InScript(p)
  BY <1>2 DEF InScript
<1> QED
  BY <1>1, <1>2, <1>3, <1>4, LeavingKeeps

\* Where an opener stands that goes on with its script.
LEMMA GoesOn ==
  ASSUME SchemaInv, NEW p \in Opener, Migrates(p) \/ Executes(p)
  PROVE  /\ kills' = kills /\ kept' = kept /\ mixed' = mixed
         /\ opener[p] \in Opening /\ opener[p].at = "migrating"
         /\ opener'[p].at = "migrating"
         /\ \A q \in Opener \ {p} :
              /\ opener'[q] = opener[q]
              /\ \A k : (Copies(q, k)' <=> Copies(q, k)) /\ (Freshens(q, k)' <=> Freshens(q, k))
              /\ \A t : (Owns(q, t)' <=> Owns(q, t)) /\ (HasFilled(q, t)' <=> HasFilled(q, t))
              /\ (Early(q)' <=> Early(q)) /\ (InScript(q)' <=> InScript(q))
<1>1. opener \in [Opener -> Opening]
  BY DEF SchemaInv, SchemaTypes
<1>2. kills' = kills /\ kept' = kept /\ mixed' = mixed /\ opener[p].at = "migrating"
  BY DEF Migrates, Executes
<1>3. opener'[p].at = "migrating" /\ \A q \in Opener \ {p} : opener'[q] = opener[q]
  <2>1. CASE Migrates(p)
    BY <1>1, <1>2, <2>1 DEF Migrates, Opening
  <2>2. CASE Executes(p)
    BY <1>1, <1>2, <2>2 DEF Executes, Opening
  <2> QED
    BY <2>1, <2>2
<1> QED
  BY <1>1, <1>2, <1>3, OthersStay

\* Nobody else is in the store when an opener is early, and it is alone when it gets on.
LEMMA StaysEarly ==
  ASSUME SchemaInv, NEW p \in Opener, Migrates(p) \/ Executes(p), ~mixed, Early(p)
  PROVE  /\ version = 0
         /\ \A q \in Opener \ {p} :
              /\ opener'[q].at \notin {"migrating", "open"} /\ ~Early(q)'
              /\ ~InScript(q) /\ ~InScript(q)'
<1>1. version = 0 /\ \A q \in Opener \ {p} : opener[q].at \notin {"migrating", "open"}
  BY DEF SchemaInv, EarlyIsAlone, Early
<1>2. \A q \in Opener \ {p} : opener'[q] = opener[q]
  BY GoesOn
<1> QED
  BY <1>1, <1>2 DEF InScript, Early

LEMMA StillEarly ==
  ASSUME SchemaInv, NEW p \in Opener, Migrates(p) \/ Executes(p), Early(p), Early(p)', version' = version
  PROVE  EarlyIsAlone'
<1> SUFFICES ASSUME ~mixed' PROVE EarlyIsAlone'
  BY DEF EarlyIsAlone
<1>1. ~mixed /\ opener'[p].at = "migrating"
  BY GoesOn
<1>2. /\ version = 0
      /\ \A q \in Opener \ {p} : opener'[q].at \notin {"migrating", "open"} /\ ~Early(q)'
  BY <1>1, StaysEarly
<1> QED
  BY <1>1, <1>2 DEF EarlyIsAlone

\* p goes on in the first migration, or begins it: the rest holds of itself.
LEMMA FirstGoesOn ==
  ASSUME SchemaInv, NEW p \in Opener, Migrates(p) \/ Executes(p), Early(p), InScript(p)',
         version' = version,
         ~mixed => /\ ~column'
                   /\ \/ \E k \in 0..20 : Copies(p, k)' /\ CopyState(k)'
                      \/ \E k \in 0..5 : Freshens(p, k)' /\ FreshState(k)'
  PROVE  EarlyIsAlone' /\ FirstIsWhole' /\ MeasuredStay' /\ LaterIsDone' /\ VersionIsTrue'
<1>1. Early(p)'
  BY DEF InScript, Early
<1>2. EarlyIsAlone'
  BY <1>1, StillEarly
<1>3. mixed' = mixed
  BY GoesOn
<1>4. ASSUME ~mixed
      PROVE  /\ version' = 0 /\ ~column'
             /\ \A q \in Opener \ {p} : opener'[q].at # "migrating" /\ ~InScript(q)'
             /\ opener'[p].by = 1
  BY <1>4, StaysEarly DEF InScript
<1>5. FirstIsWhole'
  <2> SUFFICES ASSUME ~mixed PROVE FirstIsWhole'
    BY <1>3 DEF FirstIsWhole
  <2>1. ~column' /\ \A q \in Opener \ {p} : ~InScript(q)'
    BY <1>4
  <2>2. \A q \in Opener : InScript(q)' =>
           \/ \E k \in 0..20 : Copies(q, k)' /\ CopyState(k)'
           \/ \E k \in 0..5 : Freshens(q, k)' /\ FreshState(k)'
    BY <2>1
  <2> QED
    BY <2>1, <2>2 DEF FirstIsWhole
<1>6. MeasuredStay' /\ VersionIsTrue'
  BY <1>3, <1>4 DEF MeasuredStay, VersionIsTrue
<1>7. LaterIsDone'
  <2> SUFFICES ASSUME ~mixed', NEW q \in Opener, opener'[q].at = "migrating"
               PROVE  ~(opener'[q].by >= 2) /\ ~(opener'[q].by >= 3) /\ ~(opener'[q].by >= 4)
    BY DEF LaterIsDone
  <2>1. q = p /\ opener'[p].by = 1
    BY <1>3, <1>4
  <2> QED
    BY <2>1
<1> QED
  BY <1>2, <1>5, <1>6, <1>7

\* One opener that has a known rest makes them all known.
LEMMA TodoStaysKnown ==
  ASSUME SchemaInv, NEW p \in Opener, Migrates(p) \/ Executes(p),
         opener'[p].todo = <<>> \/ (\E k \in 0..20 : Copies(p, k)') \/ (\E k \in 0..5 : Freshens(p, k)')
           \/ (opener'[p].by = 2 /\ opener'[p].todo \in AddTodo)
           \/ (opener'[p].by = 3 /\ opener'[p].todo \in ChatTodo)
           \/ (opener'[p].by = 4 /\ opener'[p].todo \in EvalTodo)
  PROVE  TodoIsKnown'
<1>1. opener'[p].at = "migrating"
      /\ \A q \in Opener \ {p} :
           /\ opener'[q] = opener[q]
           /\ \A k : (Copies(q, k)' <=> Copies(q, k)) /\ (Freshens(q, k)' <=> Freshens(q, k))
  BY GoesOn
<1>2. TodoIsKnown
  BY DEF SchemaInv
<1> SUFFICES ASSUME NEW q \in Opener
             PROVE  /\ opener'[q].at # "migrating" => opener'[q].todo = <<>>
                    /\ opener'[q].at = "migrating" /\ opener'[q].todo # <<>> =>
                         \/ \E k \in 0..20 : Copies(q, k)'
                         \/ \E k \in 0..5 : Freshens(q, k)'
                         \/ opener'[q].by = 2 /\ opener'[q].todo \in AddTodo
                         \/ opener'[q].by = 3 /\ opener'[q].todo \in ChatTodo
                         \/ opener'[q].by = 4 /\ opener'[q].todo \in EvalTodo
  BY DEF TodoIsKnown, AddTodo, ChatTodo, EvalTodo
<1>3. CASE q = p
  BY <1>1, <1>3
<1>4. CASE q # p
  <2>1. /\ opener'[q] = opener[q]
        /\ \A k : (Copies(q, k)' <=> Copies(q, k)) /\ (Freshens(q, k)' <=> Freshens(q, k))
    BY <1>1, <1>4
  <2>2. /\ opener[q].at # "migrating" => opener[q].todo = <<>>
        /\ opener[q].at = "migrating" /\ opener[q].todo # <<>> =>
             \/ \E k \in 0..20 : Copies(q, k)
             \/ \E k \in 0..5 : Freshens(q, k)
             \/ opener[q].by = 2 /\ opener[q].todo \in AddTodo
             \/ opener[q].by = 3 /\ opener[q].todo \in ChatTodo
             \/ opener[q].by = 4 /\ opener[q].todo \in EvalTodo
    BY <1>2 DEF TodoIsKnown
  <2> QED
    BY <2>1, <2>2
<1> QED
  BY <1>3, <1>4

LEMMA MigratesTo ==
  ASSUME SchemaInv, NEW p \in Opener, Migrates(p), Script(opener[p].by) \in Seq(Statement)
  PROVE  /\ opener'[p].at = "migrating" /\ opener'[p].by = opener[p].by + 1
         /\ opener'[p].todo = Script(opener[p].by) /\ opener' \in [Opener -> Opening]
<1> DEFINE S == Script(opener[p].by)
           new == [opener[p] EXCEPT !.todo = S, !.by = @ + 1]
<1>1. opener \in [Opener -> Opening] /\ opener[p] \in Opening /\ opener[p].at = "migrating" /\ opener[p].by < 4
  BY DEF SchemaInv, SchemaTypes, Migrates
<1>2. S \in Seq(Statement)
  OBVIOUS
<1>3. opener' = [opener EXCEPT ![p] = new]
  BY <1>1 DEF Migrates, Opening
<1> HIDE DEF S
<1>4. opener[p].by + 1 \in 0..4
  BY <1>1 DEF Opening
<1> DEFINE mid == [opener[p] EXCEPT !.todo = S]
<1>5. mid \in Opening /\ mid.at = "migrating" /\ mid.by = opener[p].by /\ mid.todo = S
  BY <1>1, <1>2 DEF Opening
<1>8. new = [mid EXCEPT !.by = opener[p].by + 1]
  BY <1>1 DEF Opening
<1> HIDE DEF mid, new
<1>6. new \in Opening /\ new.at = "migrating" /\ new.by = opener[p].by + 1 /\ new.todo = S
  BY <1>4, <1>5, <1>8 DEF Opening
<1>7. opener'[p] = new /\ opener' \in [Opener -> Opening]
  BY <1>1, <1>3, <1>6
<1> QED
  BY <1>6, <1>7 DEF S

LEMMA FirstScriptIs ==
  ASSUME NEW p \in Opener
  PROVE  /\ FirstScript = IF base["models"] # "absent" THEN CopyAll ELSE FreshAll
         /\ Remains(CopyAll, 0) = CopyAll /\ Remains(FreshAll, 0) = FreshAll
<1>1. CopyAll \in Seq(Statement) /\ FreshAll \in Seq(Statement)
  BY CopyAllIs, OtherScriptsAre
<1> QED
  BY <1>1, RestOfAll DEF FirstScript, CopyAll, FreshAll

LEMMA FirstBegins ==
  ASSUME SchemaInv, NEW p \in Opener, Migrates(p), opener[p].by = 0
  PROVE  /\ Copies(p, 0)' \/ Freshens(p, 0)'
         /\ base["models"] # "absent" => Copies(p, 0)'
         /\ base["models"] = "absent" => Freshens(p, 0)'
         /\ InScript(p)' /\ Early(p) /\ opener' \in [Opener -> Opening]
         /\ UNCHANGED <<base, copy, column, version, kept, kills, mixed>>
<1>1. opener \in [Opener -> Opening] /\ opener[p] \in Opening /\ opener[p].at = "migrating" /\ opener[p].todo = <<>>
  BY DEF SchemaInv, SchemaTypes, Migrates
<1>2. UNCHANGED <<base, copy, column, version, kept, kills, mixed>>
  BY DEF Migrates
<1>3. CopyAll \in Seq(Statement) /\ FreshAll \in Seq(Statement) /\ CopyAll # <<>> /\ FreshAll # <<>>
  <2>1. 0 \in 0..20 /\ 0 \in 0..5
    OBVIOUS
  <2>2. Remains(CopyAll, 0) # <<>> /\ Remains(FreshAll, 0) # <<>>
    BY <2>1, RestOfCopy, RestOfFresh
  <2>3. Remains(CopyAll, 0) = CopyAll /\ Remains(FreshAll, 0) = FreshAll
    BY FirstScriptIs
  <2> QED
    BY <2>2, <2>3, CopyAllIs, OtherScriptsAre
<1>4. Script(0) = FirstScript
  BY DEF Script
<1> HIDE DEF Script, FirstScript, CopyAll, FreshAll
<1>5. Script(0) \in Seq(Statement) /\ Script(0) # <<>>
  BY <1>3, <1>4, FirstScriptIs
<1>7. /\ opener'[p].at = "migrating" /\ opener'[p].by = 1 /\ opener'[p].todo = Script(0)
      /\ opener' \in [Opener -> Opening]
  <2>1. 0 + 1 = 1
    OBVIOUS
  <2> QED
    BY <1>1, <1>5, <2>1, MigratesTo, Zenon
<1>8. Early(p) /\ InScript(p)'
  BY <1>1, <1>5, <1>7 DEF Early, InScript
<1>9. /\ base["models"] # "absent" => Remains(CopyAll, 0) = Script(0)
      /\ base["models"] = "absent" => Remains(FreshAll, 0) = Script(0)
  BY <1>4, FirstScriptIs
<1> QED
  BY <1>2, <1>7, <1>8, <1>9 DEF Copies, Freshens

LEMMA FirstBeginsWell ==
  ASSUME SchemaInv, NEW p \in Opener, Migrates(p), opener[p].by = 0, ~mixed
  PROVE  /\ ~column'
         /\ \/ \E k \in 0..20 : Copies(p, k)' /\ CopyState(k)'
            \/ \E k \in 0..5 : Freshens(p, k)' /\ FreshState(k)'
<1>1. Early(p) /\ UNCHANGED <<base, copy, column, version, kept>>
  BY FirstBegins
<1>2. \A q \in Opener : ~InScript(q)
  BY <1>1, StaysEarly DEF InScript, Migrates
<1>3. version = 0
  BY <1>1, StaysEarly
<1>4. NoCopy /\ (Old \/ New) /\ ~column
  BY <1>2, <1>3 DEF SchemaInv, FirstIsWhole
<1>5. \A t \in Measured : Place[t] \in 1..5 /\ t \in TableName /\ copy[t] = "absent" /\ ~Owned(t, 0)
  BY <1>4, PlacesAre, TablesAre DEF NoCopy, Owned
<1>6. "models" \in Measured
  BY TablesAre
<1>7. CASE Old
  <2>1. CopyState(0)
    BY <1>5, <1>7 DEF CopyState, Old
  <2>2. base["models"] # "absent"
    BY <1>5, <1>6, <1>7 DEF Old
  <2>3. Copies(p, 0)'
    BY <2>2, FirstBegins
  <2>4. CopyState(0)'
    BY <1>1, <2>1 DEF CopyState, Owned, Filled, Place, FillPlace, Measured, TableName
  <2> QED
    BY <1>1, <1>4, <2>3, <2>4
<1>8. CASE New
  <2>1. FreshState(0)
    BY <1>4, <1>5, <1>8 DEF FreshState, New
  <2>2. base["models"] = "absent"
    BY <1>5, <1>6, <1>8 DEF New
  <2>3. Freshens(p, 0)'
    BY <2>2, FirstBegins
  <2>4. FreshState(0)'
    BY <1>1, <2>1 DEF FreshState, NoCopy, Place, Measured, TableName
  <2> QED
    BY <1>1, <1>4, <2>3, <2>4
<1> QED
  BY <1>4, <1>7, <1>8

LEMMA FirstMigratesKeeps ==
  ASSUME SchemaInv, NEW p \in Opener, Migrates(p), opener[p].by = 0 PROVE SchemaInv'
<1>1. /\ Copies(p, 0)' \/ Freshens(p, 0)'
      /\ InScript(p)' /\ Early(p) /\ opener' \in [Opener -> Opening]
      /\ UNCHANGED <<base, copy, column, version, kept, kills, mixed>>
  BY FirstBegins
<1>2. SchemaTypes'
  BY <1>1 DEF SchemaInv, SchemaTypes
<1>3. TodoIsKnown'
  BY <1>1, TodoStaysKnown
<1>4. \A t \in Measured : ~Owns(p, t)' /\ ~HasFilled(p, t)'
  <2>1. \A t \in Measured : ~Owned(t, 0) /\ ~Filled(t, 0)
    BY PlacesAre, TablesAre DEF Owned, Filled
  <2>2. CASE Copies(p, 0)'
    BY <2>1, <2>2, CopyOwns
  <2>3. CASE Freshens(p, 0)'
    BY <2>3, FreshOwnsNothing
  <2> QED
    BY <1>1, <2>2, <2>3
<1>5. CopiesAreOwned' /\ CopiesAreFilled' /\ OldRowsExist'
  <2>1. \A q \in Opener \ {p} : \A t : (Owns(q, t)' <=> Owns(q, t)) /\ (HasFilled(q, t)' <=> HasFilled(q, t))
    BY GoesOn
  <2>2. \A q \in Opener, t \in Measured : (Owns(q, t)' => Owns(q, t)) /\ (HasFilled(q, t)' => HasFilled(q, t))
    BY <1>4, <2>1
  <2> QED
    BY <1>1, <2>2, OwnersStay DEF SchemaInv
<1>6. EarlyIsAlone' /\ FirstIsWhole' /\ MeasuredStay' /\ LaterIsDone' /\ VersionIsTrue'
  BY <1>1, FirstBeginsWell, FirstGoesOn
<1> QED
  BY <1>2, <1>3, <1>5, <1>6 DEF SchemaInv

\* An opener past the first migration: nobody is in it, and it is over.
LEMMA FirstIsOver ==
  ASSUME SchemaInv, ~mixed, NEW p \in Opener, opener[p].at \in {"migrating", "open"}, ~Early(p)
  PROVE  /\ version # 0 /\ NoCopy /\ \A q \in Opener : ~InScript(q) /\ ~Early(q)
         /\ \A t \in Measured : base[t] # "absent"
         /\ \A t \in kept : base[t] = "rows"
<1>1. version # 0
  BY DEF SchemaInv, EarlyIsAlone
<1>2. \A q \in Opener : ~InScript(q) /\ ~Early(q)
  BY <1>1 DEF SchemaInv, EarlyIsAlone, Early, InScript
<1> QED
  BY <1>1, <1>2 DEF SchemaInv, MeasuredStay

\* p goes on with a later script: the tables and their rows stay, what it adds is
\* there or to be done, and it sets the version when all of it is done.
LaterDone(p) ==
  /\ opener[p].by >= 2 => ThereOr(p, column, <<"addColumn", "runs">>)
  /\ opener[p].by >= 3 => /\ ThereOr(p, base["chat_sessions"] # "absent", <<"ensure", "chat_sessions">>)
                          /\ ThereOr(p, base["chat_messages"] # "absent", <<"ensure", "chat_messages">>)
  /\ opener[p].by >= 4 => ThereOr(p, base["eval_template_results"] # "absent", <<"ensure", "eval_template_results">>)
VersionHolds ==
  /\ version >= 2 => column
  /\ version >= 3 => base["chat_sessions"] # "absent" /\ base["chat_messages"] # "absent"
  /\ version >= 4 => base["eval_template_results"] # "absent"

LEMMA LaterGoesOn ==
  ASSUME SchemaInv, NEW p \in Opener, Migrates(p) \/ Executes(p), ~Early(p),
         opener'[p].by \in 2..4, copy' = copy, version' = version \/ version' \in 2..4,
         opener' \in [Opener -> Opening], base' \in [TableName -> Content], column' \in BOOLEAN,
         \A t \in TableName : (base[t] # "absent" => base'[t] # "absent") /\ (base[t] = "rows" => base'[t] = "rows"),
         column => column',
         opener'[p].todo = <<>> \/ (opener'[p].by = 2 /\ opener'[p].todo \in AddTodo)
           \/ (opener'[p].by = 3 /\ opener'[p].todo \in ChatTodo)
           \/ (opener'[p].by = 4 /\ opener'[p].todo \in EvalTodo),
         ~mixed => LaterDone(p)' /\ (version' # version => VersionHolds')
  PROVE  SchemaInv'
<1>1. /\ kills' = kills /\ kept' = kept /\ mixed' = mixed
      /\ opener[p] \in Opening /\ opener[p].at = "migrating" /\ opener'[p].at = "migrating"
  BY GoesOn
<1>2. \A q \in Opener \ {p} :
        /\ opener'[q] = opener[q]
        /\ \A t : (Owns(q, t)' <=> Owns(q, t)) /\ (HasFilled(q, t)' <=> HasFilled(q, t))
        /\ (Early(q)' <=> Early(q)) /\ (InScript(q)' <=> InScript(q))
  BY GoesOn
<1>3. SchemaTypes'
  BY <1>1 DEF SchemaInv, SchemaTypes
<1>4. TodoIsKnown'
  BY TodoStaysKnown
<1>5. ~Early(p)' /\ ~InScript(p)' /\ \A t : ~Owns(p, t)' /\ ~HasFilled(p, t)'
  BY DEF Early, InScript, Owns, HasFilled, Copies
<1>6. CopiesAreOwned' /\ CopiesAreFilled'
  <2>1. \A q \in Opener : \A t : (Owns(q, t)' => Owns(q, t)) /\ (HasFilled(q, t)' => HasFilled(q, t))
    BY <1>2, <1>5
  <2>2. CopiesAreOwned /\ CopiesAreFilled
    BY DEF SchemaInv
  <2>3. CopiesAreOwned'
    BY <2>1, <2>2 DEF CopiesAreOwned, Measured
  <2>4. CopiesAreFilled'
    BY <1>1, <2>1, <2>2 DEF CopiesAreFilled, Measured
  <2> QED
    BY <2>3, <2>4
<1>7. OldRowsExist'
  <2>1. Measured \subseteq TableName
    BY TablesAre
  <2>2. OldRowsExist
    BY DEF SchemaInv
  <2> QED
    BY <1>1, <2>1, <2>2 DEF OldRowsExist, Measured
<1>8. ASSUME ~mixed
      PROVE  /\ version # 0 /\ version' # 0 /\ NoCopy /\ \A q \in Opener : ~InScript(q)' /\ ~Early(q)'
             /\ \A t \in Measured : base[t] # "absent"
             /\ \A t \in kept : base[t] = "rows"
  <2>1. /\ version # 0 /\ NoCopy /\ \A q \in Opener : ~InScript(q) /\ ~Early(q)
        /\ \A t \in Measured : base[t] # "absent"
        /\ \A t \in kept : base[t] = "rows"
    BY <1>1, <1>8, FirstIsOver
  <2>2. version' # 0
    BY <2>1
  <2>3. \A q \in Opener : ~InScript(q)' /\ ~Early(q)'
    BY <2>1, <1>2, <1>5
  <2> QED
    BY <2>1, <2>2, <2>3
<1>9. EarlyIsAlone'
  BY <1>1, <1>8 DEF EarlyIsAlone
<1>10. FirstIsWhole'
  BY <1>1, <1>8 DEF FirstIsWhole, NoCopy, Measured
<1>11. MeasuredStay'
  <2>1. Measured \subseteq TableName /\ kept \subseteq TableName
    <3>1. kept \in {{}, Measured, TableName}
      BY DEF SchemaInv, SchemaTypes
    <3> QED
      BY <3>1, TablesAre
  <2> SUFFICES ASSUME ~mixed
               PROVE  /\ NoCopy' /\ \A t \in Measured : base'[t] # "absent"
                      /\ \A t \in kept' : base'[t] = "rows"
    BY <1>1 DEF MeasuredStay, Measured
  <2>2. NoCopy'
    BY <1>8 DEF NoCopy, Measured
  <2> QED
    BY <1>1, <1>8, <2>1, <2>2
<1>12. VersionIsTrue'
  <2> SUFFICES ASSUME ~mixed' PROVE VersionIsTrue'
    BY DEF VersionIsTrue
  <2>1. "chat_sessions" \in TableName /\ "chat_messages" \in TableName /\ "eval_template_results" \in TableName
    BY TablesAre
  <2>2. VersionHolds'
    <3>1. CASE version' = version
      <4>1. VersionIsTrue /\ ~mixed
        BY <1>1 DEF SchemaInv
      <4>2. VersionHolds
        BY <4>1 DEF VersionIsTrue, VersionHolds
      <4> QED
        BY <3>1, <4>2, <2>1 DEF VersionHolds
    <3>2. CASE version' # version
      BY <3>2, <1>1
    <3> QED
      BY <3>1, <3>2
  <2>3. \A t \in Measured : base'[t] # "absent"
    <3>1. Measured \subseteq TableName
      BY TablesAre
    <3> QED
      BY <3>1, <1>1, <1>8
  <2> QED
    BY <2>2, <2>3 DEF VersionIsTrue, VersionHolds, Measured
<1>13. LaterIsDone'
  <2> SUFFICES ASSUME ~mixed', NEW q \in Opener, opener'[q].at = "migrating" PROVE LaterDone(q)'
    BY DEF LaterIsDone, LaterDone
  <2>1. CASE q = p
    BY <2>1, <1>1
  <2>2. CASE q # p
    <3>1. "chat_sessions" \in TableName /\ "chat_messages" \in TableName /\ "eval_template_results" \in TableName
      BY TablesAre
    <3>2. LaterDone(q) /\ opener'[q] = opener[q]
      BY <2>2, <1>1, <1>2 DEF SchemaInv, LaterIsDone, LaterDone
    <3> QED
      BY <3>1, <3>2 DEF LaterDone, ThereOr
  <2> QED
    BY <2>1, <2>2
<1> QED
  BY <1>3, <1>4, <1>6, <1>7, <1>9, <1>10, <1>11, <1>12, <1>13 DEF SchemaInv

LEMMA TuplesAre ==
  ASSUME NEW x \in Statement, NEW y \in Statement, NEW z \in Statement
  PROVE  <<x, y>> \in Seq(Statement) /\ <<x, y, z>> \in Seq(Statement) /\ <<x>> \in Seq(Statement)
OBVIOUS

\* The later scripts begin.
LEMMA LaterMigrates ==
  ASSUME SchemaInv, NEW p \in Opener, Migrates(p), opener[p].by # 0,
         Script(opener[p].by) \in Seq(Statement),
         \/ opener[p].by = 1 /\ Script(1) \in AddTodo
         \/ opener[p].by = 2 /\ Script(2) \in ChatTodo
         \/ opener[p].by = 3 /\ Script(3) \in EvalTodo,
         ~mixed => LaterDone(p)'
  PROVE  SchemaInv'
<1>1. /\ opener'[p].at = "migrating" /\ opener'[p].by = opener[p].by + 1
      /\ opener'[p].todo = Script(opener[p].by) /\ opener' \in [Opener -> Opening]
  BY MigratesTo
<1>2. UNCHANGED <<base, copy, column, version>> /\ opener[p].todo = <<>> /\ ~Early(p)
  BY DEF Migrates, Early
<1>3. base' \in [TableName -> Content] /\ column' \in BOOLEAN
  BY <1>2 DEF SchemaInv, SchemaTypes
<1>4. \/ opener'[p].by = 2 /\ opener'[p].todo \in AddTodo
      \/ opener'[p].by = 3 /\ opener'[p].todo \in ChatTodo
      \/ opener'[p].by = 4 /\ opener'[p].todo \in EvalTodo
  BY <1>1
<1>5. opener'[p].by \in 2..4
  BY <1>4
<1> QED
  BY <1>1, <1>2, <1>3, <1>4, <1>5, LaterGoesOn

LEMMA MigratesKeeps == ASSUME SchemaInv, NEW p \in Opener, Migrates(p) PROVE SchemaInv'
<1>1. opener[p] \in Opening /\ opener[p].at = "migrating" /\ opener[p].todo = <<>> /\ opener[p].by \in 0..3
  BY DEF SchemaInv, SchemaTypes, Migrates, Opening
<1>2. UNCHANGED <<base, copy, column, version>> /\ (opener[p].by # 0 => ~Early(p))
  BY <1>1 DEF Migrates, Early
<1>3. \A s : s \notin ToSet(opener[p].todo)
  BY <1>1 DEF ToSet
<1>4. ~mixed => LaterDone(p)
  BY <1>1 DEF SchemaInv, LaterIsDone, LaterDone
<1>5. CASE opener[p].by = 0
  BY <1>5, FirstMigratesKeeps
<1>6. CASE opener[p].by = 1
  <2>1. Script(1) = SecondScript
    BY DEF Script
  <2>2. Script(1) = IF NoColumn THEN << <<"addColumn", "runs">>, <<"version", 2>> >> ELSE << <<"version", 2>> >>
    BY <2>1, OtherScriptsAre, Zenon
  <2>3. Script(1) \in AddTodo
    BY <2>2 DEF AddTodo
  <2>4. <<"addColumn", "runs">> \in Statement /\ <<"version", 2>> \in Statement
    BY TablesAre DEF Statement
  <2>5. Script(1) \in Seq(Statement)
    BY <2>2, <2>4
  <2>6. opener'[p].by = 2 /\ opener'[p].todo = Script(1)
    <3>1. opener'[p].by = 1 + 1 /\ opener'[p].todo = Script(1)
      BY <1>6, <2>5, MigratesTo, Zenon
    <3> QED
      BY <3>1
  <2>7. ASSUME ~mixed PROVE LaterDone(p)'
    <3>1. base["runs"] # "absent"
      BY <1>1, <1>2, <1>6, <2>7, FirstIsOver, TablesAre
    <3>2. CASE NoColumn
      <4>1. opener'[p].todo = << <<"addColumn", "runs">>, <<"version", 2>> >>
        BY <2>2, <2>6, <3>2
      <4>2. <<"addColumn", "runs">> \in ToSet(opener'[p].todo)
        BY <4>1 DEF ToSet
      <4> QED
        BY <2>6, <4>2 DEF LaterDone, ThereOr, ToSet
    <3>3. CASE ~NoColumn
      BY <1>2, <2>6, <3>1, <3>3 DEF LaterDone, ThereOr, NoColumn
    <3> QED
      BY <3>2, <3>3
  <2> QED
    BY <1>6, <2>3, <2>5, <2>7, LaterMigrates
<1>7. CASE opener[p].by = 2
  <2>2. Script(2) = << <<"ensure", "chat_sessions">>, <<"ensure", "chat_messages">>, <<"version", 3>> >>
    BY OtherScriptsAre
  <2>3. Script(2) \in ChatTodo
    BY <2>2 DEF ChatTodo
  <2>4. /\ <<"ensure", "chat_sessions">> \in Statement /\ <<"ensure", "chat_messages">> \in Statement
        /\ <<"version", 3>> \in Statement
    BY TablesAre DEF Statement
  <2>5. Script(2) \in Seq(Statement)
    BY <2>2, <2>4, TuplesAre, Zenon
  <2>6. opener'[p].by = 3 /\ opener'[p].todo = Script(2)
    <3>1. opener'[p].by = 2 + 1 /\ opener'[p].todo = Script(2)
      BY <1>7, <2>5, MigratesTo, Zenon
    <3> QED
      BY <3>1
  <2>7. ASSUME ~mixed PROVE LaterDone(p)'
    <3>1. column'
      BY <1>2, <1>3, <1>4, <1>7, <2>7 DEF LaterDone, ThereOr
    <3>2. <<"ensure", "chat_sessions">> \in ToSet(opener'[p].todo) /\ <<"ensure", "chat_messages">> \in ToSet(opener'[p].todo)
      <4>1. opener'[p].todo = << <<"ensure", "chat_sessions">>, <<"ensure", "chat_messages">>, <<"version", 3>> >>
        BY <2>2, <2>6
      <4> QED
        BY <4>1 DEF ToSet
    <3> QED
      BY <2>6, <3>1, <3>2 DEF LaterDone, ThereOr, ToSet
  <2> QED
    BY <1>7, <2>3, <2>5, <2>7, LaterMigrates
<1>8. CASE opener[p].by = 3
  <2>2. Script(3) = << <<"ensure", "eval_template_results">>, <<"version", 4>> >>
    BY OtherScriptsAre
  <2>3. Script(3) \in EvalTodo
    BY <2>2 DEF EvalTodo
  <2>4. <<"ensure", "eval_template_results">> \in Statement /\ <<"version", 4>> \in Statement
    BY TablesAre DEF Statement
  <2>5. Script(3) \in Seq(Statement)
    BY <2>2, <2>4, TuplesAre, Zenon
  <2>6. opener'[p].by = 4 /\ opener'[p].todo = Script(3)
    <3>1. opener'[p].by = 3 + 1 /\ opener'[p].todo = Script(3)
      BY <1>8, <2>5, MigratesTo, Zenon
    <3> QED
      BY <3>1
  <2>7. ASSUME ~mixed PROVE LaterDone(p)'
    <3>1. column' /\ base'["chat_sessions"] # "absent" /\ base'["chat_messages"] # "absent"
      BY <1>2, <1>3, <1>4, <1>8, <2>7 DEF LaterDone, ThereOr
    <3>2. <<"ensure", "eval_template_results">> \in ToSet(opener'[p].todo)
      <4>1. opener'[p].todo = << <<"ensure", "eval_template_results">>, <<"version", 4>> >>
        BY <2>2, <2>6
      <4> QED
        BY <4>1 DEF ToSet
    <3> QED
      BY <2>6, <3>1, <3>2 DEF LaterDone, ThereOr, ToSet
  <2> QED
    BY <1>8, <2>3, <2>5, <2>7, LaterMigrates
<1> QED
  BY <1>1, <1>5, <1>6, <1>7, <1>8

\* A program that is in the store writes to it.
LEMMA WritesKeeps == ASSUME SchemaInv, NEW p \in Opener, Writes(p) PROVE SchemaInv'
<1>1. /\ opener' = opener /\ copy' = copy /\ column' = column /\ version' = version
      /\ kills' = kills /\ mixed' = mixed /\ opener[p].at = "open"
      /\ \A t \in TableName : base[t] # "absent"
      /\ base' = [t \in TableName |-> "rows"] /\ kept' = TableName
  BY DEF Writes
<1>2. /\ Measured \subseteq TableName /\ kept' # Measured
      /\ {"chat_sessions", "chat_messages", "eval_template_results"} \subseteq TableName
  <2>1. "chat_sessions" \in TableName /\ "chat_sessions" \notin Measured
    BY TablesAre
  <2> QED
    BY <1>1, <2>1, TablesAre
<1>3. base' \in [TableName -> Content] /\ \A t \in TableName : base'[t] = "rows"
  BY <1>1 DEF Content
<1>4. SchemaTypes'
  BY <1>1, <1>3 DEF SchemaInv, SchemaTypes
<1>5. \A q \in Opener : /\ \A k : (Copies(q, k)' <=> Copies(q, k)) /\ (Freshens(q, k)' <=> Freshens(q, k))
                        /\ \A t : (Owns(q, t)' <=> Owns(q, t)) /\ (HasFilled(q, t)' <=> HasFilled(q, t))
                        /\ (Early(q)' <=> Early(q)) /\ (InScript(q)' <=> InScript(q))
  BY <1>1, OthersStay
<1>6. TodoIsKnown'
  BY <1>1, <1>5 DEF SchemaInv, TodoIsKnown
<1>7. CopiesAreOwned'
  BY <1>1, <1>5 DEF SchemaInv, CopiesAreOwned, Measured
<1>8. CopiesAreFilled' /\ OldRowsExist'
  BY <1>2 DEF CopiesAreFilled, OldRowsExist, Measured
<1>9. EarlyIsAlone'
  BY <1>1, <1>5 DEF SchemaInv, EarlyIsAlone
<1>10. ASSUME ~mixed PROVE version # 0 /\ NoCopy /\ \A q \in Opener : ~InScript(q)
  <2>1. ~Early(p)
    BY <1>1 DEF Early
  <2> QED
    BY <1>1, <1>10, <2>1, FirstIsOver
<1>11. FirstIsWhole'
  BY <1>1, <1>5, <1>10 DEF FirstIsWhole, NoCopy, Measured
<1>12. MeasuredStay'
  BY <1>1, <1>2, <1>3, <1>10 DEF MeasuredStay, NoCopy, Measured
<1>13. VersionIsTrue'
  BY <1>1, <1>2, <1>3 DEF SchemaInv, VersionIsTrue, Measured
<1>14. LaterIsDone'
  BY <1>1, <1>2, <1>3 DEF SchemaInv, LaterIsDone, ThereOr
<1> QED
  BY <1>4, <1>6, <1>7, <1>8, <1>9, <1>11, <1>12, <1>13, <1>14 DEF SchemaInv

-----------------------------------------------------------------------------
(* A statement *)

\* What a statement does to the store.
LEMMA SqlIs ==
  ASSUME SchemaInv, NEW t \in TableName, NEW s, Sql(s)
  PROVE  /\ s[1] = "create" /\ s[2] = t =>
              UNCHANGED <<base, column, version>> /\ copy' = [copy EXCEPT ![t] = "empty"]
         /\ s[1] = "fill" /\ s[2] = t =>
              UNCHANGED <<base, column, version>> /\ copy' = [copy EXCEPT ![t] = IF base[t] = "rows" THEN "rows" ELSE @]
         /\ s[1] = "drop" /\ s[2] = t =>
              UNCHANGED <<copy, version>> /\ base' = [base EXCEPT ![t] = "absent"] /\ (column' = FALSE \/ column' = column)
         /\ s[1] = "rename" /\ s[2] = t =>
              UNCHANGED <<column, version>> /\ base' = [base EXCEPT ![t] = copy[t]] /\ copy' = [copy EXCEPT ![t] = "absent"]
         /\ s[1] = "ensure" /\ s[2] = t =>
              UNCHANGED <<copy, column, version>> /\ base' = [base EXCEPT ![t] = IF @ = "absent" THEN "empty" ELSE @]
         /\ s[1] = "addColumn" => UNCHANGED <<base, copy, version>> /\ column' = TRUE
         /\ s[1] = "version" => UNCHANGED <<base, copy, column>> /\ version' = s[2]
<1>0. s[1] # "drop" => s # <<"drop", "runs">>
  OBVIOUS
<1>1. s[1] = "create" /\ s[2] = t =>
        UNCHANGED <<base, column, version>> /\ copy' = [copy EXCEPT ![t] = "empty"]
  BY <1>0 DEF Sql
<1>2. s[1] = "fill" /\ s[2] = t =>
        UNCHANGED <<base, column, version>> /\ copy' = [copy EXCEPT ![t] = IF base[t] = "rows" THEN "rows" ELSE @]
  BY <1>0 DEF Sql
<1>3. s[1] = "drop" /\ s[2] = t =>
        UNCHANGED <<copy, version>> /\ base' = [base EXCEPT ![t] = "absent"] /\ (column' = FALSE \/ column' = column)
  BY DEF Sql
<1>4. s[1] = "rename" /\ s[2] = t =>
        UNCHANGED <<column, version>> /\ base' = [base EXCEPT ![t] = copy[t]] /\ copy' = [copy EXCEPT ![t] = "absent"]
  BY <1>0 DEF Sql
<1>5. s[1] = "ensure" /\ s[2] = t =>
        UNCHANGED <<copy, column, version>> /\ base' = [base EXCEPT ![t] = IF @ = "absent" THEN "empty" ELSE @]
  BY <1>0 DEF Sql
<1>6. s[1] = "addColumn" => UNCHANGED <<base, copy, version>> /\ column' = TRUE
  BY <1>0 DEF Sql
<1>7. s[1] = "version" => UNCHANGED <<base, copy, column>> /\ version' = s[2]
  BY <1>0 DEF Sql
<1> QED
  BY <1>1, <1>2, <1>3, <1>4, <1>5, <1>6, <1>7

LEMMA ExecutesTo ==
  ASSUME SchemaInv, NEW p \in Opener, Executes(p)
  PROVE  /\ opener'[p].at = "migrating" /\ opener'[p].by = opener[p].by
         /\ opener'[p].todo = Tail(opener[p].todo) /\ opener' \in [Opener -> Opening]
         /\ opener[p].at = "migrating" /\ opener[p].todo # <<>>
         /\ Allowed(Head(opener[p].todo)) /\ Sql(Head(opener[p].todo))
         /\ kills' = kills /\ kept' = kept /\ mixed' = mixed
<1> DEFINE S == Tail(opener[p].todo)
           new == [opener[p] EXCEPT !.todo = S]
<1>1. opener \in [Opener -> Opening] /\ opener[p] \in Opening /\ opener[p].at = "migrating" /\ opener[p].todo # <<>>
  BY DEF SchemaInv, SchemaTypes, Executes
<1>2. S \in Seq(Statement)
  BY <1>1 DEF Opening
<1>3. opener' = [opener EXCEPT ![p] = new]
  BY <1>1 DEF Executes, Opening
<1> HIDE DEF S
<1>4. new \in Opening /\ new.at = "migrating" /\ new.by = opener[p].by /\ new.todo = S
  BY <1>1, <1>2 DEF Opening
<1> HIDE DEF new
<1>5. opener'[p] = new /\ opener' \in [Opener -> Opening]
  BY <1>1, <1>3, <1>4
<1>6. Allowed(Head(opener[p].todo)) /\ Sql(Head(opener[p].todo)) /\ kills' = kills /\ kept' = kept /\ mixed' = mixed
  BY DEF Executes
<1> QED
  BY <1>1, <1>4, <1>5, <1>6 DEF S

\* The kinds of steps that there are in the scripts.
LEMMA ExecutesIs ==
  ASSUME SchemaInv, NEW p \in Opener, Executes(p)
  PROVE  \/ \E k \in 0..19 : Copies(p, k)
         \/ Copies(p, 20) \/ Freshens(p, 5)
         \/ \E k \in 0..4 : Freshens(p, k)
         \/ opener[p].by = 2 /\ opener[p].todo \in AddTodo
         \/ opener[p].by = 3 /\ opener[p].todo \in ChatTodo
         \/ opener[p].by = 4 /\ opener[p].todo \in EvalTodo
<1>1. opener[p].at = "migrating" /\ opener[p].todo # <<>>
  BY DEF Executes
<1>2. \/ \E k \in 0..20 : Copies(p, k)
      \/ \E k \in 0..5 : Freshens(p, k)
      \/ opener[p].by = 2 /\ opener[p].todo \in AddTodo
      \/ opener[p].by = 3 /\ opener[p].todo \in ChatTodo
      \/ opener[p].by = 4 /\ opener[p].todo \in EvalTodo
  BY <1>1 DEF SchemaInv, TodoIsKnown
<1>3. 0..20 = 0..19 \cup {20} /\ 0..5 = 0..4 \cup {5}
  OBVIOUS
<1> QED
  BY <1>2, <1>3

\* The version is set at the end of the first migration.
LEMMA FirstEnds ==
  ASSUME SchemaInv, NEW p \in Opener, Executes(p), Copies(p, 20) \/ Freshens(p, 5)
  PROVE  SchemaInv'
<1>1. /\ opener'[p].at = "migrating" /\ opener'[p].by = opener[p].by
      /\ opener'[p].todo = Tail(opener[p].todo) /\ opener' \in [Opener -> Opening]
      /\ opener[p].at = "migrating" /\ opener[p].todo # <<>>
      /\ Sql(Head(opener[p].todo))
      /\ kills' = kills /\ kept' = kept /\ mixed' = mixed
  BY ExecutesTo
<1>2. Head(opener[p].todo) = <<"version", 1>> /\ Tail(opener[p].todo) = <<>> /\ Len(opener[p].todo) = 1
  <2>1. CopyAll[20 + 1] = <<"version", 1>> /\ FreshAll[5 + 1] = <<"version", 1>>
    BY CopyAllIs, OtherScriptsAre, SMTT(30)
  <2>2. 20 \in 0..20 /\ 5 \in 0..5 /\ 21 - 20 = 1 /\ 6 - 5 = 1
    OBVIOUS
  <2>3. CASE Copies(p, 20)
    BY <2>1, <2>2, <2>3, CopyAt
  <2>4. CASE Freshens(p, 5)
    BY <2>1, <2>2, <2>4, FreshAt
  <2> QED
    BY <2>3, <2>4
<1>3. opener[p].by = 1 /\ InScript(p) /\ Early(p)
  BY <1>1 DEF Copies, Freshens, InScript, Early
<1>4. UNCHANGED <<base, copy, column>> /\ version' = 1
  <2>1. "models" \in TableName
    BY TablesAre
  <2>2. Sql(<<"version", 1>>) /\ <<"version", 1>>[1] = "version" /\ <<"version", 1>>[2] = 1
    BY <1>1, <1>2
  <2> HIDE DEF Sql
  <2> QED
    BY <2>1, <2>2, SqlIs
<1>5. SchemaTypes'
  BY <1>1, <1>4 DEF SchemaInv, SchemaTypes
<1>6. TodoIsKnown'
  BY <1>1, <1>2, TodoStaysKnown
<1>7. \A t : ~Owns(p, t)' /\ ~HasFilled(p, t)'
  <2>1. opener'[p].todo = <<>>
    BY <1>1, <1>2
  <2>2. \A k \in 0..20 : Remains(CopyAll, k) # <<>>
    BY RestOfCopy
  <2>3. \A k \in 0..20 : ~Copies(p, k)'
    BY <2>1, <2>2 DEF Copies
  <2> QED
    BY <2>3 DEF Owns, HasFilled
<1>8. ~InScript(p)' /\ ~Early(p)'
  BY <1>1, <1>2, <1>3 DEF InScript, Early
<1>9. CopiesAreOwned' /\ CopiesAreFilled' /\ OldRowsExist'
  <2>1. \A q \in Opener \ {p} : \A t : (Owns(q, t)' <=> Owns(q, t)) /\ (HasFilled(q, t)' <=> HasFilled(q, t))
    BY GoesOn
  <2>2. \A q \in Opener, t \in Measured : (Owns(q, t)' => Owns(q, t)) /\ (HasFilled(q, t)' => HasFilled(q, t))
    BY <1>7, <2>1
  <2> QED
    BY <1>1, <1>4, <2>2, OwnersStay DEF SchemaInv
<1>10. ASSUME ~mixed
       PROVE  /\ \A q \in Opener \ {p} : opener'[q].at \notin {"migrating", "open"} /\ ~Early(q)' /\ ~InScript(q)'
              /\ NoCopy /\ (\A t \in Measured : base[t] # "absent") /\ (\A t \in kept : base[t] = "rows")
  <2>1. \A q \in Opener \ {p} : opener'[q].at \notin {"migrating", "open"} /\ ~Early(q)' /\ ~InScript(q)'
    BY <1>3, <1>10, StaysEarly
  <2>2. \A t \in Measured : Place[t] \in 1..5 /\ FillPlace[t] \in 1..5
    BY PlacesAre, TablesAre
  <2>3. ASSUME NEW k \in 0..20, Copies(p, k), CopyState(k)
        PROVE  NoCopy /\ (\A t \in Measured : base[t] # "absent") /\ (\A t \in kept : base[t] = "rows")
    <3>1. Len(opener[p].todo) = 21 - k
      BY <2>3, CopyAt
    <3>2. 21 - k = 1
      BY <1>2, <3>1
    <3>3. k = 20
      BY <3>2
    <3>4. \A t \in Measured : ~Owned(t, k) /\ base[t] = "rows" /\ copy[t] = "absent"
      BY <2>2, <2>3, <3>3 DEF CopyState, Owned
    <3>5. NoCopy
      BY <3>4 DEF NoCopy, SchemaInv, SchemaTypes
    <3>6. kept = Measured
      BY <2>3 DEF CopyState
    <3> QED
      BY <3>4, <3>5, <3>6
  <2>4. ASSUME NEW k \in 0..5, Freshens(p, k), FreshState(k)
        PROVE  NoCopy /\ (\A t \in Measured : base[t] # "absent") /\ (\A t \in kept : base[t] = "rows")
    <3>1. Len(opener[p].todo) = 6 - k
      BY <2>4, FreshAt
    <3>2. 6 - k = 1
      BY <1>2, <3>1
    <3>3. k = 5
      BY <3>2
    <3>4. \A t \in Measured : base[t] = "empty"
      BY <2>2, <2>4, <3>3, TablesAre DEF FreshState
    <3>5. NoCopy /\ kept = {}
      BY <2>4 DEF FreshState
    <3> QED
      BY <3>4, <3>5
  <2> QED
    BY <1>3, <1>10, <2>1, <2>3, <2>4 DEF SchemaInv, FirstIsWhole
<1>11. EarlyIsAlone'
  BY <1>1, <1>4, <1>8, <1>10 DEF EarlyIsAlone
<1>12. FirstIsWhole'
  BY <1>1, <1>4, <1>8, <1>10 DEF FirstIsWhole, NoCopy, Measured
<1>13. MeasuredStay' /\ VersionIsTrue'
  BY <1>1, <1>4, <1>10 DEF MeasuredStay, VersionIsTrue, NoCopy, Measured
<1>14. LaterIsDone'
  <2> SUFFICES ASSUME ~mixed', NEW q \in Opener, opener'[q].at = "migrating"
               PROVE  ~(opener'[q].by >= 2) /\ ~(opener'[q].by >= 3) /\ ~(opener'[q].by >= 4)
    BY DEF LaterIsDone
  <2>1. q = p /\ opener'[p].by = 1
    BY <1>1, <1>3, <1>10
  <2> QED
    BY <2>1
<1> QED
  BY <1>5, <1>6, <1>9, <1>11, <1>12, <1>13, <1>14 DEF SchemaInv

\* The ensuring script creates the tables that are not there.
LEMMA FreshExecutes ==
  ASSUME SchemaInv, NEW p \in Opener, Executes(p), NEW k \in 0..4, Freshens(p, k)
  PROVE  SchemaInv'
<1>1. /\ opener'[p].at = "migrating" /\ opener'[p].by = opener[p].by
      /\ opener'[p].todo = Tail(opener[p].todo) /\ opener' \in [Opener -> Opening]
      /\ opener[p].at = "migrating" /\ opener[p].todo # <<>>
      /\ Sql(Head(opener[p].todo))
      /\ kills' = kills /\ kept' = kept /\ mixed' = mixed
  BY ExecutesTo
<1>2. k \in 0..5 /\ k + 1 \in 0..5
  OBVIOUS
<1>3. Freshens(p, k + 1)'
  BY <1>1, <1>2, FreshAt DEF Freshens
<1>4. InScript(p)' /\ InScript(p) /\ Early(p)
  BY <1>1, <1>2, <1>3, RestOfFresh DEF Freshens, InScript, Early
<1>5. PICK t \in Measured : Head(opener[p].todo) = <<"ensure", t>> /\ Place[t] = k + 1
  BY <1>2, FreshAt, OtherScriptsAre
<1>6. /\ t \in TableName /\ UNCHANGED <<copy, column, version>>
      /\ base' = [base EXCEPT ![t] = IF @ = "absent" THEN "empty" ELSE @]
  <2>1. t \in TableName
    BY TablesAre
  <2>2. Sql(<<"ensure", t>>) /\ <<"ensure", t>>[1] = "ensure" /\ <<"ensure", t>>[2] = t
    BY <1>1, <1>5
  <2> HIDE DEF Sql
  <2> QED
    BY <2>1, <2>2, SqlIs
<1>7. base \in [TableName -> Content] /\ Measured \subseteq TableName
  BY TablesAre DEF SchemaInv, SchemaTypes
<1>8. /\ base' \in [TableName -> Content]
      /\ \A u \in TableName : base'[u] = IF u = t /\ base[t] = "absent" THEN "empty" ELSE base[u]
  BY <1>6, <1>7 DEF Content
<1>9. SchemaTypes'
  BY <1>1, <1>6, <1>8 DEF SchemaInv, SchemaTypes
<1>10. TodoIsKnown'
  BY <1>2, <1>3, TodoStaysKnown
<1>11. \A u \in Measured : ~Owns(p, u)' /\ ~HasFilled(p, u)'
  BY <1>2, <1>3, FreshOwnsNothing
<1>12. \A q \in Opener, u \in Measured : (Owns(q, u)' => Owns(q, u)) /\ (HasFilled(q, u)' => HasFilled(q, u))
  <2>1. \A q \in Opener \ {p} : \A u : (Owns(q, u)' <=> Owns(q, u)) /\ (HasFilled(q, u)' <=> HasFilled(q, u))
    BY GoesOn
  <2> QED
    BY <1>11, <2>1
<1>13. CopiesAreOwned' /\ CopiesAreFilled'
  <2>1. CopiesAreOwned'
    BY <1>6, <1>12 DEF SchemaInv, CopiesAreOwned, Measured
  <2>2. CopiesAreFilled'
    BY <1>1, <1>6, <1>12 DEF SchemaInv, CopiesAreFilled, Measured
  <2> QED
    BY <2>1, <2>2
<1>14. OldRowsExist'
  <2>1. \A u \in Measured : base[u] = "rows" => base'[u] = "rows"
    BY <1>7, <1>8
  <2> QED
    BY <1>1, <1>6, <2>1 DEF SchemaInv, OldRowsExist, Measured
<1>15. ASSUME ~mixed
       PROVE  /\ ~column'
              /\ \E j \in 0..5 : Freshens(p, j)' /\ FreshState(j)'
  <2>1. ~column
    BY <1>4, <1>15, StaysEarly DEF SchemaInv, FirstIsWhole
  <2>2. \/ \E j \in 0..20 : Copies(p, j) /\ CopyState(j)
        \/ \E j \in 0..5 : Freshens(p, j) /\ FreshState(j)
    BY <1>4, <1>15 DEF SchemaInv, FirstIsWhole
  <2>3. \A j \in 0..20 : ~Copies(p, j)
    <3>1. \A j \in 0..20 : Remains(CopyAll, j) # Remains(FreshAll, k)
      BY <1>2, RestsDiffer
    <3> QED
      BY <3>1 DEF Copies, Freshens
  <2>4. \A j \in 0..5 : Freshens(p, j) => j = k
    <3> SUFFICES ASSUME NEW j \in 0..5, Freshens(p, j) PROVE j = k
      OBVIOUS
    <3>1. Len(opener[p].todo) = 6 - j
      BY FreshAt
    <3>2. Len(opener[p].todo) = 6 - k
      BY <1>2, FreshAt
    <3>3. 6 - j = 6 - k
      BY <3>1, <3>2
    <3> QED
      BY <3>3
  <2>5. FreshState(k)
    BY <2>2, <2>3, <2>4
  <2>6. FreshState(k + 1)'
    <3>1. kept = {} /\ NoCopy /\ \A u \in TableName : base[u] = IF u \in Measured /\ Place[u] <= k THEN "empty" ELSE "absent"
      BY <2>5 DEF FreshState
    <3>2. \A u \in Measured : Place[u] \in 1..5 /\ (Place[u] = Place[t] => u = t)
      BY PlacesAre, TablesAre
    <3>3. \A u \in TableName : base'[u] = IF u \in Measured /\ Place[u] <= k + 1 THEN "empty" ELSE "absent"
      BY <1>5, <1>8, <3>1, <3>2
    <3>4. NoCopy' /\ kept' = {}
      BY <1>1, <1>6, <3>1 DEF NoCopy, Measured
    <3> QED
      BY <3>3, <3>4 DEF FreshState, Place, Measured, TableName
  <2> QED
    BY <1>2, <1>3, <1>6, <2>1, <2>6
<1>16. EarlyIsAlone' /\ FirstIsWhole' /\ MeasuredStay' /\ LaterIsDone' /\ VersionIsTrue'
  BY <1>4, <1>6, <1>15, FirstGoesOn
<1> QED
  BY <1>9, <1>10, <1>13, <1>14, <1>16 DEF SchemaInv

\* A later script: p has s to do first, and then the rest.
LEMMA LaterExecutes ==
  ASSUME SchemaInv, NEW p \in Opener, Executes(p),
         \/ opener[p].by = 2 /\ opener[p].todo \in AddTodo
         \/ opener[p].by = 3 /\ opener[p].todo \in ChatTodo
         \/ opener[p].by = 4 /\ opener[p].todo \in EvalTodo
  PROVE  SchemaInv'
<1> DEFINE s == Head(opener[p].todo)
<1>1. /\ opener'[p].at = "migrating" /\ opener'[p].by = opener[p].by
      /\ opener'[p].todo = Tail(opener[p].todo) /\ opener' \in [Opener -> Opening]
      /\ opener[p].at = "migrating" /\ opener[p].todo # <<>>
      /\ Sql(s)
      /\ kills' = kills /\ kept' = kept /\ mixed' = mixed
  BY ExecutesTo
<1>2. opener'[p].by \in 2..4 /\ ~Early(p)
  BY <1>1 DEF Early
<1>3. /\ base \in [TableName -> Content] /\ column \in BOOLEAN
      /\ {"chat_sessions", "chat_messages", "eval_template_results", "runs"} \subseteq TableName
  BY TablesAre DEF SchemaInv, SchemaTypes
<1>4. ~mixed => LaterDone(p)
  BY <1>1 DEF SchemaInv, LaterIsDone, LaterDone
\* A table is ensured.
<1>5.
      ASSUME NEW t \in TableName, s = <<"ensure", t>>
      PROVE  /\ UNCHANGED <<copy, column, version>> /\ base' \in [TableName -> Content]
             /\ \A u \in TableName : (base[u] # "absent" => base'[u] # "absent") /\ (base[u] = "rows" => base'[u] = "rows")
             /\ base'[t] # "absent"
  <2>1. Sql(<<"ensure", t>>) /\ <<"ensure", t>>[1] = "ensure" /\ <<"ensure", t>>[2] = t
    BY <1>1, <1>5
  <2> HIDE DEF Sql, s
  <2>2. /\ UNCHANGED <<copy, column, version>>
        /\ base' = [base EXCEPT ![t] = IF @ = "absent" THEN "empty" ELSE @]
    BY <2>1, SqlIs
  <2>3. /\ base' \in [TableName -> Content]
        /\ \A u \in TableName : base'[u] = IF u = t /\ base[t] = "absent" THEN "empty" ELSE base[u]
    BY <1>3, <2>2 DEF Content
  <2> QED
    BY <2>2, <2>3
\* The version is set.
<1>6.
      ASSUME NEW v \in 2..4, s = <<"version", v>>
      PROVE  UNCHANGED <<base, copy, column>> /\ version' = v
  <2>1. Sql(<<"version", v>>) /\ <<"version", v>>[1] = "version" /\ <<"version", v>>[2] = v
    BY <1>1, <1>6
  <2> HIDE DEF Sql, s
  <2> QED
    BY <1>3, <2>1, SqlIs
<1> HIDE DEF s
<1>7. CASE opener[p].todo = << <<"addColumn", "runs">>, <<"version", 2>> >> /\ opener[p].by = 2
  <2>1. s = <<"addColumn", "runs">> /\ opener'[p].todo = << <<"version", 2>> >>
    BY <1>1, <1>7 DEF s
  <2>2. UNCHANGED <<base, copy, version>> /\ column' = TRUE
    <3>1. Sql(<<"addColumn", "runs">>) /\ <<"addColumn", "runs">>[1] = "addColumn"
      BY <1>1, <2>1
    <3> HIDE DEF Sql
    <3> QED
      BY <1>3, <3>1, SqlIs
  <2>3. opener'[p].todo \in AddTodo
    BY <2>1 DEF AddTodo
  <2>4. LaterDone(p)'
    BY <1>1, <1>7, <2>2 DEF LaterDone, ThereOr
  <2> QED
    BY <1>1, <1>2, <1>3, <1>7, <2>2, <2>3, <2>4, LaterGoesOn
<1>8. CASE opener[p].todo = << <<"version", 2>> >> /\ opener[p].by = 2
  <2>1. s = <<"version", 2>> /\ opener'[p].todo = <<>>
    BY <1>1, <1>8 DEF s
  <2>2. UNCHANGED <<base, copy, column>> /\ version' = 2
    BY <1>6, <2>1
  <2>3. ASSUME ~mixed PROVE LaterDone(p)' /\ VersionHolds'
    <3>1. <<"addColumn", "runs">> \notin ToSet(opener[p].todo)
      BY <1>8 DEF ToSet
    <3>2. column
      BY <1>4, <1>8, <2>3, <3>1 DEF LaterDone, ThereOr
    <3> QED
      BY <1>1, <1>8, <2>2, <3>2 DEF LaterDone, ThereOr, VersionHolds
  <2> QED
    BY <1>1, <1>2, <1>3, <2>1, <2>2, <2>3, LaterGoesOn
<1>9. CASE opener[p].todo = << <<"ensure", "chat_sessions">>, <<"ensure", "chat_messages">>, <<"version", 3>> >> /\ opener[p].by = 3
  <2>1. s = <<"ensure", "chat_sessions">> /\ opener'[p].todo = << <<"ensure", "chat_messages">>, <<"version", 3>> >>
    BY <1>1, <1>9 DEF s
  <2>2. /\ UNCHANGED <<copy, column, version>> /\ base' \in [TableName -> Content]
        /\ \A u \in TableName : (base[u] # "absent" => base'[u] # "absent") /\ (base[u] = "rows" => base'[u] = "rows")
        /\ base'["chat_sessions"] # "absent"
    BY <1>3, <1>5, <2>1
  <2>3. opener'[p].todo \in ChatTodo
    BY <2>1 DEF ChatTodo
  <2>4. ASSUME ~mixed PROVE LaterDone(p)'
    <3>1. <<"addColumn", "runs">> \notin ToSet(opener[p].todo)
      BY <1>9 DEF ToSet
    <3>2. column
      BY <1>4, <1>9, <2>4, <3>1 DEF LaterDone, ThereOr
    <3>3. <<"ensure", "chat_messages">> \in ToSet(opener'[p].todo)
      BY <2>1 DEF ToSet
    <3> QED
      BY <1>1, <1>9, <2>2, <3>2, <3>3 DEF LaterDone, ThereOr, ToSet
  <2> QED
    BY <1>1, <1>2, <1>3, <1>9, <2>2, <2>3, <2>4, LaterGoesOn
<1>10. CASE opener[p].todo = << <<"ensure", "chat_messages">>, <<"version", 3>> >> /\ opener[p].by = 3
  <2>1. s = <<"ensure", "chat_messages">> /\ opener'[p].todo = << <<"version", 3>> >>
    BY <1>1, <1>10 DEF s
  <2>2. /\ UNCHANGED <<copy, column, version>> /\ base' \in [TableName -> Content]
        /\ \A u \in TableName : (base[u] # "absent" => base'[u] # "absent") /\ (base[u] = "rows" => base'[u] = "rows")
        /\ base'["chat_messages"] # "absent"
    BY <1>3, <1>5, <2>1
  <2>3. opener'[p].todo \in ChatTodo
    BY <2>1 DEF ChatTodo
  <2>4. ASSUME ~mixed PROVE LaterDone(p)'
    <3>1. <<"addColumn", "runs">> \notin ToSet(opener[p].todo) /\ <<"ensure", "chat_sessions">> \notin ToSet(opener[p].todo)
      BY <1>10 DEF ToSet
    <3>2. column /\ base["chat_sessions"] # "absent"
      BY <1>4, <1>10, <2>4, <3>1 DEF LaterDone, ThereOr
    <3> QED
      BY <1>1, <1>3, <1>10, <2>2, <3>2 DEF LaterDone, ThereOr
  <2> QED
    BY <1>1, <1>2, <1>3, <1>10, <2>2, <2>3, <2>4, LaterGoesOn
<1>11. CASE opener[p].todo = << <<"version", 3>> >> /\ opener[p].by = 3
  <2>1. s = <<"version", 3>> /\ opener'[p].todo = <<>>
    BY <1>1, <1>11 DEF s
  <2>2. UNCHANGED <<base, copy, column>> /\ version' = 3
    BY <1>6, <2>1
  <2>3. ASSUME ~mixed PROVE LaterDone(p)' /\ VersionHolds'
    <3>1. /\ <<"addColumn", "runs">> \notin ToSet(opener[p].todo)
          /\ <<"ensure", "chat_sessions">> \notin ToSet(opener[p].todo)
          /\ <<"ensure", "chat_messages">> \notin ToSet(opener[p].todo)
      BY <1>11 DEF ToSet
    <3>2. column /\ base["chat_sessions"] # "absent" /\ base["chat_messages"] # "absent"
      BY <1>4, <1>11, <2>3, <3>1 DEF LaterDone, ThereOr
    <3> QED
      BY <1>1, <1>11, <2>2, <3>2 DEF LaterDone, ThereOr, VersionHolds
  <2> QED
    BY <1>1, <1>2, <1>3, <2>1, <2>2, <2>3, LaterGoesOn
<1>12. CASE opener[p].todo = << <<"ensure", "eval_template_results">>, <<"version", 4>> >> /\ opener[p].by = 4
  <2>1. s = <<"ensure", "eval_template_results">> /\ opener'[p].todo = << <<"version", 4>> >>
    BY <1>1, <1>12 DEF s
  <2>2. /\ UNCHANGED <<copy, column, version>> /\ base' \in [TableName -> Content]
        /\ \A u \in TableName : (base[u] # "absent" => base'[u] # "absent") /\ (base[u] = "rows" => base'[u] = "rows")
        /\ base'["eval_template_results"] # "absent"
    BY <1>3, <1>5, <2>1
  <2>3. opener'[p].todo \in EvalTodo
    BY <2>1 DEF EvalTodo
  <2>4. ASSUME ~mixed PROVE LaterDone(p)'
    <3>1. /\ <<"addColumn", "runs">> \notin ToSet(opener[p].todo)
          /\ <<"ensure", "chat_sessions">> \notin ToSet(opener[p].todo)
          /\ <<"ensure", "chat_messages">> \notin ToSet(opener[p].todo)
      BY <1>12 DEF ToSet
    <3>2. column /\ base["chat_sessions"] # "absent" /\ base["chat_messages"] # "absent"
      BY <1>4, <1>12, <2>4, <3>1 DEF LaterDone, ThereOr
    <3> QED
      BY <1>1, <1>3, <1>12, <2>2, <3>2 DEF LaterDone, ThereOr
  <2> QED
    BY <1>1, <1>2, <1>3, <1>12, <2>2, <2>3, <2>4, LaterGoesOn
<1>13. CASE opener[p].todo = << <<"version", 4>> >> /\ opener[p].by = 4
  <2>1. s = <<"version", 4>> /\ opener'[p].todo = <<>>
    BY <1>1, <1>13 DEF s
  <2>2. UNCHANGED <<base, copy, column>> /\ version' = 4
    BY <1>6, <2>1
  <2>3. ASSUME ~mixed PROVE LaterDone(p)' /\ VersionHolds'
    <3>1. /\ <<"addColumn", "runs">> \notin ToSet(opener[p].todo)
          /\ <<"ensure", "chat_sessions">> \notin ToSet(opener[p].todo)
          /\ <<"ensure", "chat_messages">> \notin ToSet(opener[p].todo)
          /\ <<"ensure", "eval_template_results">> \notin ToSet(opener[p].todo)
      BY <1>13 DEF ToSet
    <3>2. /\ column /\ base["chat_sessions"] # "absent" /\ base["chat_messages"] # "absent"
          /\ base["eval_template_results"] # "absent"
      BY <1>4, <1>13, <2>3, <3>1 DEF LaterDone, ThereOr
    <3> QED
      BY <1>1, <1>13, <2>2, <3>2 DEF LaterDone, ThereOr, VersionHolds
  <2> QED
    BY <1>1, <1>2, <1>3, <2>1, <2>2, <2>3, LaterGoesOn
<1> QED
  BY <1>7, <1>8, <1>9, <1>10, <1>11, <1>12, <1>13 DEF AddTodo, ChatTodo, EvalTodo

-----------------------------------------------------------------------------
(* A statement of the copying script *)

LEMMA CopyGoesOn ==
  ASSUME SchemaInv, NEW p \in Opener, Executes(p), NEW k \in 0..19, Copies(p, k)
  PROVE  /\ Copies(p, k + 1)' /\ InScript(p)' /\ InScript(p) /\ Early(p)
         /\ Sql(CopyAll[k + 1]) /\ Allowed(CopyAll[k + 1])
         /\ kept' = kept /\ kills' = kills /\ mixed' = mixed /\ opener' \in [Opener -> Opening]
         /\ \A t : (Owns(p, t) <=> Owned(t, k)) /\ (HasFilled(p, t) <=> Filled(t, k))
         /\ \A t : (Owns(p, t)' <=> Owned(t, k + 1)) /\ (HasFilled(p, t)' <=> Filled(t, k + 1))
         /\ \A q \in Opener \ {p} :
              \A t : (Owns(q, t)' <=> Owns(q, t)) /\ (HasFilled(q, t)' <=> HasFilled(q, t))
<1>1. /\ opener'[p].at = "migrating" /\ opener'[p].by = opener[p].by
      /\ opener'[p].todo = Tail(opener[p].todo) /\ opener' \in [Opener -> Opening]
      /\ opener[p].at = "migrating" /\ opener[p].todo # <<>>
      /\ Sql(Head(opener[p].todo)) /\ Allowed(Head(opener[p].todo))
      /\ kills' = kills /\ kept' = kept /\ mixed' = mixed
  BY ExecutesTo
<1>2. k \in 0..20 /\ k + 1 \in 0..20
  OBVIOUS
<1>3. Head(opener[p].todo) = CopyAll[k + 1] /\ Tail(opener[p].todo) = Remains(CopyAll, k + 1)
  BY <1>2, CopyAt
<1>4. Copies(p, k + 1)'
  BY <1>1, <1>3 DEF Copies
<1>5. Remains(CopyAll, k + 1) # <<>>
  BY <1>2, RestOfCopy
<1>6. InScript(p)' /\ InScript(p) /\ Early(p)
  BY <1>1, <1>3, <1>5 DEF Copies, InScript, Early
<1>7. \A t : (Owns(p, t) <=> Owned(t, k)) /\ (HasFilled(p, t) <=> Filled(t, k))
  BY <1>2, CopyOwns
<1>8. \A t : (Owns(p, t)' <=> Owned(t, k + 1)) /\ (HasFilled(p, t)' <=> Filled(t, k + 1))
  BY <1>2, <1>4, CopyOwns
<1>9. \A q \in Opener \ {p} : \A t : (Owns(q, t)' <=> Owns(q, t)) /\ (HasFilled(q, t)' <=> HasFilled(q, t))
  BY GoesOn
<1> QED
  BY <1>1, <1>3, <1>4, <1>6, <1>7, <1>8, <1>9, Zenon

LEMMA FilledIsOwned ==
  /\ \A t \in Measured : Place[t] \in 1..5 /\ FillPlace[t] \in 1..5
  /\ \A t \in Measured, u \in Measured : (Place[t] = Place[u] => t = u) /\ (FillPlace[t] = FillPlace[u] => t = u)
  /\ \A q \in Opener, t \in Measured : HasFilled(q, t) => Owns(q, t)
<1>1. /\ \A t \in Measured : Place[t] \in 1..5 /\ FillPlace[t] \in 1..5
      /\ \A t \in Measured, u \in Measured : (Place[t] = Place[u] => t = u) /\ (FillPlace[t] = FillPlace[u] => t = u)
  BY PlacesAre, TablesAre
<1>2. \A t \in Measured, k \in 0..20 : Filled(t, k) => Owned(t, k)
  BY <1>1 DEF Filled, Owned
<1> QED
  BY <1>1, <1>2 DEF HasFilled, Owns

\* The store that the next statement of the copying leaves.
CopyStep(k) ==
  /\ version' = version /\ column' \in {FALSE, column}
  /\ base' \in [TableName -> Content] /\ copy' \in [Measured -> Content]
  /\ CopiesAreOwned' /\ CopiesAreFilled' /\ OldRowsExist'
  /\ CopyState(k) => CopyState(k + 1)'

\* The tables of a copying are those of its next step.
LEMMA CopyStateIs ==
  ASSUME NEW j \in 0..20
  PROVE  /\ CopyState(j)' <=>
              /\ kept' = Measured
              /\ \A t \in TableName \ Measured : base'[t] = "absent"
              /\ \A t \in Measured :
                   /\ base'[t] = IF 16 - Place[t] <= j /\ j < 15 + Place[t] THEN "absent" ELSE "rows"
                   /\ copy'[t] = IF ~Owned(t, j) THEN "absent" ELSE IF Filled(t, j) THEN "rows" ELSE "empty"
         /\ CopyState(j) <=>
              /\ kept = Measured
              /\ \A t \in TableName \ Measured : base[t] = "absent"
              /\ \A t \in Measured :
                   /\ base[t] = IF 16 - Place[t] <= j /\ j < 15 + Place[t] THEN "absent" ELSE "rows"
                   /\ copy[t] = IF ~Owned(t, j) THEN "absent" ELSE IF Filled(t, j) THEN "rows" ELSE "empty"
BY DEF CopyState, Owned, Filled, Place, FillPlace, Measured, TableName

LEMMA CreateStep ==
  ASSUME SchemaInv, NEW p \in Opener, Executes(p), NEW k \in 0..4, Copies(p, k)
  PROVE  CopyStep(k)
<1>0. k \in 0..19 /\ k \in 0..20 /\ k + 1 \in 0..20
  OBVIOUS
<1>1. PICK t \in Measured : CopyAll[k + 1] = <<"create", t>> /\ Place[t] = k + 1
  BY CopyAllIs
<1>2. /\ Sql(<<"create", t>>) /\ Allowed(<<"create", t>>) /\ kept' = kept
      /\ \A u : (Owns(p, u) <=> Owned(u, k)) /\ (HasFilled(p, u) <=> Filled(u, k))
      /\ \A u : (Owns(p, u)' <=> Owned(u, k + 1)) /\ (HasFilled(p, u)' <=> Filled(u, k + 1))
      /\ \A q \in Opener \ {p} :
           \A u : (Owns(q, u)' <=> Owns(q, u)) /\ (HasFilled(q, u)' <=> HasFilled(q, u))
  BY <1>0, <1>1, CopyGoesOn
<1>3. /\ base \in [TableName -> Content] /\ copy \in [Measured -> Content] /\ t \in TableName
      /\ CopiesAreOwned /\ CopiesAreFilled /\ OldRowsExist
  BY TablesAre DEF SchemaInv, SchemaTypes
<1>4. copy[t] = "absent" /\ UNCHANGED <<base, column, version>> /\ copy' = [copy EXCEPT ![t] = "empty"]
  <2>1. copy[t] = "absent"
    BY <1>2 DEF Allowed
  <2>2. <<"create", t>>[1] = "create" /\ <<"create", t>>[2] = t
    OBVIOUS
  <2> QED
    BY <1>2, <1>3, <2>1, <2>2, SqlIs
<1>5. copy' \in [Measured -> Content] /\ \A u \in Measured : copy'[u] = IF u = t THEN "empty" ELSE copy[u]
  BY <1>3, <1>4 DEF Content
<1>6. /\ \A u \in Measured : (Owned(u, k + 1) <=> Owned(u, k) \/ u = t) /\ ~Filled(u, k + 1) /\ ~Filled(u, k)
      /\ ~Owned(t, k)
  BY <1>1, FilledIsOwned DEF Owned, Filled
<1>7. \A q \in Opener : ~Owns(q, t) /\ ~HasFilled(q, t)
  BY <1>3, <1>4, FilledIsOwned DEF CopiesAreOwned
<1>8. CopiesAreOwned'
  <2> SUFFICES ASSUME NEW q \in Opener, NEW u \in Measured, Owns(q, u)'
               PROVE  copy'[u] # "absent" /\ \A r \in Opener : Owns(r, u)' => r = q
    BY DEF CopiesAreOwned, Measured
  <2>1. CASE u = t
    BY <2>1, <1>2, <1>5, <1>7
  <2>2. CASE u # t
    <3>1. \A r \in Opener : Owns(r, u)' => Owns(r, u)
      BY <2>2, <1>2, <1>6
    <3> QED
      BY <2>2, <3>1, <1>3, <1>5 DEF CopiesAreOwned
  <2> QED
    BY <2>1, <2>2
<1>9. CopiesAreFilled'
  <2> SUFFICES ASSUME kept = Measured, NEW q \in Opener, NEW u \in Measured, HasFilled(q, u)'
               PROVE  copy'[u] = "rows"
    BY <1>2 DEF CopiesAreFilled, Measured
  <2>1. q # p /\ HasFilled(q, u)
    BY <1>2, <1>6
  <2> QED
    BY <2>1, <1>3, <1>5, <1>7 DEF CopiesAreFilled
<1>10. OldRowsExist'
  BY <1>2, <1>3, <1>4, <1>5 DEF OldRowsExist, Measured
<1>11. ASSUME CopyState(k) PROVE CopyState(k + 1)'
  <2>1. /\ kept = Measured
        /\ \A u \in TableName \ Measured : base[u] = "absent"
        /\ \A u \in Measured :
             /\ base[u] = IF 16 - Place[u] <= k /\ k < 15 + Place[u] THEN "absent" ELSE "rows"
             /\ copy[u] = IF ~Owned(u, k) THEN "absent" ELSE IF Filled(u, k) THEN "rows" ELSE "empty"
    BY <1>0, <1>11, CopyStateIs
  <2>2. \A u \in Measured : (16 - Place[u] <= k + 1 /\ k + 1 < 15 + Place[u]) <=> (16 - Place[u] <= k /\ k < 15 + Place[u])
    BY FilledIsOwned
  <2>3. \A u \in Measured : copy'[u] = IF ~Owned(u, k + 1) THEN "absent" ELSE IF Filled(u, k + 1) THEN "rows" ELSE "empty"
    BY <2>1, <1>5, <1>6
  <2>4. \A u \in Measured : base'[u] = IF 16 - Place[u] <= k + 1 /\ k + 1 < 15 + Place[u] THEN "absent" ELSE "rows"
    BY <2>1, <2>2, <1>4
  <2> QED
    BY <1>0, <1>2, <1>4, <2>1, <2>3, <2>4, CopyStateIs
<1> QED
  BY <1>3, <1>4, <1>5, <1>8, <1>9, <1>10, <1>11 DEF CopyStep

LEMMA FillStep ==
  ASSUME SchemaInv, NEW p \in Opener, Executes(p), NEW k \in 5..9, Copies(p, k)
  PROVE  CopyStep(k)
<1>0. k \in 0..19 /\ k \in 0..20 /\ k + 1 \in 0..20
  OBVIOUS
<1>1. PICK t \in Measured : CopyAll[k + 1] = <<"fill", t>> /\ FillPlace[t] = k - 4
  BY CopyAllIs
<1>2. /\ Sql(<<"fill", t>>) /\ Allowed(<<"fill", t>>) /\ kept' = kept
      /\ \A u : (Owns(p, u) <=> Owned(u, k)) /\ (HasFilled(p, u) <=> Filled(u, k))
      /\ \A u : (Owns(p, u)' <=> Owned(u, k + 1)) /\ (HasFilled(p, u)' <=> Filled(u, k + 1))
      /\ \A q \in Opener \ {p} :
           \A u : (Owns(q, u)' <=> Owns(q, u)) /\ (HasFilled(q, u)' <=> HasFilled(q, u))
  BY <1>0, <1>1, CopyGoesOn
<1>3. /\ base \in [TableName -> Content] /\ copy \in [Measured -> Content] /\ t \in TableName
      /\ CopiesAreOwned /\ CopiesAreFilled /\ OldRowsExist
  BY TablesAre DEF SchemaInv, SchemaTypes
<1>4. /\ UNCHANGED <<base, column, version>>
      /\ copy' = [copy EXCEPT ![t] = IF base[t] = "rows" THEN "rows" ELSE @]
  <2>2. <<"fill", t>>[1] = "fill" /\ <<"fill", t>>[2] = t
    OBVIOUS
  <2> QED
    BY <1>2, <1>3, <2>2, SqlIs
<1>5. /\ copy' \in [Measured -> Content]
      /\ \A u \in Measured : copy'[u] = IF u = t /\ base[t] = "rows" THEN "rows" ELSE copy[u]
  BY <1>3, <1>4 DEF Content
<1>6. \A u \in Measured : Owned(u, k + 1) /\ Owned(u, k) /\ (Filled(u, k + 1) <=> Filled(u, k) \/ u = t)
  <2>1. ASSUME NEW u \in Measured PROVE FillPlace[u] <= k - 4 <=> FillPlace[u] <= k - 5 \/ u = t
    BY <1>1, FilledIsOwned
  <2> QED
    BY <2>1, FilledIsOwned DEF Owned, Filled
<1>7. CopiesAreOwned'
  <2> SUFFICES ASSUME NEW q \in Opener, NEW u \in Measured, Owns(q, u)'
               PROVE  copy'[u] # "absent" /\ \A r \in Opener : Owns(r, u)' => r = q
    BY DEF CopiesAreOwned, Measured
  <2>1. \A r \in Opener : Owns(r, u)' => Owns(r, u)
    BY <1>2, <1>6
  <2> QED
    BY <2>1, <1>3, <1>5 DEF CopiesAreOwned
<1>8. kept = Measured => copy'[t] = "rows"
  BY <1>3, <1>5 DEF OldRowsExist
<1>9. CopiesAreFilled'
  <2> SUFFICES ASSUME kept = Measured, NEW q \in Opener, NEW u \in Measured, HasFilled(q, u)'
               PROVE  copy'[u] = "rows"
    BY <1>2 DEF CopiesAreFilled, Measured
  <2>1. CASE u = t
    BY <2>1, <1>8
  <2>2. CASE u # t
    <3>1. HasFilled(q, u)
      BY <2>2, <1>2, <1>6
    <3> QED
      BY <3>1, <2>2, <1>3, <1>5 DEF CopiesAreFilled
  <2> QED
    BY <2>1, <2>2
<1>10. OldRowsExist'
  BY <1>2, <1>3, <1>4, <1>5 DEF OldRowsExist, Measured
<1>11. ASSUME CopyState(k) PROVE CopyState(k + 1)'
  <2>1. /\ kept = Measured
        /\ \A u \in TableName \ Measured : base[u] = "absent"
        /\ \A u \in Measured :
             /\ base[u] = IF 16 - Place[u] <= k /\ k < 15 + Place[u] THEN "absent" ELSE "rows"
             /\ copy[u] = IF ~Owned(u, k) THEN "absent" ELSE IF Filled(u, k) THEN "rows" ELSE "empty"
    BY <1>0, <1>11, CopyStateIs
  <2>2. \A u \in Measured : ~(16 - Place[u] <= k + 1 /\ k + 1 < 15 + Place[u]) /\ ~(16 - Place[u] <= k /\ k < 15 + Place[u])
    BY FilledIsOwned
  <2>3. \A u \in Measured : copy'[u] = IF ~Owned(u, k + 1) THEN "absent" ELSE IF Filled(u, k + 1) THEN "rows" ELSE "empty"
    BY <2>1, <2>2, <1>5, <1>6
  <2>4. \A u \in Measured : base'[u] = IF 16 - Place[u] <= k + 1 /\ k + 1 < 15 + Place[u] THEN "absent" ELSE "rows"
    BY <2>1, <2>2, <1>4
  <2> QED
    BY <1>0, <1>2, <1>4, <2>1, <2>3, <2>4, CopyStateIs
<1> QED
  BY <1>3, <1>4, <1>5, <1>7, <1>9, <1>10, <1>11 DEF CopyStep

LEMMA DropStep ==
  ASSUME SchemaInv, NEW p \in Opener, Executes(p), NEW k \in 10..14, Copies(p, k)
  PROVE  CopyStep(k)
<1>0. k \in 0..19 /\ k \in 0..20 /\ k + 1 \in 0..20
  OBVIOUS
<1>1. PICK t \in Measured : CopyAll[k + 1] = <<"drop", t>> /\ Place[t] = 15 - k
  BY CopyAllIs
<1>2. /\ Sql(<<"drop", t>>) /\ kept' = kept
      /\ \A u : (Owns(p, u) <=> Owned(u, k)) /\ (HasFilled(p, u) <=> Filled(u, k))
      /\ \A u : (Owns(p, u)' <=> Owned(u, k + 1)) /\ (HasFilled(p, u)' <=> Filled(u, k + 1))
      /\ \A q \in Opener \ {p} :
           \A u : (Owns(q, u)' <=> Owns(q, u)) /\ (HasFilled(q, u)' <=> HasFilled(q, u))
  BY <1>0, <1>1, CopyGoesOn
<1>3. /\ base \in [TableName -> Content] /\ copy \in [Measured -> Content] /\ t \in TableName
      /\ CopiesAreOwned /\ CopiesAreFilled /\ OldRowsExist
  BY TablesAre DEF SchemaInv, SchemaTypes
<1>4. UNCHANGED <<copy, version>> /\ base' = [base EXCEPT ![t] = "absent"] /\ column' \in {FALSE, column}
  <2>1. <<"drop", t>>[1] = "drop" /\ <<"drop", t>>[2] = t
    OBVIOUS
  <2>2. UNCHANGED <<copy, version>> /\ base' = [base EXCEPT ![t] = "absent"] /\ (column' = FALSE \/ column' = column)
    BY <1>2, <1>3, <2>1, SqlIs
  <2>3. column' \in {FALSE, column}
    BY <2>2, Zenon
  <2> QED
    BY <2>2, <2>3
<1>5. base' \in [TableName -> Content] /\ \A u \in TableName : base'[u] = IF u = t THEN "absent" ELSE base[u]
  BY <1>3, <1>4 DEF Content
<1>6. \A u \in Measured : Owned(u, k + 1) /\ Owned(u, k) /\ Filled(u, k + 1) /\ Filled(u, k)
  BY FilledIsOwned DEF Owned, Filled
<1>7. \A q \in Opener, u \in Measured : (Owns(q, u)' => Owns(q, u)) /\ (HasFilled(q, u)' => HasFilled(q, u))
  BY <1>2, <1>6
<1>8. CopiesAreOwned' /\ CopiesAreFilled'
  <2>1. CopiesAreOwned'
    BY <1>3, <1>4, <1>7 DEF CopiesAreOwned, Measured
  <2>2. CopiesAreFilled'
    BY <1>2, <1>3, <1>4, <1>7 DEF CopiesAreFilled, Measured
  <2> QED
    BY <2>1, <2>2
<1>9. OldRowsExist'
  <2> SUFFICES ASSUME kept = Measured, NEW u \in Measured PROVE base'[u] = "rows" \/ copy'[u] = "rows"
    BY <1>2 DEF OldRowsExist, Measured
  <2>1. HasFilled(p, u)
    BY <1>2, <1>6
  <2> QED
    BY <2>1, <1>3, <1>4 DEF CopiesAreFilled
<1>10. ASSUME CopyState(k) PROVE CopyState(k + 1)'
  <2>1. /\ kept = Measured
        /\ \A u \in TableName \ Measured : base[u] = "absent"
        /\ \A u \in Measured :
             /\ base[u] = IF 16 - Place[u] <= k /\ k < 15 + Place[u] THEN "absent" ELSE "rows"
             /\ copy[u] = IF ~Owned(u, k) THEN "absent" ELSE IF Filled(u, k) THEN "rows" ELSE "empty"
    BY <1>0, <1>10, CopyStateIs
  <2>2. \A u \in Measured : (16 - Place[u] <= k + 1 /\ k + 1 < 15 + Place[u]) <=> ((16 - Place[u] <= k /\ k < 15 + Place[u]) \/ u = t)
    BY <1>1, FilledIsOwned
  <2>3. \A u \in Measured : copy'[u] = IF ~Owned(u, k + 1) THEN "absent" ELSE IF Filled(u, k + 1) THEN "rows" ELSE "empty"
    BY <2>1, <1>4, <1>6
  <2>4. \A u \in Measured : base'[u] = IF 16 - Place[u] <= k + 1 /\ k + 1 < 15 + Place[u] THEN "absent" ELSE "rows"
    BY <2>1, <2>2, <1>5, TablesAre
  <2>5. \A u \in TableName \ Measured : base'[u] = "absent"
    BY <2>1, <1>5
  <2> QED
    BY <1>0, <1>2, <2>1, <2>3, <2>4, <2>5, CopyStateIs
<1> QED
  BY <1>3, <1>4, <1>5, <1>8, <1>9, <1>10 DEF CopyStep

LEMMA RenameStep ==
  ASSUME SchemaInv, NEW p \in Opener, Executes(p), NEW k \in 15..19, Copies(p, k)
  PROVE  CopyStep(k)
<1>0. k \in 0..19 /\ k \in 0..20 /\ k + 1 \in 0..20
  OBVIOUS
<1>1. PICK t \in Measured : CopyAll[k + 1] = <<"rename", t>> /\ Place[t] = k - 14
  BY CopyAllIs
<1>2. /\ Sql(<<"rename", t>>) /\ Allowed(<<"rename", t>>) /\ kept' = kept
      /\ \A u : (Owns(p, u) <=> Owned(u, k)) /\ (HasFilled(p, u) <=> Filled(u, k))
      /\ \A u : (Owns(p, u)' <=> Owned(u, k + 1)) /\ (HasFilled(p, u)' <=> Filled(u, k + 1))
      /\ \A q \in Opener \ {p} :
           \A u : (Owns(q, u)' <=> Owns(q, u)) /\ (HasFilled(q, u)' <=> HasFilled(q, u))
  BY <1>0, <1>1, CopyGoesOn
<1>3. /\ base \in [TableName -> Content] /\ copy \in [Measured -> Content] /\ t \in TableName
      /\ CopiesAreOwned /\ CopiesAreFilled /\ OldRowsExist
  BY TablesAre DEF SchemaInv, SchemaTypes
<1>4. /\ UNCHANGED <<column, version>>
      /\ base' = [base EXCEPT ![t] = copy[t]] /\ copy' = [copy EXCEPT ![t] = "absent"]
  <2>2. <<"rename", t>>[1] = "rename" /\ <<"rename", t>>[2] = t
    OBVIOUS
  <2> QED
    BY <1>2, <1>3, <2>2, SqlIs
<1>5. /\ copy' \in [Measured -> Content] /\ base' \in [TableName -> Content]
      /\ \A u \in Measured : copy'[u] = IF u = t THEN "absent" ELSE copy[u]
      /\ \A u \in TableName : base'[u] = IF u = t THEN copy[t] ELSE base[u]
  BY <1>3, <1>4 DEF Content
<1>6. \A u \in Measured : /\ Owned(u, k) <=> Owned(u, k + 1) \/ u = t
                          /\ Filled(u, k) <=> Filled(u, k + 1) \/ u = t
                          /\ u = t => ~Owned(u, k + 1) /\ ~Filled(u, k + 1)
                          /\ Owned(u, k + 1) <=> Filled(u, k + 1)
  BY <1>1, FilledIsOwned DEF Owned, Filled
<1>7. /\ Owns(p, t) /\ HasFilled(p, t)
      /\ \A q \in Opener : (Owns(q, t) \/ HasFilled(q, t)) => q = p
  BY <1>2, <1>3, <1>6, FilledIsOwned DEF CopiesAreOwned
<1>8. /\ \A q \in Opener : ~Owns(q, t)' /\ ~HasFilled(q, t)'
      /\ \A q \in Opener, u \in Measured : (Owns(q, u)' => Owns(q, u)) /\ (HasFilled(q, u)' => HasFilled(q, u))
  <2>1. ~Owns(p, t)' /\ ~HasFilled(p, t)'
    BY <1>2, <1>6
  <2>2. \A q \in Opener \ {p} : ~Owns(q, t)' /\ ~HasFilled(q, t)'
    BY <1>2, <1>7
  <2>3. \A u \in Measured : (Owns(p, u)' => Owns(p, u)) /\ (HasFilled(p, u)' => HasFilled(p, u))
    BY <1>2, <1>6
  <2> QED
    BY <1>2, <2>1, <2>2, <2>3
<1>9. CopiesAreOwned'
  <2> SUFFICES ASSUME NEW q \in Opener, NEW u \in Measured, Owns(q, u)'
               PROVE  copy'[u] # "absent" /\ \A r \in Opener : Owns(r, u)' => r = q
    BY DEF CopiesAreOwned, Measured
  <2> QED
    BY <1>3, <1>5, <1>8 DEF CopiesAreOwned
<1>10. CopiesAreFilled'
  <2> SUFFICES ASSUME kept = Measured, NEW q \in Opener, NEW u \in Measured, HasFilled(q, u)'
               PROVE  copy'[u] = "rows"
    BY <1>2 DEF CopiesAreFilled, Measured
  <2> QED
    BY <1>3, <1>5, <1>8 DEF CopiesAreFilled
<1>11. OldRowsExist'
  <2> SUFFICES ASSUME kept = Measured, NEW u \in Measured PROVE base'[u] = "rows" \/ copy'[u] = "rows"
    BY <1>2 DEF OldRowsExist, Measured
  <2>1. copy[t] = "rows" /\ Measured \subseteq TableName
    BY <1>3, <1>7, TablesAre DEF CopiesAreFilled
  <2> QED
    BY <2>1, <1>3, <1>5 DEF OldRowsExist
<1>12. ASSUME CopyState(k) PROVE CopyState(k + 1)'
  <2>1. /\ kept = Measured
        /\ \A u \in TableName \ Measured : base[u] = "absent"
        /\ \A u \in Measured :
             /\ base[u] = IF 16 - Place[u] <= k /\ k < 15 + Place[u] THEN "absent" ELSE "rows"
             /\ copy[u] = IF ~Owned(u, k) THEN "absent" ELSE IF Filled(u, k) THEN "rows" ELSE "empty"
    BY <1>0, <1>12, CopyStateIs
  <2>2. \A u \in Measured : (16 - Place[u] <= k /\ k < 15 + Place[u]) <=> ((16 - Place[u] <= k + 1 /\ k + 1 < 15 + Place[u]) \/ u = t)
    BY <1>1, FilledIsOwned
  <2>3. ~(16 - Place[t] <= k + 1 /\ k + 1 < 15 + Place[t]) /\ copy[t] = "rows"
    BY <1>1, <1>6, <2>1
  <2>4. \A u \in Measured : copy'[u] = IF ~Owned(u, k + 1) THEN "absent" ELSE IF Filled(u, k + 1) THEN "rows" ELSE "empty"
    BY <2>1, <1>5, <1>6
  <2>5. \A u \in Measured : base'[u] = IF 16 - Place[u] <= k + 1 /\ k + 1 < 15 + Place[u] THEN "absent" ELSE "rows"
    BY <2>1, <2>2, <2>3, <1>5, TablesAre
  <2>6. \A u \in TableName \ Measured : base'[u] = "absent"
    BY <2>1, <1>5
  <2> QED
    BY <1>0, <1>2, <2>1, <2>4, <2>5, <2>6, CopyStateIs
<1> QED
  BY <1>4, <1>5, <1>9, <1>10, <1>11, <1>12 DEF CopyStep

LEMMA CopyExecutes ==
  ASSUME SchemaInv, NEW p \in Opener, Executes(p), NEW k \in 0..19, Copies(p, k)
  PROVE  SchemaInv'
<1>1. CopyStep(k)
  <2>1. k \in 0..4 \/ k \in 5..9 \/ k \in 10..14 \/ k \in 15..19
    OBVIOUS
  <2> QED
    BY <2>1, CreateStep, FillStep, DropStep, RenameStep
<1>2. k + 1 \in 0..20 /\ k \in 0..20
  OBVIOUS
<1>3. /\ Copies(p, k + 1)' /\ InScript(p)' /\ InScript(p) /\ Early(p)
      /\ kept' = kept /\ kills' = kills /\ mixed' = mixed /\ opener' \in [Opener -> Opening]
  BY CopyGoesOn
<1>4. SchemaTypes'
  BY <1>1, <1>3 DEF SchemaInv, SchemaTypes, CopyStep
<1>5. TodoIsKnown'
  BY <1>2, <1>3, TodoStaysKnown
<1>6. CopiesAreOwned' /\ CopiesAreFilled' /\ OldRowsExist' /\ version' = version
  BY <1>1 DEF CopyStep
<1>7. ASSUME ~mixed PROVE ~column' /\ \E j \in 0..20 : Copies(p, j)' /\ CopyState(j)'
  <2>1. ~column
    BY <1>3, <1>7, StaysEarly DEF SchemaInv, FirstIsWhole
  <2>2. ~column'
    BY <1>1, <2>1 DEF CopyStep
  <2>3. \/ \E j \in 0..20 : Copies(p, j) /\ CopyState(j)
        \/ \E j \in 0..5 : Freshens(p, j) /\ FreshState(j)
    BY <1>3, <1>7 DEF SchemaInv, FirstIsWhole
  <2>4. \A j \in 0..5 : ~Freshens(p, j)
    <3>1. \A j \in 0..5 : Remains(CopyAll, k) # Remains(FreshAll, j)
      BY <1>2, RestsDiffer
    <3> QED
      BY <3>1 DEF Copies, Freshens
  <2>5. \A j \in 0..20 : Copies(p, j) => j = k
    <3> SUFFICES ASSUME NEW j \in 0..20, Copies(p, j) PROVE j = k
      OBVIOUS
    <3>1. Len(opener[p].todo) = 21 - j
      BY CopyAt
    <3>2. Len(opener[p].todo) = 21 - k
      BY <1>2, CopyAt
    <3>3. 21 - j = 21 - k
      BY <3>1, <3>2
    <3> QED
      BY <3>3
  <2>6. CopyState(k)
    BY <2>3, <2>4, <2>5
  <2>7. CopyState(k + 1)'
    BY <1>1, <2>6 DEF CopyStep
  <2> QED
    BY <1>2, <1>3, <2>2, <2>7
<1>8. EarlyIsAlone' /\ FirstIsWhole' /\ MeasuredStay' /\ LaterIsDone' /\ VersionIsTrue'
  BY <1>3, <1>6, <1>7, FirstGoesOn
<1> QED
  BY <1>4, <1>5, <1>6, <1>8 DEF SchemaInv

LEMMA ExecutesKeeps == ASSUME SchemaInv, NEW p \in Opener, Executes(p) PROVE SchemaInv'
<1>1. \/ \E k \in 0..19 : Copies(p, k)
      \/ Copies(p, 20) \/ Freshens(p, 5)
      \/ \E k \in 0..4 : Freshens(p, k)
      \/ opener[p].by = 2 /\ opener[p].todo \in AddTodo
      \/ opener[p].by = 3 /\ opener[p].todo \in ChatTodo
      \/ opener[p].by = 4 /\ opener[p].todo \in EvalTodo
  BY ExecutesIs
<1>2. CASE \E k \in 0..19 : Copies(p, k)
  BY <1>2, CopyExecutes
<1>3. CASE Copies(p, 20) \/ Freshens(p, 5)
  BY <1>3, FirstEnds
<1>4. CASE \E k \in 0..4 : Freshens(p, k)
  BY <1>4, FreshExecutes
<1>5. CASE \/ opener[p].by = 2 /\ opener[p].todo \in AddTodo
           \/ opener[p].by = 3 /\ opener[p].todo \in ChatTodo
           \/ opener[p].by = 4 /\ opener[p].todo \in EvalTodo
  BY <1>5, LaterExecutes
<1> QED
  BY <1>1, <1>2, <1>3, <1>4, <1>5

-----------------------------------------------------------------------------
(* The store *)

LEMMA SchemaStutters == ASSUME SchemaInv, UNCHANGED schemaVars PROVE SchemaInv'
<1>1. /\ base' = base /\ copy' = copy /\ column' = column /\ version' = version
      /\ opener' = opener /\ kills' = kills /\ kept' = kept /\ mixed' = mixed
  BY DEF schemaVars
<1>2. \A q \in Opener : /\ \A k : (Copies(q, k)' <=> Copies(q, k)) /\ (Freshens(q, k)' <=> Freshens(q, k))
                        /\ \A t : (Owns(q, t)' <=> Owns(q, t)) /\ (HasFilled(q, t)' <=> HasFilled(q, t))
                        /\ (Early(q)' <=> Early(q)) /\ (InScript(q)' <=> InScript(q))
  BY <1>1, OthersStay
<1>3. SchemaTypes'
  BY <1>1 DEF SchemaInv, SchemaTypes
<1>4. TodoIsKnown'
  BY <1>1, <1>2 DEF SchemaInv, TodoIsKnown
<1>5. CopiesAreOwned' /\ CopiesAreFilled' /\ OldRowsExist'
  BY <1>1, <1>2, OwnersStay DEF SchemaInv
<1>6. EarlyIsAlone'
  BY <1>1, <1>2 DEF SchemaInv, EarlyIsAlone
<1>7. FirstIsWhole'
  <2> SUFFICES ASSUME ~mixed PROVE FirstIsWhole'
    BY <1>1 DEF FirstIsWhole
  <2>1. FirstIsWhole
    BY DEF SchemaInv
  <2>2. \A k : (CopyState(k)' <=> CopyState(k)) /\ (FreshState(k)' <=> FreshState(k))
    BY <1>1 DEF CopyState, FreshState, NoCopy, Place, FillPlace, Owned, Filled, Measured, TableName
  <2>3. (NoCopy' <=> NoCopy) /\ (Old' <=> Old) /\ (New' <=> New)
    BY <1>1 DEF NoCopy, Old, New, Measured, TableName
  <2>4. ASSUME NEW q \in Opener, InScript(q)'
        PROVE  \/ \E k \in 0..20 : Copies(q, k)' /\ CopyState(k)'
               \/ \E k \in 0..5 : Freshens(q, k)' /\ FreshState(k)'
    <3>1. \/ \E k \in 0..20 : Copies(q, k) /\ CopyState(k)
          \/ \E k \in 0..5 : Freshens(q, k) /\ FreshState(k)
      BY <1>2, <2>1, <2>4 DEF FirstIsWhole
    <3> QED
      BY <1>2, <2>2, <3>1
  <2>5. (\A q \in Opener : ~InScript(q)') => NoCopy' /\ (version' = 0 => Old' \/ New')
    <3>1. (\A q \in Opener : ~InScript(q)) => NoCopy /\ (version = 0 => Old \/ New)
      BY <2>1 DEF FirstIsWhole
    <3> QED
      BY <1>1, <1>2, <2>3, <3>1
  <2>6. version' = 0 => ~column'
    BY <1>1, <2>1 DEF FirstIsWhole
  <2> QED
    BY <2>4, <2>5, <2>6 DEF FirstIsWhole
<1>8. MeasuredStay' /\ VersionIsTrue'
  BY <1>1 DEF SchemaInv, MeasuredStay, VersionIsTrue, NoCopy, Measured
<1>9. LaterIsDone'
  BY <1>1 DEF SchemaInv, LaterIsDone, ThereOr
<1> QED
  BY <1>3, <1>4, <1>5, <1>6, <1>7, <1>8, <1>9 DEF SchemaInv

\* Every step of every program leaves what SchemaInv says of the store, of the scripts
\* that are being executed and of who executes them.
THEOREM SchemaHolds == SchemaSpec => []SchemaInv
<1>1. ASSUME SchemaInv, [SchemaNext]_schemaVars PROVE SchemaInv'
  <2>1. CASE Inherits
    BY <2>1, <1>1, InheritsKeeps
  <2>2. ASSUME NEW p \in Opener, SchemaStep(p) \/ Opens(p) \/ SchemaKilled(p) \/ Writes(p) \/ Closes(p) PROVE SchemaInv'
    <3>1. CASE Migrates(p)
      BY <3>1, <1>1, MigratesKeeps
    <3>2. CASE Opened(p)
      BY <3>2, <1>1, OpenedKeeps
    <3>3. CASE Executes(p)
      BY <3>3, <1>1, ExecutesKeeps
    <3>4. CASE Fails(p)
      BY <3>4, <1>1, FailsKeeps
    <3>5. CASE Opens(p)
      BY <3>5, <1>1, OpensKeeps
    <3>6. CASE SchemaKilled(p)
      BY <3>6, <1>1, KilledKeeps
    <3>7. CASE Writes(p)
      BY <3>7, <1>1, WritesKeeps
    <3>8. CASE Closes(p)
      BY <3>8, <1>1, ClosesKeeps
    <3> QED
      BY <2>2, <3>1, <3>2, <3>3, <3>4, <3>5, <3>6, <3>7, <3>8 DEF SchemaStep
  <2>3. CASE UNCHANGED schemaVars
    BY <2>3, <1>1, SchemaStutters
  <2> QED
    BY <1>1, <2>1, <2>2, <2>3 DEF SchemaNext
<1> QED
  BY SchemaStarts, <1>1, PTL DEF SchemaSpec

\* Two programs that migrate one store, and a kill in any of them, lose no row, hide none
\* from a program that has opened it, and claim no version it has not.
THEOREM StoreIsKept == SchemaSpec => []StoreSurvives
<1>1. ASSUME SchemaInv PROVE StoreSurvives
  <2>1. SchemaTypeOK
    <3>1. /\ base \in [TableName -> Content] /\ copy \in [Measured -> Content]
          /\ column \in BOOLEAN /\ version \in 0..4 /\ kills \in 0..MaxKills /\ mixed \in BOOLEAN
          /\ opener \in [Opener -> Opening] /\ kept \in {{}, Measured, TableName}
      BY <1>1 DEF SchemaInv, SchemaTypes
    <3>2. \A p \in Opener : opener[p].at \in {"closed", "migrating", "failed", "open"} /\ opener[p].by \in 0..4
      BY <3>1 DEF Opening
    <3>3. kept \subseteq TableName
      BY <3>1, TablesAre
    <3> QED
      BY <3>1, <3>2, <3>3 DEF SchemaTypeOK
  <2>2. OldRowsExist /\ VersionIsTrue
    BY <1>1 DEF SchemaInv
  <2>3. RowsAreSeen
    <3> SUFFICES ASSUME ~mixed, NEW p \in Opener, opener[p].at = "open" PROVE \A t \in kept : base[t] = "rows"
      BY DEF RowsAreSeen
    <3>1. ~Early(p)
      BY DEF Early
    <3> QED
      BY <1>1, <3>1, FirstIsOver
  <2> QED
    BY <2>1, <2>2, <2>3 DEF StoreSurvives
<1> QED
  BY SchemaHolds, <1>1, PTL

-----------------------------------------------------------------------------
(* The modules beside each other *)

\* A module that rests stutters.
LEMMA RestsAside ==
  ASSUME [MeasuredNext]_MeasuredVars
  PROVE  /\ [StoreNext]_storeVars /\ [EvalNext]_evalVars
         /\ [TextNext]_textVars /\ [RankNext]_rankVars
<1>1. CASE MeasuredNext
  BY <1>1 DEF MeasuredNext
<1>2. CASE UNCHANGED MeasuredVars
  BY <1>2 DEF MeasuredVars
<1> QED
  BY <1>1, <1>2

\* Rows, evaluations, prompts and views share no state: whatever one of them does while
\* the others rest, it does as if it were alone, so that all that is proved of one of
\* them is true of the behaviours that are checked together.
THEOREM EachIsItself == MeasuredSpec => StoreSpec /\ EvalSpec /\ TextSpec /\ RankSpec
<1>1. MeasuredInit => StoreInit /\ EvalInit /\ TextInit /\ RankInit
  BY DEF MeasuredInit
<1> QED
  BY <1>1, RestsAside, PTL DEF MeasuredSpec, StoreSpec, EvalSpec, TextSpec, RankSpec

\* What was measured takes effect: the verdict on a run is final (finish_run), and a run
\* that is completed is what is shown for its context from then on (stats_overview).
THEOREM MeasuresCount == MeasuredSpec => MeasuresTakeEffect
BY EachIsItself, VerdictsAreFinal, NewRunsAreShown DEF MeasuresTakeEffect
=============================================================================
