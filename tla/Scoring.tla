-------------------------------- MODULE Scoring --------------------------------
(***************************************************************************)
(* The arithmetic of the heuristic provider (ai/providers/heuristic.js),   *)
(* of the rates that ai/data.js hands to it, and of the points and badges  *)
(* that ai/engine.js derives from the result.  The state is what the       *)
(* queries return of one student; the teaching modules that write the rows *)
(* are not in the tree.  Rates are in millionths, rounded down;            *)
(* percentages of mocks are per mille, as the query rounds them to one     *)
(* decimal.                                                                *)
(***************************************************************************)
EXTENDS Integers, Sequences, FiniteSets

CONSTANTS
    MockScore,      \* the results a further mock may have, per mille
    MaxMoves        \* bound: rows added to a record

(* A mock is taken to be between nothing and full marks.  Neither the table *)
(* (schema_ai.sql, mock_results) nor the provider makes sure of that: a mock *)
(* with bonus marks would lift its component, which is not clamped, above    *)
(* the whole.  Only clamp01 of the sum would then hold the score.            *)
PerMille == 0..1000

ASSUME ScoringAssumption ==
    /\ MockScore \subseteq PerMille
    /\ MaxMoves \in Nat

VARIABLES
    record,         \* what gatherStudentData returns for one student
    moves

vars == <<record, moves>>

(* The topics of the demo students' mocks, and one more. *)
TopicName == {"Algebra", "Geometry", "Trigonometry", "Mechanics", "Optics", "new"}

(* mocks: newest first; other: the mistakes that are not silly. *)
Data == [mocks: Seq(PerMille),
         topics: Seq([topic: TopicName, correct: Nat, total: Nat]),
         present: Nat, absent: Nat, late: Nat,
         assigned: Nat, submitted: Nat, onTime: Nat,
         recent: Nat, prior: Nat,
         silly: Nat, other: Nat]

Unit == 1000000

Half == Unit \div 2

Ratio(n, m) == (n * Unit) \div m

AtMost(x, most) == IF x > most THEN most ELSE x

Clamp(x, most) == IF x < 0 THEN 0 ELSE AtMost(x, most)

Rounded(x, unit) == (x + unit \div 2) \div unit

Sum(s) ==
    LET upTo[n \in 0..Len(s)] == IF n = 0 THEN 0 ELSE upTo[n - 1] + s[n]
    IN  upTo[Len(s)]

-----------------------------------------------------------------------------
(* The six components of the score. *)

RecentMocks(d) == SubSeq(d.mocks, 1, AtMost(Len(d.mocks), 4))

MockAverage(d) ==
    LET r == RecentMocks(d) IN
    IF r = <<>> THEN Half ELSE (Sum(r) * 1000) \div Len(r)

(* Newest minus oldest of the recent mocks, per mille. *)
Trend(d) ==
    LET r == RecentMocks(d) IN IF Len(r) < 2 THEN 0 ELSE r[1] - r[Len(r)]

Attempted(d) == {i \in DOMAIN d.topics : d.topics[i].total > 0}

Accuracy(t) == IF t.total > 0 THEN Ratio(t.correct, t.total) ELSE 0

(* A topic that was not attempted adds nothing. *)
TopicMastery(d) ==
    IF Attempted(d) = {} THEN Half
    ELSE Sum([i \in DOMAIN d.topics |-> Accuracy(d.topics[i])]) \div Cardinality(Attempted(d))

Completion(d) ==
    IF d.assigned = 0 THEN Unit ELSE Ratio(AtMost(d.submitted, d.assigned), d.assigned)

(* completion * (0.6 + 0.4 * onTimeRate), as one fraction. *)
AssignmentScore(d) ==
    LET due == IF d.assigned > d.submitted THEN d.assigned ELSE d.submitted IN
    IF due = 0 THEN Unit ELSE Ratio(6 * d.submitted + 4 * d.onTime, 10 * due)

AttendanceRate(d) ==
    LET days == d.present + d.absent + d.late IN
    IF days = 0 THEN Unit ELSE Ratio(d.present, days)

\* Mutation of StudyBase: clamp01 is missing.
StudyBaseUnclamped(d) == Ratio(d.recent, 420)

StudyBase(d) == Clamp(Ratio(d.recent, 420), Unit)

(* 0.5 + (recent - prior) / (2 * prior) *)
StudyTrend(d) == IF d.prior > 0 THEN Clamp(Ratio(d.recent, 2 * d.prior), Unit) ELSE Half

StudyConsistency(d) == (7 * StudyBase(d) + 3 * StudyTrend(d)) \div 10

SillyRate(d) ==
    IF d.silly + d.other = 0 THEN 0 ELSE Ratio(d.silly, d.silly + d.other)

(* WEIGHTS, in percent, each with its component. *)
Parts(d) == << <<35, MockAverage(d)>>, <<25, TopicMastery(d)>>,
               <<15, AssignmentScore(d)>>, <<10, AttendanceRate(d)>>,
               <<10, StudyConsistency(d)>>, <<5, Unit - SillyRate(d)>> >>

(* In millionths of a point of the score. *)
Contributions(d) == LET p == Parts(d) IN [k \in DOMAIN p |-> p[k][1] * p[k][2]]

\* Mutation of Nudge: ten points, more than the oldest recent mock weighs.
NudgeTen(d) == 10000 * Trend(d)

(* trend * 8 *)
Nudge(d) == 8000 * Trend(d)

Readiness(d) == Rounded(Clamp(Sum(Contributions(d)) + Nudge(d), 100 * Unit), Unit)

Band(r, low, medium) == IF r >= low THEN "low" ELSE IF r >= medium THEN "medium" ELSE "high"

(* Few attendances or a steep decline raise the risk by one step. *)
Escalated(d, risk) ==
    IF AttendanceRate(d) * 10 < 6 * Unit \/ Trend(d) < -150
    THEN IF risk = "low" THEN "medium" ELSE "high"
    ELSE risk

\* Mutation of Risk: the levels of the exam_ready badge.
RiskBadge(d) == Escalated(d, Band(Readiness(d), 85, 70))

Risk(d) == Escalated(d, Band(Readiness(d), 70, 50))

-----------------------------------------------------------------------------
(* What is shown next to the score. *)

Wrong(t) == t.total - t.correct

(* Accuracy below 0.6. *)
Low(d) == {i \in Attempted(d) : Accuracy(d.topics[i]) * 10 < 6 * Unit}

(* Those that a stable sort puts before the i-th: the most wrong answers first. *)
Before(d, i) ==
    {j \in Low(d) : \/ Wrong(d.topics[j]) > Wrong(d.topics[i])
                    \/ Wrong(d.topics[j]) = Wrong(d.topics[i]) /\ j < i}

(* The weakest of them.  Six are kept, four are made steps of the plan. *)
Weakest(d, n) == {i \in Low(d) : Cardinality(Before(d, i)) < n}

(* The study plan: one step for each of the four weakest topics, and more.   *)
Plan(d) ==
    {d.topics[i].topic : i \in Weakest(d, 4)}
    \cup (IF SillyRate(d) * 10 > 3 * Unit THEN {"silly mistakes"} ELSE {})
    \cup (IF StudyBase(d) < Half THEN {"study routine"} ELSE {})
    \cup (IF Completion(d) * 10 < 8 * Unit THEN {"assignments"} ELSE {})

(* The contributions of the signals, rounded to tenths of a point. *)
Shown(d) == LET c == Contributions(d) IN [k \in DOMAIN c |-> Rounded(c[k], Unit \div 10)]

Points(d) ==
    Rounded(2 * Unit * Readiness(d) + (Unit \div 10) * AtMost(d.recent, 600)
              + 50 * Completion(d), Unit)

(* The badges but for the streak. *)
BadgesDue(d) ==
    (IF Readiness(d) >= 85 THEN {"exam_ready"} ELSE {})
    \cup (IF Completion(d) >= Unit THEN {"all_assignments"} ELSE {})
    \cup (IF d.mocks # <<>> /\ d.mocks[1] >= 950 THEN {"centum_club"} ELSE {})

-----------------------------------------------------------------------------
(* The records: the demo students of seed_ai.js, and a student without any.  *)

Topic(name, correct, total) == [topic |-> name, correct |-> correct, total |-> total]

Arjun ==
    [mocks |-> <<580, 640, 720>>,
     topics |-> <<Topic("Algebra", 22, 30), Topic("Geometry", 18, 30),
                  Topic("Trigonometry", 10, 30)>>,
     present |-> 18, absent |-> 6, late |-> 3,
     assigned |-> 2, submitted |-> 1, onTime |-> 1, recent |-> 175, prior |-> 0,
     silly |-> 7, other |-> 5]

Divya ==
    [mocks |-> <<930, 800>>,
     topics |-> <<Topic("Algebra", 19, 20), Topic("Trigonometry", 16, 20)>>,
     present |-> 26, absent |-> 1, late |-> 1,
     assigned |-> 2, submitted |-> 2, onTime |-> 2, recent |-> 440, prior |-> 0,
     silly |-> 1, other |-> 1]

Karan ==
    [mocks |-> <<550>>,
     topics |-> <<Topic("Mechanics", 4, 12), Topic("Optics", 8, 10)>>,
     present |-> 20, absent |-> 4, late |-> 2,
     assigned |-> 0, submitted |-> 0, onTime |-> 0, recent |-> 120, prior |-> 0,
     silly |-> 2, other |-> 4]

Blank ==
    [mocks |-> <<>>, topics |-> <<>>, present |-> 0, absent |-> 0, late |-> 0,
     assigned |-> 0, submitted |-> 0, onTime |-> 0, recent |-> 0, prior |-> 0,
     silly |-> 0, other |-> 0]

Init == record \in {Arjun, Divya, Karan, Blank} /\ moves = 0

Change(new) == moves < MaxMoves /\ moves' = moves + 1 /\ record' = new

(* A mock is held; the query returns the eight latest. *)
HoldMock ==
    \E m \in MockScore :
        LET all == <<m>> \o record.mocks IN
        Change([record EXCEPT !.mocks = SubSeq(all, 1, AtMost(Len(all), 8))])

(* A question on a topic is answered, of a known topic or of a new one. *)
AnswerQuestion ==
    \E right \in {0, 1} :
        \/ \E i \in DOMAIN record.topics :
            Change([record EXCEPT !.topics[i].correct = @ + right, !.topics[i].total = @ + 1])
        \/ Change([record EXCEPT !.topics = Append(@, Topic("new", right, 1))])

TakeAttendance ==
    \/ Change([record EXCEPT !.present = @ + 1])
    \/ Change([record EXCEPT !.absent = @ + 1])
    \/ Change([record EXCEPT !.late = @ + 1])

(* A worksheet is assigned to the batch, or handed in by the student, who    *)
(* may have come from another batch.                                         *)
HandOut == Change([record EXCEPT !.assigned = @ + 1])

HandIn ==
    \E onTime \in {0, 1} :
        Change([record EXCEPT !.submitted = @ + 1, !.onTime = @ + onTime])

(* An evening of study; and two weeks pass. *)
Study == Change([record EXCEPT !.recent = @ + 220])

Fortnight == Change([record EXCEPT !.recent = 0, !.prior = record.recent])

LogMistake ==
    \/ Change([record EXCEPT !.silly = @ + 1])
    \/ Change([record EXCEPT !.other = @ + 1])

Next ==
    \/ HoldMock \/ AnswerQuestion \/ TakeAttendance \/ HandOut \/ HandIn
    \/ Study \/ Fortnight \/ LogMistake

Spec == Init /\ [][Next]_vars

-----------------------------------------------------------------------------
(* What the scores promise. *)

(* The record is one the queries can return; whatever it is, also with more  *)
(* worksheets handed in than assigned or after long evenings, each component *)
(* is a rate, and the score a percentage.                                    *)
TypeOK ==
    /\ record \in Data
    /\ record.onTime <= record.submitted
    /\ \A i \in DOMAIN record.topics : record.topics[i].correct <= record.topics[i].total
    /\ moves \in 0..MaxMoves
    /\ \A k \in 1..6 : Parts(record)[k][2] \in 0..Unit
    /\ Readiness(record) \in 0..100

Magnitude(x) == IF x < 0 THEN -x ELSE x

(* heuristic.js: "every number the student/tutor sees comes with a plain-    *)
(* language reason".  The contributions shown add up to the score, except    *)
(* for the nudge of the trend, which is not shown among them, and for the    *)
(* rounding of six contributions and of the sum.                             *)
ExplainedScore ==
    10 * Magnitude(10 * Readiness(record) - Sum(Shown(record)))
        <= 88 + Magnitude(Trend(record))

(* The same record with one thing better: a recent mock, an answer, a day    *)
(* present, a worksheet handed in or not handed in late, an hour of study,   *)
(* one silly mistake fewer.                                                  *)
Better(d) ==
    {[d EXCEPT !.mocks[i] = @ + 50] :
        i \in {j \in DOMAIN RecentMocks(d) : d.mocks[j] <= 950}}
    \cup {[d EXCEPT !.topics[i].correct = @ + 1] :
            i \in {j \in DOMAIN d.topics : Wrong(d.topics[j]) > 0}}
    \cup {b \in {[d EXCEPT !.absent = @ - 1, !.present = @ + 1],
                 [d EXCEPT !.submitted = @ + 1, !.onTime = @ + 1],
                 [d EXCEPT !.onTime = @ + 1],
                 [d EXCEPT !.recent = @ + 60],
                 [d EXCEPT !.silly = @ - 1]} :
            b.absent >= 0 /\ b.onTime <= b.submitted /\ b.silly >= 0}

(* Doing better never costs a point of the score or of the leaderboard, nor  *)
(* a badge.  For the oldest of four mocks it is close: it weighs a quarter   *)
(* of 35 percent, and the nudge takes 8 of that back.                        *)
BetterNeverWorse ==
    \A b \in Better(record) :
        /\ Readiness(b) >= Readiness(record)
        /\ Points(b) >= Points(record)
        /\ BadgesDue(record) \subseteq BadgesDue(b)

(* A new mock at least as good as every recent one never lowers the score,   *)
(* although it pushes the oldest out of the window and so changes the mean   *)
(* and the trend at once.                                                    *)
BestMockNeverHurts ==
    \A m \in MockScore :
        LET r == RecentMocks(record) IN
        (r # <<>> /\ \A i \in DOMAIN r : m >= r[i])
        => Readiness([record EXCEPT !.mocks = <<m>> \o @]) >= Readiness(record)

(* High risk never comes without a reason that is shown: a step of the plan, *)
(* a decline, few attendances, or recent mocks that average below 52 percent. *)
RiskIsExplained ==
    Risk(record) = "high" =>
        \/ Plan(record) # {}
        \/ Trend(record) < -150
        \/ AttendanceRate(record) * 10 < 6 * Unit
        \/ record.mocks # <<>> /\ MockAverage(record) * 100 < 52 * Unit

(* Both ways of doing better. *)
EffortPays == BetterNeverWorse /\ BestMockNeverHurts

(* Both explanations: of the score and of the risk. *)
Explained == ExplainedScore /\ RiskIsExplained
=============================================================================
