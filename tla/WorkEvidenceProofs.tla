--------------------------- MODULE WorkEvidenceProofs ---------------------------
(***************************************************************************)
(* Theorems of WorkEvidence, for any number of submissions, requirements,  *)
(* tabs and requests on their way, and any time.                           *)
(***************************************************************************)
EXTENDS WorkEvidence, TLAPS

(***************************************************************************)
(* The invariant.  Every list that a tab may still receive agrees with the *)
(* table, and the table with what the service has confirmed.               *)
(***************************************************************************)
\* A later content of the table keeps the rows, and their verdicts.
Continues(earlier, table) ==
  \A i \in Ids : earlier[i] # Absent =>
    /\ table[i] # Absent
    /\ table[i].requirement = earlier[i].requirement
    /\ table[i].submittedAt = earlier[i].submittedAt
    /\ earlier[i].status \in Verdicts => table[i] = earlier[i]

PastOK == \A table \in past : Continues(table, rows)

ToldOK ==
  \A i \in Ids : rows[i].status \in Verdicts => <<i, rows[i].status>> \in told

\* An identifier is given once; what is reviewed has been stored.
RequestsOK ==
  \A s \in Slots :
    /\ request[s].pc = "insert" =>
         /\ rows[request[s].id] = Absent /\ request[s].submittedAt <= now
         /\ \A z \in Slots \ {s} : request[z].pc = "insert" => request[z].id # request[s].id
    /\ request[s].pc \in {"review", "update"} => rows[request[s].id] # Absent

TimesOK ==
  \A i \in Ids : rows[i] # Absent => rows[i].submittedAt <= confirmed[i]

WorkInv == WorkTypeOK /\ PastOK /\ ToldOK /\ RequestsOK /\ TimesOK /\ VerdictStands

(***************************************************************************)
(* Rows.                                                                   *)
(***************************************************************************)
LEMMA RowFields ==
  ASSUME NEW row \in Rows
  PROVE  /\ row # Absent /\ row.requirement \in Active /\ row.submittedAt \in 0..MaxTime
         /\ row.status \in {"submitted", "accepted", "rejected"}
BY DEF Rows, Absent, Verdicts

LEMMA AbsentFields ==
  /\ Absent.status \notin Verdicts /\ Absent.status # "submitted"
BY DEF Absent, Verdicts

LEMMA StoredRow ==
  ASSUME NEW table \in Tables, NEW i \in Ids, table[i] # Absent
  PROVE  table[i] \in Rows
BY DEF Tables

LEMMA WithVerdict ==
  ASSUME NEW row \in Rows, NEW v \in Verdicts
  PROVE  /\ [row EXCEPT !.status = v] \in Rows
         /\ [row EXCEPT !.status = v].requirement = row.requirement
         /\ [row EXCEPT !.status = v].submittedAt = row.submittedAt
         /\ [row EXCEPT !.status = v].status = v
BY DEF Rows

LEMMA RequestFields ==
  ASSUME WorkTypeOK, NEW s \in Slots
  PROVE  /\ request[s].pc \in {"insert", "review", "update"} => request[s].id \in Ids
         /\ request[s].pc = "insert" =>
              request[s].requirement \in Active /\ request[s].submittedAt \in 0..MaxTime
         /\ request[s].pc \in {"review", "update"} => request[s].verdict \in Verdicts
         /\ request[s].pc \in {"idle", "insert", "review", "update"}
BY DEF WorkTypeOK, Requests, NoRequest

LEMMA ContinuesItself ==
  ASSUME NEW table
  PROVE  Continues(table, table)
BY DEF Continues

LEMMA ContinuesFurther ==
  ASSUME NEW earlier \in Tables, NEW table \in Tables, NEW later \in Tables,
         Continues(earlier, table), Continues(table, later)
  PROVE  Continues(earlier, later)
<1> SUFFICES ASSUME NEW i \in Ids, earlier[i] # Absent
             PROVE  /\ later[i] # Absent
                    /\ later[i].requirement = earlier[i].requirement
                    /\ later[i].submittedAt = earlier[i].submittedAt
                    /\ earlier[i].status \in Verdicts => later[i] = earlier[i]
  BY DEF Continues
<1>1. /\ table[i] # Absent /\ table[i].requirement = earlier[i].requirement
      /\ table[i].submittedAt = earlier[i].submittedAt
      /\ earlier[i].status \in Verdicts => table[i] = earlier[i]
  BY DEF Continues
<1>2. /\ later[i] # Absent /\ later[i].requirement = table[i].requirement
      /\ later[i].submittedAt = table[i].submittedAt
      /\ table[i].status \in Verdicts => later[i] = table[i]
  BY <1>1 DEF Continues
<1> QED
  BY <1>1, <1>2

LEMMA PastGrows ==
  ASSUME WorkInv, NEW table \in Tables, Stores(table), Continues(rows, table)
  PROVE  PastOK' /\ past' \subseteq Tables /\ rows' \in past' /\ past \subseteq past'
<1>1. rows' = table /\ past' = past \cup {table} /\ past \subseteq Tables /\ rows \in Tables
  BY DEF Stores, WorkInv, WorkTypeOK
<1>2. \A earlier \in past : Continues(earlier, table)
  BY <1>1, ContinuesFurther DEF WorkInv, PastOK
<1>3. \A earlier \in past' : Continues(earlier, rows')
  BY <1>1, <1>2, ContinuesItself
<1>4. PastOK'
  BY <1>3 DEF PastOK, Continues
<1> QED
  BY <1>1, <1>4

LEMMA InitEstablishes ==
  ASSUME WorkInit
  PROVE  WorkInv
<1> USE DEF WorkInit
<1>1. WorkTypeOK
  <2>1. NoRows \in Tables
    BY DEF NoRows, Tables
  <2>2. rows \in past /\ past \subseteq Tables /\ shown \in [Tabs -> past]
    BY <2>1
  <2>3. request \in [Slots -> Requests]
    BY DEF Requests
  <2>4. confirmed \in [Ids -> 0..Never] /\ now \in 0..MaxTime
    BY WorkAssumption DEF Never
  <2> QED
    BY <2>2, <2>3, <2>4 DEF WorkTypeOK
<1>2. PastOK
  BY ContinuesItself DEF PastOK
<1>3. ToldOK /\ TimesOK /\ VerdictStands
  BY AbsentFields DEF ToldOK, TimesOK, VerdictStands, NoRows
<1>4. RequestsOK
  BY DEF RequestsOK, NoRequest
<1> QED
  BY <1>1, <1>2, <1>3, <1>4 DEF WorkInv

(***************************************************************************)
(* Steps that store nothing.                                               *)
(***************************************************************************)
LEMMA TableKept ==
  ASSUME WorkInv, UNCHANGED <<rows, past, told, confirmed>>
  PROVE  PastOK' /\ ToldOK' /\ TimesOK' /\ VerdictStands'
BY DEF WorkInv, PastOK, Continues, ToldOK, TimesOK, VerdictStands

LEMMA SubmitStep ==
  ASSUME WorkInv, NEW s \in Slots, NEW t \in Tabs, Submit(s, t)
  PROVE  WorkInv'
<1>1. PICK r \in Active, i \in FreshIds :
        request' = [request EXCEPT
          ![s] = [pc |-> "insert", id |-> i, requirement |-> r, submittedAt |-> now]]
  BY DEF Submit
<1>2. i \in Ids /\ rows[i] = Absent /\ \A z \in Slots : request[z].pc = "insert" => request[z].id # i
  BY DEF FreshIds
<1>3. /\ request' \in [Slots -> Requests]
      /\ request'[s] = [pc |-> "insert", id |-> i, requirement |-> r, submittedAt |-> now]
      /\ \A z \in Slots \ {s} : request'[z] = request[z]
  BY <1>1, <1>2 DEF WorkInv, WorkTypeOK, Requests
<1>4. WorkTypeOK'
  BY <1>3 DEF Submit, WorkInv, WorkTypeOK, Tables
<1>5. RequestsOK'
  BY <1>2, <1>3, WorkAssumption DEF Submit, WorkInv, WorkTypeOK, RequestsOK
<1> QED
  BY <1>4, <1>5, TableKept DEF Submit, WorkInv

LEMMA ReviewStep ==
  ASSUME WorkInv, NEW s \in Slots, NEW t \in Tabs, Review(s, t)
  PROVE  WorkInv'
<1>1. PICK i \in Current(shown[t]), v \in Verdicts :
        request' = [request EXCEPT ![s] = [pc |-> "review", id |-> i, verdict |-> v]]
  BY DEF Review
<1>2. i \in Ids /\ shown[t][i] # Absent /\ shown[t] \in past
  BY DEF Current, Stored, WorkInv, WorkTypeOK
<1>3. rows[i] # Absent
  BY <1>2 DEF WorkInv, PastOK, Continues
<1>4. /\ request' \in [Slots -> Requests]
      /\ request'[s] = [pc |-> "review", id |-> i, verdict |-> v]
      /\ \A z \in Slots \ {s} : request'[z] = request[z]
  BY <1>1, <1>2 DEF WorkInv, WorkTypeOK, Requests
<1>5. WorkTypeOK'
  BY <1>4 DEF Review, WorkInv, WorkTypeOK, Tables
<1>6. RequestsOK'
  BY <1>3, <1>4 DEF Review, WorkInv, RequestsOK
<1> QED
  BY <1>5, <1>6, TableKept DEF Review, WorkInv

LEMMA EndsOK ==
  ASSUME WorkInv, NEW s \in Slots, Ends(s)
  PROVE  /\ request' \in [Slots -> Requests] /\ request'[s].pc = "idle"
         /\ \A z \in Slots \ {s} : request'[z] = request[z]
BY DEF Ends, WorkInv, WorkTypeOK, Requests, NoRequest

LEMMA GetSubmissionStep ==
  ASSUME WorkInv, NEW s \in Slots, GetSubmission(s)
  PROVE  WorkInv'
<1>1. request[s].id \in Ids /\ request[s].verdict \in Verdicts
  BY RequestFields DEF GetSubmission, WorkInv
<1>2. /\ request' \in [Slots -> Requests]
      /\ \A z \in Slots \ {s} : request'[z] = request[z]
      /\ request'[s].pc \in {"idle", "update"}
      /\ request'[s].pc = "update" => rows[request'[s].id] # Absent
  <2>1. CASE rows[request[s].id].status = "submitted"
    <3>1. request' = [request EXCEPT ![s].pc = "update"]
      BY <2>1 DEF GetSubmission
    <3>2. request[s] \in [pc : {"review", "update"}, id : Ids, verdict : Verdicts]
      BY DEF GetSubmission, WorkInv, WorkTypeOK, Requests, NoRequest
    <3>3. /\ [request[s] EXCEPT !.pc = "update"] \in [pc : {"review", "update"}, id : Ids, verdict : Verdicts]
          /\ [request[s] EXCEPT !.pc = "update"].pc = "update"
          /\ [request[s] EXCEPT !.pc = "update"].id = request[s].id
      BY <3>2
    <3>4. /\ request' = [request EXCEPT ![s] = [request[s] EXCEPT !.pc = "update"]]
          /\ request \in [Slots -> Requests]
      BY <3>1 DEF WorkInv, WorkTypeOK
    <3>5. [request[s] EXCEPT !.pc = "update"] \in Requests
      BY <3>3 DEF Requests
    <3> QED
      BY <2>1, <3>3, <3>4, <3>5, AbsentFields
  <2>2. CASE rows[request[s].id].status # "submitted"
    BY <2>2, EndsOK DEF GetSubmission
  <2> QED
    BY <2>1, <2>2
<1>3. WorkTypeOK'
  BY <1>2 DEF GetSubmission, WorkInv, WorkTypeOK, Tables
<1>4. RequestsOK'
  BY <1>2 DEF GetSubmission, WorkInv, RequestsOK
<1> QED
  BY <1>3, <1>4, TableKept DEF GetSubmission, WorkInv

(***************************************************************************)
(* Steps that store a row or a verdict.                                    *)
(***************************************************************************)
LEMMA CreateSubmissionStep ==
  ASSUME WorkInv, NEW s \in Slots, CreateSubmission(s)
  PROVE  WorkInv'
<1> DEFINE i == request[s].id
           row == [requirement |-> request[s].requirement, status |-> "submitted",
                   submittedAt |-> request[s].submittedAt]
           table == [rows EXCEPT ![i] = row]
<1>1. /\ i \in Ids /\ rows[i] = Absent /\ row \in Rows /\ rows \in Tables
      /\ now \in 0..MaxTime /\ row.submittedAt <= now
      /\ \A z \in Slots \ {s} : request[z].pc = "insert" => request[z].id # i
  BY RequestFields DEF CreateSubmission, WorkInv, WorkTypeOK, RequestsOK, Rows
<1>2. /\ Stores(table) /\ confirmed' = [confirmed EXCEPT ![i] = now] /\ Ends(s)
      /\ UNCHANGED <<deployed, now, shown, told>>
  BY DEF CreateSubmission
<1> HIDE DEF row
<1>3. /\ table \in Tables /\ table[i] = row
      /\ \A j \in Ids \ {i} : table[j] = rows[j]
  BY <1>1 DEF Tables
<1> HIDE DEF table
<1>4. Continues(rows, table)
  BY <1>1, <1>3 DEF Continues
<1>5. /\ PastOK' /\ past' \subseteq Tables /\ rows' \in past' /\ past \subseteq past'
      /\ rows' = table
  BY <1>2, <1>3, <1>4, PastGrows DEF Stores
<1>6. confirmed' \in [Ids -> 0..Never]
  BY <1>1, <1>2, WorkAssumption DEF WorkInv, WorkTypeOK, Never
<1>7. WorkTypeOK'
  BY <1>2, <1>5, <1>6, EndsOK DEF WorkInv, WorkTypeOK
<1> HIDE DEF i
<1>8. row # Absent /\ row.status = "submitted"
  BY <1>1, RowFields DEF row
<1>9. ToldOK'
  BY <1>2, <1>3, <1>5, <1>8 DEF WorkInv, ToldOK, Verdicts
<1>10. VerdictStands'
  <2> SUFFICES ASSUME NEW entry \in told
               PROVE  table[entry[1]].status = entry[2]
    BY <1>2, <1>5 DEF VerdictStands
  <2>1. entry[1] \in Ids /\ entry[2] \in Verdicts /\ rows[entry[1]].status = entry[2]
    BY DEF WorkInv, WorkTypeOK, VerdictStands
  <2>2. entry[1] # i
    BY <1>1, <2>1, AbsentFields
  <2> QED
    BY <1>3, <2>1, <2>2
<1>11. TimesOK'
  <2>1. \A j \in Ids \ {i} : confirmed'[j] = confirmed[j]
    BY <1>2 DEF WorkInv, WorkTypeOK, i
  <2>2. confirmed'[i] = now
    BY <1>1, <1>2 DEF WorkInv, WorkTypeOK, i
  <2> QED
    BY <1>1, <1>3, <1>5, <2>1, <2>2 DEF WorkInv, TimesOK
<1>12. RequestsOK'
  <2> SUFFICES ASSUME NEW z \in Slots
               PROVE  (/\ request[z].pc = "insert" =>
                            /\ rows[request[z].id] = Absent /\ request[z].submittedAt <= now
                            /\ \A y \in Slots \ {z} : request[y].pc = "insert" => request[y].id # request[z].id
                       /\ request[z].pc \in {"review", "update"} => rows[request[z].id] # Absent)'
    BY DEF RequestsOK
  <2>1. CASE z = s
    BY <1>2, <2>1, EndsOK
  <2>2. CASE z # s
    <3>1. request'[z] = request[z] /\ \A y \in Slots \ {s} : request'[y] = request[y]
      BY <1>2, <2>2, EndsOK
    <3>2. CASE request[z].pc = "insert"
      <4>1. request[z].id # i /\ request[z].id \in Ids
        BY <1>1, <2>2, <3>2, RequestFields DEF WorkInv
      <4>2. rows'[request[z].id] = Absent
        BY <1>3, <1>5, <3>2, <4>1 DEF WorkInv, RequestsOK
      <4>3. request'[s].pc = "idle"
        BY <1>2, EndsOK
      <4> QED
        BY <1>2, <3>1, <3>2, <4>2, <4>3 DEF WorkInv, RequestsOK
    <3>3. CASE request[z].pc \in {"review", "update"}
      <4>1. request[z].id \in Ids /\ rows[request[z].id] # Absent
        BY <3>3, RequestFields DEF WorkInv, RequestsOK
      <4>2. rows'[request[z].id] # Absent
        BY <1>3, <1>5, <1>8, <4>1
      <4> QED
        BY <3>1, <3>3, <4>2
    <3> QED
      BY <3>1, <3>2, <3>3
  <2> QED
    BY <2>1, <2>2
<1> QED
  BY <1>5, <1>7, <1>9, <1>10, <1>11, <1>12 DEF WorkInv

LEMMA ReviewSubmissionStep ==
  ASSUME WorkInv, NEW s \in Slots, ReviewSubmission(s)
  PROVE  WorkInv'
<1> DEFINE i == request[s].id
           v == request[s].verdict
           table == [rows EXCEPT ![i].status = v]
<1>1. /\ i \in Ids /\ v \in Verdicts /\ rows \in Tables /\ Ends(s)
      /\ UNCHANGED <<deployed, now, shown, confirmed>>
  BY RequestFields DEF ReviewSubmission, WorkInv, WorkTypeOK
<1>2. RequestsOK' /\ WorkTypeOK' /\ UNCHANGED <<rows, past, told>> => WorkInv'
  BY <1>1, TableKept DEF WorkInv
<1>3. CASE rows[i].status # "submitted"
  <2>1. UNCHANGED <<rows, past, told>>
    BY <1>3 DEF ReviewSubmission
  <2>2. WorkTypeOK'
    BY <1>1, <2>1, EndsOK DEF WorkInv, WorkTypeOK
  <2>3. RequestsOK'
    BY <1>1, <2>1, EndsOK DEF WorkInv, RequestsOK
  <2> QED
    BY <1>2, <2>1, <2>2, <2>3
<1>4. CASE rows[i].status = "submitted"
  <2>1. Stores(table) /\ told' = told \cup {<<i, v>>}
    BY <1>4 DEF ReviewSubmission, Reviewed
  <2>2. rows[i] \in Rows
    BY <1>1, <1>4, StoredRow, AbsentFields
  <2>3. /\ table \in Tables /\ table[i] = [rows[i] EXCEPT !.status = v]
        /\ \A j \in Ids \ {i} : table[j] = rows[j]
    BY <1>1, <2>2, WithVerdict DEF Tables
  <2> HIDE DEF table, i, v
  <2>4. /\ table[i] # Absent /\ table[i].requirement = rows[i].requirement
        /\ table[i].submittedAt = rows[i].submittedAt /\ table[i].status = v
    BY <1>1, <2>2, <2>3, WithVerdict, RowFields
  <2>5. Continues(rows, table)
    BY <1>4, <2>3, <2>4 DEF Continues, Verdicts
  <2>6. /\ PastOK' /\ past' \subseteq Tables /\ rows' \in past' /\ past \subseteq past'
        /\ rows' = table
    BY <2>1, <2>3, <2>5, PastGrows DEF Stores
  <2>7. WorkTypeOK'
    BY <1>1, <2>1, <2>6, EndsOK DEF WorkInv, WorkTypeOK
  <2>8. ToldOK'
    BY <2>1, <2>3, <2>4, <2>6 DEF WorkInv, ToldOK
  <2>9. VerdictStands'
    <3> SUFFICES ASSUME NEW entry \in told \cup {<<i, v>>}
                 PROVE  table[entry[1]].status = entry[2]
      BY <2>1, <2>6 DEF VerdictStands
    <3>1. CASE entry \in told
      <4>1. entry[1] \in Ids /\ entry[2] \in Verdicts /\ rows[entry[1]].status = entry[2]
        BY <3>1 DEF WorkInv, WorkTypeOK, VerdictStands
      <4>2. entry[1] # i
        BY <1>4, <4>1 DEF Verdicts
      <4> QED
        BY <2>3, <4>1, <4>2
    <3>2. CASE entry = <<i, v>>
      BY <2>4, <3>2
    <3> QED
      BY <3>1, <3>2
  <2>10. TimesOK'
    BY <1>1, <1>4, <2>2, <2>3, <2>4, <2>6, RowFields DEF WorkInv, TimesOK
  <2>11. \A j \in Ids : (table[j] = Absent <=> rows[j] = Absent)
    BY <2>2, <2>3, <2>4, RowFields
  <2>12. RequestsOK'
    <3>1. /\ request'[s].pc = "idle" /\ \A z \in Slots \ {s} : request'[z] = request[z]
      BY <1>1, EndsOK
    <3>2. \A z \in Slots : request[z].pc \in {"insert", "review", "update"} => request[z].id \in Ids
      BY RequestFields DEF WorkInv
    <3> QED
      BY <1>1, <2>6, <2>11, <3>1, <3>2 DEF WorkInv, RequestsOK
  <2> QED
    BY <2>6, <2>7, <2>8, <2>9, <2>10, <2>12 DEF WorkInv
<1> QED
  BY <1>3, <1>4

(***************************************************************************)
(* The rest.                                                               *)
(***************************************************************************)
LEMMA LoadStep ==
  ASSUME WorkInv, NEW t \in Tabs, Load(t)
  PROVE  WorkInv'
<1>1. WorkTypeOK'
  BY DEF Load, WorkInv, WorkTypeOK, Tables
<1>2. RequestsOK'
  BY DEF Load, WorkInv, RequestsOK
<1> QED
  BY <1>1, <1>2, TableKept DEF Load, WorkInv

LEMMA WorldStep ==
  ASSUME WorkInv, Deploy \/ Tick \/ UNCHANGED workVars
  PROVE  WorkInv'
<1>1. UNCHANGED <<rows, past, request, shown, told, confirmed>> /\ now' \in {now, now + 1}
  BY DEF Deploy, Tick, workVars
<1>2. WorkTypeOK'
  <2>1. now' \in 0..MaxTime
    <3>1. now \in 0..MaxTime /\ MaxTime \in Nat
      BY WorkAssumption DEF WorkInv, WorkTypeOK
    <3>2. now' = now \/ (now < MaxTime /\ now' = now + 1)
      BY DEF Deploy, Tick, workVars
    <3> QED
      BY <3>1, <3>2
  <2>2. deployed' = TRUE \/ deployed' = deployed
    BY DEF Deploy, Tick, workVars
  <2> QED
    BY <1>1, <2>1, <2>2 DEF WorkInv, WorkTypeOK
<1>3. RequestsOK'
  BY <1>1, RequestFields, WorkAssumption DEF WorkInv, WorkTypeOK, RequestsOK
<1> QED
  BY <1>1, <1>2, <1>3, TableKept DEF WorkInv

LEMMA WorkInductive ==
  WorkInv /\ [WorkNext]_workVars => WorkInv'
<1> SUFFICES ASSUME WorkInv, [WorkNext]_workVars
             PROVE  WorkInv'
  OBVIOUS
<1>1. CASE Deploy \/ Tick \/ UNCHANGED workVars
  BY <1>1, WorldStep
<1>2. ASSUME NEW t \in Tabs, Load(t)
      PROVE  WorkInv'
  BY <1>2, LoadStep
<1>3. ASSUME NEW t \in Tabs, NEW s \in Slots, Submit(s, t)
      PROVE  WorkInv'
  BY <1>3, SubmitStep
<1>4. ASSUME NEW t \in Tabs, NEW s \in Slots, Review(s, t)
      PROVE  WorkInv'
  BY <1>4, ReviewStep
<1>5. ASSUME NEW s \in Slots, CreateSubmission(s)
      PROVE  WorkInv'
  BY <1>5, CreateSubmissionStep
<1>6. ASSUME NEW s \in Slots, GetSubmission(s)
      PROVE  WorkInv'
  BY <1>6, GetSubmissionStep
<1>7. ASSUME NEW s \in Slots, ReviewSubmission(s)
      PROVE  WorkInv'
  BY <1>7, ReviewSubmissionStep
<1> QED
  BY <1>1, <1>2, <1>3, <1>4, <1>5, <1>6, <1>7 DEF WorkNext

LEMMA WorkAlways ==
  WorkSpec => []WorkInv
<1>1. WorkInit => WorkInv
  BY InitEstablishes
<1> QED
  BY <1>1, WorkInductive, PTL DEF WorkSpec

(***************************************************************************)
(* Theorems.                                                               *)
(***************************************************************************)
(* Rows, lists and requests have the fields that the code gives them, and  *)
(* every row is for a requirement of an active deliverable.                *)
THEOREM WorkTypeCorrect ==
  WorkSpec => []WorkTypeOK
<1>1. WorkInv => WorkTypeOK
  BY DEF WorkInv
<1> QED
  BY <1>1, WorkAlways, PTL

(* No tab is told a verdict that is not the verdict of the submission,     *)
(* for any number of simultaneous reviews.                                 *)
THEOREM VerdictsStand ==
  WorkSpec => []VerdictStands
<1>1. WorkInv => VerdictStands
  BY DEF WorkInv
<1> QED
  BY <1>1, WorkAlways, PTL

(* A tab whose list shows the evidence as complete has an acceptance of    *)
(* the buyer behind every requirement that counts.                         *)
THEOREM ProgressAlwaysEarned ==
  WorkSpec => []ProgressIsEarned
<1>1. WorkInv => ProgressIsEarned
  <2> SUFFICES ASSUME WorkInv, NEW t \in Tabs, EvidenceComplete(shown[t]),
                      NEW r \in Required \cap Active
               PROVE  \E i \in Ids : rows[i] # Absent /\ rows[i].requirement = r
                                     /\ <<i, "accepted">> \in told
    BY DEF ProgressIsEarned
  <2>1. PICK i \in Stored(shown[t]) :
          shown[t][i].requirement = r /\ shown[t][i].status = "accepted"
    BY DEF EvidenceComplete
  <2>2. i \in Ids /\ shown[t][i] # Absent /\ shown[t] \in past
    BY DEF Stored, WorkInv, WorkTypeOK
  <2>3. rows[i] # Absent /\ rows[i] = shown[t][i]
    BY <2>1, <2>2 DEF WorkInv, PastOK, Continues, Verdicts
  <2>4. <<i, "accepted">> \in told
    BY <2>1, <2>2, <2>3 DEF WorkInv, ToldOK, Verdicts
  <2> QED
    BY <2>1, <2>2, <2>3, <2>4
<1> QED
  BY <1>1, WorkAlways, PTL

(* A time is its second and the milliseconds in it.                        *)
LEMMA SecondAndRest ==
  ASSUME NEW a \in Nat, NEW S \in Nat \ {0}
  PROVE  a \div S \in Nat /\ \E rest \in Nat : rest < S /\ a = S * (a \div S) + rest
<1>1. a \div S \in Nat
  OBVIOUS
<1>2. a % S \in 0..(S - 1)
  OBVIOUS
<1>3. a = S * (a \div S) + (a % S)
  OBVIOUS
<1>4. a % S \in Nat /\ a % S < S
  BY <1>2
<1> QED
  BY <1>1, <1>3, <1>4

(* The seconds of a list grow with the times of the table.                 *)
LEMMA ListedGrows ==
  ASSUME NEW a \in Nat, NEW b \in Nat, a <= b
  PROVE  Listed(a) \in Nat /\ Listed(b) \in Nat /\ Listed(a) <= Listed(b)
<1>1. PerSecond \in Nat \ {0}
  BY WorkAssumption
<1>2. Listed(a) \in Nat /\ Listed(b) \in Nat
  BY <1>1, SecondAndRest DEF Listed
<1>3. PICK rest \in Nat : rest < PerSecond /\ a = PerSecond * Listed(a) + rest
  BY <1>1, SecondAndRest DEF Listed
<1>4. PICK more \in Nat : more < PerSecond /\ b = PerSecond * Listed(b) + more
  BY <1>1, SecondAndRest DEF Listed
<1>5. PerSecond * Listed(a) < PerSecond * (Listed(b) + 1)
  BY <1>1, <1>2, <1>3, <1>4
<1>6. Listed(a) < Listed(b) + 1
  BY <1>1, <1>2, <1>5
<1> QED
  BY <1>2, <1>6

LEMMA ListedRow ==
  ASSUME WorkInv, NEW t \in Tabs, NEW i \in Stored(shown[t])
  PROVE  /\ i \in Ids /\ rows[i] # Absent
         /\ rows[i].requirement = shown[t][i].requirement
         /\ rows[i].submittedAt = shown[t][i].submittedAt
         /\ shown[t][i].submittedAt \in Nat /\ confirmed[i] \in Nat
         /\ shown[t][i].submittedAt <= confirmed[i]
<1>1. i \in Ids /\ shown[t][i] # Absent /\ shown[t] \in past /\ shown[t] \in Tables
  BY DEF Stored, WorkInv, WorkTypeOK
<1>2. /\ rows[i] # Absent /\ rows[i].requirement = shown[t][i].requirement
      /\ rows[i].submittedAt = shown[t][i].submittedAt
  BY <1>1 DEF WorkInv, PastOK, Continues
<1>3. shown[t][i].submittedAt \in Nat /\ confirmed[i] \in Nat
  BY <1>1, StoredRow, RowFields, WorkAssumption DEF WorkInv, WorkTypeOK, Never
<1> QED
  BY <1>1, <1>2, <1>3 DEF WorkInv, TimesOK

(* A page shows a submission as current only if none that it lists was     *)
(* sent in a second after that of its confirmation, and two pages disagree *)
(* only about submissions that one of them does not list: for any number   *)
(* of submissions, of tabs, and of milliseconds in a second.               *)
THEOREM ReplacedAlwaysReplaced ==
  WorkSpec => []ReplacedStaysReplaced
<1>1. WorkInv => ReplacedStaysReplaced
  <2> SUFFICES ASSUME WorkInv, NEW t \in Tabs, NEW i \in Current(shown[t])
               PROVE  /\ \A j \in Stored(shown[t]) :
                           shown[t][i].requirement = shown[t][j].requirement
                           => Listed(shown[t][j].submittedAt) <= Listed(confirmed[i])
                      /\ \A u \in Tabs : i \in Stored(shown[u]) \ Current(shown[u])
                           => \E j \in Stored(shown[u]) \ Stored(shown[t]) :
                                shown[u][j].requirement = shown[u][i].requirement
    BY DEF ReplacedStaysReplaced
  <2>1. i \in Stored(shown[t])
    BY DEF Current
  <2>2. ASSUME NEW j \in Stored(shown[t]), shown[t][i].requirement = shown[t][j].requirement
        PROVE  Listed(shown[t][j].submittedAt) <= Listed(confirmed[i])
    <3>1. /\ Listed(shown[t][i].submittedAt) <= Listed(confirmed[i])
          /\ Listed(shown[t][i].submittedAt) \in Nat /\ Listed(confirmed[i]) \in Nat
      BY <2>1, ListedRow, ListedGrows
    <3>2. Listed(shown[t][j].submittedAt) \in Nat
      BY ListedRow, ListedGrows
    <3>3. i = j \/ After(shown[t], i, j)
      BY <2>2 DEF Current
    <3> QED
      BY <3>1, <3>2, <3>3 DEF After
  <2>3. ASSUME NEW u \in Tabs, i \in Stored(shown[u]) \ Current(shown[u])
        PROVE  \E j \in Stored(shown[u]) \ Stored(shown[t]) :
                 shown[u][j].requirement = shown[u][i].requirement
    <3>1. PICK j \in Stored(shown[u]) \ {i} :
            shown[u][i].requirement = shown[u][j].requirement /\ ~After(shown[u], i, j)
      BY <2>3 DEF Current
    <3>2. j \notin Stored(shown[t])
      <4> SUFFICES ASSUME j \in Stored(shown[t])
                   PROVE  FALSE
        OBVIOUS
      <4>1. /\ shown[t][i].requirement = shown[u][i].requirement
            /\ shown[t][i].submittedAt = shown[u][i].submittedAt
            /\ shown[t][j].requirement = shown[u][j].requirement
            /\ shown[t][j].submittedAt = shown[u][j].submittedAt
        BY <2>1, <2>3, ListedRow
      <4>2. After(shown[t], i, j)
        BY <3>1, <4>1 DEF Current
      <4> QED
        BY <3>1, <4>1, <4>2 DEF After
    <3> QED
      BY <3>1, <3>2
  <2> QED
    BY <2>2, <2>3
<1> QED
  BY <1>1, WorkAlways, PTL

(* Verdicts and submissions are final: what is in the table stays in it.   *)
THEOREM ReviewsAreFinal ==
  WorkSpec => ReviewIsFinal
<1>1. WorkInv /\ WorkInv' /\ [WorkNext]_workVars =>
        [\A i \in Ids : rows[i] # Absent =>
           /\ rows'[i] # Absent
           /\ rows[i].status \in Verdicts => rows'[i] = rows[i]]_workVars
  <2> SUFFICES ASSUME WorkInv, WorkInv', [WorkNext]_workVars, NEW i \in Ids, rows[i] # Absent
               PROVE  rows'[i] # Absent /\ (rows[i].status \in Verdicts => rows'[i] = rows[i])
    OBVIOUS
  <2>1. past \subseteq past'
    BY DEF WorkNext, workVars, Deploy, Tick, Load, Submit, Review, CreateSubmission,
           GetSubmission, ReviewSubmission, Reviewed, Stores
  <2>2. rows \in past'
    BY <2>1 DEF WorkInv, WorkTypeOK
  <2> QED
    BY <2>2 DEF WorkInv, PastOK, Continues
<1> QED
  BY <1>1, WorkAlways, WorkInductive, PTL DEF WorkSpec, ReviewIsFinal
=============================================================================
