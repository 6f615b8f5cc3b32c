---------------------------- MODULE WorkEvidence ----------------------------
(***************************************************************************)
(* Work evidence of one agreement: the participants' browser tabs          *)
(* (work-evidence-panel.tsx), the service (work-evidence-service.ts) and   *)
(* its table (work-evidence-repository.ts).  The seller submits values for *)
(* the requirements of the agreement, the buyer accepts or rejects them.   *)
(* Two tabs, or two clicks, may review one submission, the seller may      *)
(* replace what is being reviewed, and the lists that a tab asks for may   *)
(* be answered late and in another order.                                  *)
(***************************************************************************)
EXTENDS Naturals

CONSTANTS
  Ids,          \* the identifiers that randomUUID gives, in the order they sort
  Requirements, \* the evidence requirements of the agreement
  Required,     \* those that the seller must meet
  Active,       \* those whose deliverable is active
  Tabs,         \* browser tabs of participants
  roleOf,       \* the role of the wallet signed in to each tab
  Slots,        \* requests that may be on their way at a time
  PerSecond,    \* milliseconds in a second, fewer than there are
  MaxTime       \* milliseconds that pass

ASSUME WorkAssumption ==
  /\ Ids \subseteq Nat
  /\ Required \subseteq Requirements /\ Active \subseteq Requirements
  /\ roleOf \in [Tabs -> {"buyer", "seller", "arbitrator"}]
  /\ MaxTime \in Nat /\ PerSecond \in Nat \ {0}

VARIABLES
  deployed,  \* deploymentStatus is DEPLOYED
  now,       \* Date.now()
  rows,      \* agreement_evidence_submissions
  past,      \* every content the table has had
  request,   \* the submissions and reviews on their way
  shown,     \* the list that each tab holds
  told,      \* verdicts that the service has confirmed
  confirmed  \* when each submission was confirmed

workVars == <<deployed, now, rows, past, request, shown, told, confirmed>>

Verdicts == {"accepted", "rejected"}
Absent == [status |-> "absent"]
NoRequest == [pc |-> "idle"]
NoRows == [i \in Ids |-> Absent]
Never == MaxTime + 1

Rows == [requirement : Active, status : {"submitted"} \cup Verdicts,
         submittedAt : 0..MaxTime]

Stored(table) == {i \in Ids : table[i] # Absent}

WorkInit ==
  /\ deployed = FALSE
  /\ now = 0
  /\ rows = NoRows
  /\ past = {NoRows}
  /\ request = [s \in Slots |-> NoRequest]
  /\ shown = [t \in Tabs |-> NoRows]
  /\ told = {}
  /\ confirmed = [i \in Ids |-> Never]

(***************************************************************************)
(* What a tab makes of its list.                                           *)
(***************************************************************************)
\* mapSubmissionRow: String(Date) has no milliseconds, so the times of a list
\* are whole seconds, although the table has them to the millisecond.
Listed(time) == time \div PerSecond

\* Mutant: the order of the identifiers alone.
CurrentById(table) ==
  {i \in Stored(table) :
     \A j \in Stored(table) : table[i].requirement = table[j].requirement => i >= j}

\* Submission i comes after j in the page's order.
After(table, i, j) ==
  \/ Listed(table[i].submittedAt) > Listed(table[j].submittedAt)
  \/ Listed(table[i].submittedAt) = Listed(table[j].submittedAt) /\ i > j

\* currentWorkEvidenceSubmissions: the latest of each requirement.
Current(table) ==
  {i \in Stored(table) :
     \A j \in Stored(table) \ {i} :
       table[i].requirement = table[j].requirement => After(table, i, j)}

\* Mutant: what was not rejected counts.
EvidenceCompleteUnlessRejected(table) ==
  \A r \in Required \cap Active :
    \E i \in Stored(table) : table[i].requirement = r /\ table[i].status # "rejected"

\* sellerProgressSteps: any accepted submission meets its requirement.
EvidenceComplete(table) ==
  Active # {} /\ \A r \in Required \cap Active :
    \E i \in Stored(table) : table[i].requirement = r /\ table[i].status = "accepted"

(***************************************************************************)
(* Submissions.                                                            *)
(***************************************************************************)
Free(s) == request[s] = NoRequest

Ends(s) == request' = [request EXCEPT ![s] = NoRequest]

Stores(table) == rows' = table /\ past' = past \cup {table}

FreshIds ==
  {i \in Ids :
     rows[i] = Absent /\ \A s \in Slots : request[s].pc = "insert" => request[s].id # i}

\* submit: the checks, and the time, before the row is inserted.
Submit(s, t) ==
  /\ Free(s) /\ deployed /\ roleOf[t] = "seller"
  /\ \E r \in Active, i \in FreshIds :
       request' = [request EXCEPT
         ![s] = [pc |-> "insert", id |-> i, requirement |-> r, submittedAt |-> now]]
  /\ UNCHANGED <<deployed, now, rows, past, shown, told, confirmed>>

CreateSubmission(s) ==
  /\ request[s].pc = "insert"
  /\ LET i == request[s].id IN
       /\ Stores([rows EXCEPT ![i] =
            [requirement |-> request[s].requirement, status |-> "submitted",
             submittedAt |-> request[s].submittedAt]])
       /\ confirmed' = [confirmed EXCEPT ![i] = now]
  /\ Ends(s)
  /\ UNCHANGED <<deployed, now, shown, told>>

(***************************************************************************)
(* Reviews.                                                                *)
(***************************************************************************)
\* The buttons are beside current submissions that have not been reviewed.
Review(s, t) ==
  /\ Free(s) /\ roleOf[t] = "buyer"
  /\ \E i \in Current(shown[t]), v \in Verdicts :
       /\ shown[t][i].status = "submitted"
       /\ request' = [request EXCEPT ![s] = [pc |-> "review", id |-> i, verdict |-> v]]
  /\ UNCHANGED <<deployed, now, rows, past, shown, told, confirmed>>

\* review: the row is read first.
GetSubmission(s) ==
  /\ request[s].pc = "review"
  /\ IF rows[request[s].id].status = "submitted"
     THEN request' = [request EXCEPT ![s].pc = "update"]
     ELSE Ends(s)
  /\ UNCHANGED <<deployed, now, rows, past, shown, told, confirmed>>

Reviewed(s) ==
  /\ Stores([rows EXCEPT ![request[s].id].status = request[s].verdict])
  /\ told' = told \cup {<<request[s].id, request[s].verdict>>}

\* Mutant: an update that finds no row is answered like the others.
ReviewSubmissionUnnoticed(s) ==
  /\ request[s].pc = "update"
  /\ \/ rows[request[s].id].status = "submitted" /\ Reviewed(s)
     \/ /\ rows[request[s].id].status # "submitted"
        /\ told' = told \cup {<<request[s].id, request[s].verdict>>}
        /\ UNCHANGED <<rows, past>>
  /\ Ends(s)
  /\ UNCHANGED <<deployed, now, shown, confirmed>>

\* reviewSubmission: UPDATE ... WHERE status = 'submitted'.
ReviewSubmission(s) ==
  /\ request[s].pc = "update"
  /\ \/ rows[request[s].id].status = "submitted" /\ Reviewed(s)
     \/ rows[request[s].id].status # "submitted" /\ UNCHANGED <<rows, past, told>>
  /\ Ends(s)
  /\ UNCHANGED <<deployed, now, shown, confirmed>>

(***************************************************************************)
(* The tabs, and the rest of the world.                                    *)
(***************************************************************************)
\* A tab asks for the list after each request of its own and whenever the
\* details are loaded again; each answer may arrive at any later time.
Load(t) ==
  /\ deployed
  /\ \E list \in past : shown' = [shown EXCEPT ![t] = list]
  /\ UNCHANGED <<deployed, now, rows, past, request, told, confirmed>>

Deploy ==
  /\ ~deployed /\ deployed' = TRUE
  /\ UNCHANGED <<now, rows, past, request, shown, told, confirmed>>

Tick ==
  /\ now < MaxTime /\ now' = now + 1
  /\ UNCHANGED <<deployed, rows, past, request, shown, told, confirmed>>

WorkNext ==
  \/ Deploy \/ Tick
  \/ \E t \in Tabs : Load(t) \/ \E s \in Slots : Submit(s, t) \/ Review(s, t)
  \/ \E s \in Slots : CreateSubmission(s) \/ GetSubmission(s) \/ ReviewSubmission(s)

WorkSpec == WorkInit /\ [][WorkNext]_workVars

(***************************************************************************)
(* Properties.                                                             *)
(***************************************************************************)
Tables == [Ids -> Rows \cup {Absent}]

Requests ==
  {NoRequest}
  \cup [pc : {"insert"}, id : Ids, requirement : Active, submittedAt : 0..MaxTime]
  \cup [pc : {"review", "update"}, id : Ids, verdict : Verdicts]

(* Rows and requests have the fields that the code gives them, and all are *)
(* for requirements of active deliverables.                                *)
WorkTypeOK ==
  /\ deployed \in BOOLEAN /\ now \in 0..MaxTime
  /\ rows \in past /\ past \subseteq Tables
  /\ request \in [Slots -> Requests]
  /\ shown \in [Tabs -> past]
  /\ told \subseteq Ids \X Verdicts
  /\ confirmed \in [Ids -> 0..Never]

(* A verdict is never replaced, nor a submission withdrawn, whichever tabs *)
(* review it at the same time.                                             *)
ReviewIsFinal ==
  [][\A i \in Ids : rows[i] # Absent =>
       /\ rows'[i] # Absent
       /\ rows[i].status \in Verdicts => rows'[i] = rows[i]]_workVars

(* The verdict that the service confirmed to a tab is the verdict of the   *)
(* submission: no two tabs are told otherwise.                             *)
VerdictStands ==
  \A entry \in told : rows[entry[1]].status = entry[2]

(* However late its list arrived, a tab shows the seller's evidence as     *)
(* complete only when the buyer has accepted something for every           *)
(* requirement that counts.                                                *)
ProgressIsEarned ==
  \A t \in Tabs : EvidenceComplete(shown[t]) =>
    \A r \in Required \cap Active : \E i \in Ids : rows[i] # Absent
      /\ rows[i].requirement = r /\ <<i, "accepted">> \in told

(* A submission that was sent in a later second than that in which an      *)
(* earlier one for its requirement was confirmed replaces it on every page *)
(* that lists both.  Within one second the page's order is that of the     *)
(* random identifiers, but it is the same on all pages: a page shows as    *)
(* current what another shows as replaced only if it has yet to list a     *)
(* submission that the other lists.                                        *)
ReplacedStaysReplaced ==
  \A t \in Tabs : \A i \in Current(shown[t]) :
    /\ \A j \in Stored(shown[t]) :
         shown[t][i].requirement = shown[t][j].requirement
         => Listed(shown[t][j].submittedAt) <= Listed(confirmed[i])
    /\ \A u \in Tabs : i \in Stored(shown[u]) \ Current(shown[u])
         => \E j \in Stored(shown[u]) \ Stored(shown[t]) :
              shown[u][j].requirement = shown[u][i].requirement
=============================================================================
