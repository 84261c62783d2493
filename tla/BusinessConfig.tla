----------------------------- MODULE BusinessConfig -----------------------------
(***************************************************************************)
(* The versions of the business configuration and the requests that create,*)
(* edit, validate and publish them (src/BusinessAdminService/service.py).  *)
(*                                                                         *)
(* Each request is a transaction of PostgreSQL, READ COMMITTED: a statement*)
(* sees what was committed when it began, so between two reads, and        *)
(* between the last read and the commit, other requests commit.  The rows  *)
(* a request changed are flushed and committed in one step: until then     *)
(* nobody sees them, and who updates the same row waits.  Attributes read  *)
(* once keep their value in the session, and an UPDATE is sent only for an *)
(* attribute whose value changed in it.                                    *)
(***************************************************************************)
EXTENDS Integers

CONSTANTS
  MaxVersion,  \* bound: how many versions are created
  Requests,    \* the threads of the service
  Contents,    \* what the rows of a version say
  Empty,       \* no rows
  Valid        \* the contents without an ERROR among the validation issues

ASSUME BusinessAssumption ==
  MaxVersion \in Nat \ {0} /\ Valid \subseteq Contents /\ Empty \in Contents \ Valid

VARIABLES
  status,    \* ConfigVersion.status, or "absent"
  content,   \* the rows with the version_id
  request    \* what each thread is doing and has read

businessVars == <<status, content, request>>

Versions == 1 .. MaxVersion
NoSource == 0
Statuses == {"absent", "DRAFT", "VALIDATED", "PUBLISHED", "RETIRED"}

Created   == {v \in Versions : status[v] # "absent"}
Published == {v \in Versions : status[v] = "PUBLISHED"}

\* ORDER BY version DESC, the first row; 0 when there is none.
Newest(versions) ==
  LET first == {v \in versions : \A w \in versions : w <= v}
  IN  IF first = {} THEN 0 ELSE CHOOSE v \in first : TRUE

Idle                  == [pc |-> "idle"]
Creating(source, v)   == [pc |-> "create", source |-> source, version |-> v]
Editing(v)            == [pc |-> "edit", version |-> v]
Validating(v, s)      == [pc |-> "validate", version |-> v, status |-> s]
Checked(v, s)         == [pc |-> "checked", version |-> v, status |-> s]
Publishing(v)         == [pc |-> "publish", version |-> v]
Retiring(v, current)  == [pc |-> "retire", version |-> v, current |-> current]
Quick(source, v)      == [pc |-> "quick", source |-> source, version |-> v]

BusinessInit ==
  /\ status = [v \in Versions |-> "absent"]
  /\ content = [v \in Versions |-> Empty]
  /\ request = [r \in Requests |-> Idle]

Goes(r, next) == request' = [request EXCEPT ![r] = next]
Reads(r, next) == request[r] = Idle /\ Goes(r, next) /\ UNCHANGED <<status, content>>
Ends(r) == Goes(r, Idle)

-----------------------------------------------------------------------------
(* Creating and editing drafts.                                            *)

\* A new version copies the one asked for, if that was published once, or
\* the published one.
CreateReads(r) ==
  /\ Newest(Created) + 1 \in Versions
  /\ \E source \in {v \in Versions : status[v] \in {"PUBLISHED", "RETIRED"}} \cup {Newest(Published)} :
       Reads(r, Creating(source, Newest(Created) + 1))

\* UNIQUE (version): the number must still be free.
FreeNumber(v) == status[v] = "absent"

CreateCommits(r) ==
  LET q == request[r] IN
  /\ q.pc = "create" /\ FreeNumber(q.version)
  /\ status' = [status EXCEPT ![q.version] = "DRAFT"]
  /\ content' = [content EXCEPT ![q.version] =
                   IF q.source = NoSource THEN Empty ELSE content[q.source]]
  /\ Ends(r)

\* upsert_resource, delete_resource and replace_securities begin alike.
EditReads(r, v) == status[v] = "DRAFT" /\ Reads(r, Editing(v))

\* Mutant: the status is written back, as if no one had changed it.
EditWritesStatus(r, c) ==
  /\ request[r].pc = "edit"
  /\ content' = [content EXCEPT ![request[r].version] = c]
  /\ status' = [status EXCEPT ![request[r].version] = "DRAFT"]
  /\ Ends(r)

\* The rows are written; the status was "DRAFT" when read, so assigning it
\* again sends no UPDATE.
EditCommits(r, c) ==
  /\ request[r].pc = "edit"
  /\ content' = [content EXCEPT ![request[r].version] = c]
  /\ Ends(r)
  /\ UNCHANGED status

-----------------------------------------------------------------------------
(* Validating and publishing.                                              *)

ValidateReads(r, v) ==
  status[v] \in {"DRAFT", "VALIDATED"} /\ Reads(r, Validating(v, status[v]))

\* With an ERROR, or for a version validated before, only the audit is left.
ValidateChecks(r) ==
  LET q == request[r] IN
  /\ q.pc = "validate"
  /\ Goes(r, IF q.status = "DRAFT" /\ content[q.version] \in Valid
             THEN Checked(q.version, q.status) ELSE Idle)
  /\ UNCHANGED <<status, content>>

ValidateCommits(r) ==
  /\ request[r].pc = "checked"
  /\ status' = [status EXCEPT ![request[r].version] = "VALIDATED"]
  /\ Ends(r)
  /\ UNCHANGED content

\* ensure_validated.
PublishReads(r, v) == status[v] = "VALIDATED" /\ Reads(r, Publishing(v))

\* The content is checked again, then the published versions are read.
PublishChecks(r) ==
  LET q == request[r] IN
  /\ q.pc = "publish" /\ content[q.version] \in Valid
  /\ Goes(r, Retiring(q.version, Published))
  /\ UNCHANGED <<status, content>>

\* Mutant: a constraint that is checked at the commit only.
ConflictAtCommit(v, retired) == Published \ (retired \cup {v}) # {}

\* Mutant: the schema of SQLite, which lacks the partial unique index.
NotIndexed(v, retired) == FALSE

\* uq_business_one_published_version, checked at each UPDATE: they are sent by
\* ascending id, so a newer version is not retired yet when v is published.
Conflict(v, retired) ==
  \E w \in Versions \ {v} : status[w] = "PUBLISHED" /\ ~(w \in retired /\ w < v)

Publish(v, retired) ==
  /\ ~Conflict(v, retired)
  /\ status' = [w \in Versions |-> IF w = v THEN "PUBLISHED"
                                   ELSE IF w \in retired THEN "RETIRED" ELSE status[w]]

PublishCommits(r) ==
  /\ request[r].pc = "retire"
  /\ Publish(request[r].version, request[r].current)
  /\ Ends(r)
  /\ UNCHANGED content

\* Mutant: no published version is needed.
QuickReadsAny(r) ==
  /\ Newest(Created) + 1 \in Versions
  /\ Reads(r, Quick(Newest(Published), Newest(Created) + 1))

\* publish_security_buy_allowed: a draft of the published version with one
\* flag changed, which no check looks at, validated and published at once.
QuickReads(r) ==
  /\ Newest(Published) # 0 /\ Newest(Created) + 1 \in Versions
  /\ Reads(r, Quick(Newest(Published), Newest(Created) + 1))

QuickCommits(r, c) ==
  LET q == request[r] IN
  /\ q.pc = "quick" /\ FreeNumber(q.version)
  /\ content[q.source] \in Valid /\ c \in Valid
  /\ Publish(q.version, {q.source})
  /\ content' = [content EXCEPT ![q.version] = c]
  /\ Ends(r)

\* Any exception, those of the guards above included, rolls back.
Fails(r) == request[r] # Idle /\ Ends(r) /\ UNCHANGED <<status, content>>

BusinessNext ==
  \E r \in Requests :
    \/ CreateReads(r) \/ CreateCommits(r)
    \/ \E v \in Versions : EditReads(r, v)
    \/ \E c \in Contents : EditCommits(r, c)
    \/ \E v \in Versions : ValidateReads(r, v)
    \/ ValidateChecks(r) \/ ValidateCommits(r)
    \/ \E v \in Versions : PublishReads(r, v)
    \/ PublishChecks(r) \/ PublishCommits(r)
    \/ QuickReads(r)
    \/ \E c \in Contents : QuickCommits(r, c)
    \/ Fails(r)

-----------------------------------------------------------------------------
(* Properties.                                                             *)

RequestTypeOK(q) ==
  \/ q = Idle
  \/ \E v \in Versions :
       \/ q \in {Editing(v), Publishing(v)}
       \/ \E s \in {"DRAFT", "VALIDATED"} : q \in {Validating(v, s), Checked(v, s)}
       \/ \E current \in SUBSET Versions : q = Retiring(v, current)
       \/ \E source \in Versions \cup {NoSource} : q = Creating(source, v)
       \/ \E source \in Versions : q = Quick(source, v)

BusinessTypeOK ==
  /\ status \in [Versions -> Statuses]
  /\ content \in [Versions -> Contents]
  /\ DOMAIN request = Requests /\ \A r \in Requests : RequestTypeOK(request[r])

\* Whatever requests overlap, at most one version is published.
AtMostOnePublished == \A v, w \in Published : v = w

\* A version that left the drafts is never a draft again, so that what was
\* published once can not be edited by a request that begins later.
NeverBackToDraft ==
  [][\A v \in Versions : status'[v] = "DRAFT" => status[v] \in {"absent", "DRAFT"}]_businessVars

\* A published version is retired only in the step that publishes a newer one:
\* there is no moment without a version, and no retired newer one.
RetiredByNewer ==
  [][\A v \in Published : status'[v] = "RETIRED" =>
       \E w \in Versions : w > v /\ status'[w] = "PUBLISHED"]_businessVars

=============================================================================
