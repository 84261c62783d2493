---------------------------- MODULE PublishedPolicy ----------------------------
(***************************************************************************)
(* The policy that XServer admits orders by, fetched from the published    *)
(* version of BusinessConfig again and again (ReloadPublishedPolicy and    *)
(* RunPublishedPolicyRefresh of src/XServer/ServerEngine.cpp).             *)
(***************************************************************************)
EXTENDS BusinessConfig

CONSTANTS
  Parsable,  \* the contents that RuntimePolicy::Parse accepts
  NoPolicy   \* no policy loaded yet: every order is refused

ASSUME PolicyAssumption == Parsable \subseteq Contents

VARIABLES
  policy,   \* m_RuntimePolicy
  fetch     \* the version the service found published for the pending fetch, or 0

policyVars == <<policy, fetch>>
vars == <<status, content, request, policy, fetch>>

Policies == [version : Versions, content : Contents]

Init == BusinessInit /\ policy = NoPolicy /\ fetch = 0

\* Mutant: the newest version is served, published or not.
NewestCreated == Newest(Created)

\* current_version.
CurrentVersion == Newest(Published)

\* The service reads which version is published; without one the fetch fails
\* at once and nothing changes.
FetchReads ==
  /\ fetch = 0 /\ CurrentVersion # 0
  /\ fetch' = CurrentVersion
  /\ UNCHANGED <<status, content, request, policy>>

\* Mutant: a policy that was loaded stays.
OnlyFirst(v) == policy = NoPolicy

\* A version with the number in force is not loaded again.
Replaces(v) == policy = NoPolicy \/ policy.version # v

\* The rows of the version arrive, and parse.
FetchReturns ==
  /\ fetch # 0 /\ content[fetch] \in Parsable
  /\ policy' = IF Replaces(fetch) THEN [version |-> fetch, content |-> content[fetch]] ELSE policy
  /\ fetch' = 0
  /\ UNCHANGED <<status, content, request>>

\* The service does not answer in time, or with what does not parse: the last
\* policy is retained.
FetchFails == fetch # 0 /\ fetch' = 0 /\ UNCHANGED <<status, content, request, policy>>

Next == (BusinessNext /\ UNCHANGED policyVars) \/ FetchReads \/ FetchReturns \/ FetchFails

Spec == Init /\ [][Next]_vars

\* The refresh thread asks for ever, a fetch ends (it has a timeout), and a
\* policy that parses is not lost on the way each time.
FairSpec ==
  Spec /\ WF_vars(FetchReads) /\ WF_vars(FetchReturns \/ FetchFails) /\ SF_vars(FetchReturns)

-----------------------------------------------------------------------------
(* Properties.                                                             *)

\* Every variable keeps its type.
TypeOK ==
  /\ BusinessTypeOK
  /\ policy \in Policies \cup {NoPolicy}
  /\ fetch \in Versions \cup {0}

\* No draft is ever in force, however late its version was read ("only
\* published versions are read", README of the service).
NoDraftInForce == policy # NoPolicy => status[policy.version] \notin {"absent", "DRAFT"}

\* The version that stays published is in force at last, also when a newer
\* one was in force before, provided its rows parse.
PolicyFollows ==
  \A v \in Versions :
    <>[](status[v] = "PUBLISHED" /\ content[v] \in Parsable)
      => <>[](policy # NoPolicy /\ policy.version = v)

=============================================================================
