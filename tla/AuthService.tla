------------------------------ MODULE AuthService ------------------------------
(***************************************************************************)
(* The decisions of AuthAdminService (service.py) and the requests of      *)
(* administrators that change them: account grants, policies, role         *)
(* bindings, identities, and sessions that end.                            *)
(*                                                                         *)
(* A rule is in the memory of the one process, which decides, and a row of *)
(* casbin_rule, which the memory is loaded from at a start.  The rule of   *)
(* an account grant is also a row of account_grants, which administrators  *)
(* see; the requests for policies change the same rules without that row.  *)
(* The right told apart here is one per user, and the role is role:admin,  *)
(* whose rule matches every right.  Requests are handled by the threads of *)
(* a pool, each with its own transactions.                                 *)
(***************************************************************************)
EXTENDS Naturals, FiniteSets

CONSTANTS
  Users,
  Sessions,
  UserOf,         \* the identity each session was created for
  AdminSessions,  \* sessions whose OIDC token named role:admin
  AdminUser,      \* dev_admin_username
  Development,    \* auth_mode = "development"
  Threads,        \* threads that handle administrators' requests
  MaxChanges      \* bound: requests of administrators, sessions that end, and restarts

ASSUME AuthAssumption ==
  /\ UserOf \in [Sessions -> Users] /\ AdminSessions \subseteq Sessions
  /\ AdminUser \in Users /\ Development \in BOOLEAN /\ MaxChanges \in Nat

VARIABLES
  rules,    \* the rules the enforcer holds in memory
  saved,    \* the rules in casbin_rule
  rows,     \* the grants with an active row in account_grants
  active,   \* identities that are active
  live,     \* sessions that are neither expired nor revoked
  call,     \* what each thread is doing
  changes,  \* counter for the bound
  torn,     \* history: grants a request left half done, two changed at once, or one without a row changed
  unsaved   \* history: rules changed in memory that no save has written for certain since

authVars == <<rules, saved, rows, active, live, call, changes, torn, unsaved>>

\* The user has the right; the user has role:admin; role:admin has all rights.
Grant(u)   == [kind |-> "grant", user |-> u]
Binding(u) == [kind |-> "binding", user |-> u]
Wildcard   == [kind |-> "wildcard"]
Grants == {Grant(u) : u \in Users}
Rules  == Grants \cup {Binding(u) : u \in Users} \cup {Wildcard}

\* A request for a rule.  "listed": for an account grant, so with a row of its
\* own.  "unsure": what others changed or saved while this one saves.  "alone" is
\* history: no other request was at the same rule.
Idle  == [op |-> "none", rule |-> {}, listed |-> FALSE, step |-> "done", unsure |-> {}, alone |-> TRUE]
CallsFor(set, listed, steps) ==
  [op : {"add", "remove"}, rule : {{r} : r \in set}, listed : {listed},
   step : steps, unsure : SUBSET Rules, alone : BOOLEAN]
Calls == {Idle} \cup CallsFor(Rules, FALSE, {"rule", "save", "saving"})
                \cup CallsFor(Grants, TRUE, {"rule", "save", "saving", "row"})

\* _bootstrap_development_data adds these and saves them.
Bootstrap == IF Development THEN {Binding(AdminUser), Wildcard} ELSE {}

AuthInit ==
  /\ \E granted \in SUBSET Grants : rules = granted \cup Bootstrap /\ rows = granted
  /\ saved = rules
  /\ active = Users /\ live = Sessions
  /\ call = [t \in Threads |-> Idle]
  /\ changes = 0 /\ torn = {} /\ unsaved = {}

\* resolve_session: the session counts, and its identity is active.
Valid(s) == s \in live /\ UserOf[s] \in active

\* authorize: a valid session, and a rule in the memory of the enforcer for its
\* user, or for role:admin if the user or the session has it.
Permitted(s) ==
  /\ Valid(s)
  /\ \/ Grant(UserOf[s]) \in rules
     \/ Wildcard \in rules /\ (Binding(UserOf[s]) \in rules \/ s \in AdminSessions)

Change == changes < MaxChanges /\ changes' = changes + 1

RulesOf(ts) == UNION {call[t].rule : t \in ts}

\* An administrator adds or removes a rule: an account grant, a policy or a
\* role binding.
Ask(t, op, r, listed) ==
  /\ call[t] = Idle /\ Change
  /\ call' = [x \in Threads |->
       CASE x = t              -> [op |-> op, rule |-> {r}, listed |-> listed, step |-> "rule",
                                   unsure |-> {}, alone |-> r \notin RulesOf(Threads)]
         [] call[x].rule = {r} -> [call[x] EXCEPT !.alone = FALSE]
         [] OTHER              -> call[x]]
  /\ UNCHANGED <<rules, saved, rows, active, live, torn, unsaved>>

GrantOf(t) == call[t].rule \cap Grants

\* The set after the change that the request of t asks for.
Changed(t, set) == IF call[t].op = "add" THEN set \cup call[t].rule ELSE set \ call[t].rule

\* The request of t goes on to its next step, or ends; a save that another
\* thread is at can not be sure of the rules any more.
Proceed(t, step, disturbed) ==
  call' = [x \in Threads |->
    CASE x = t -> IF step = "done" THEN Idle ELSE [call[t] EXCEPT !.step = step, !.unsure = {}]
      [] x # t /\ call[x].step = "saving" -> [call[x] EXCEPT !.unsure = @ \cup disturbed]
      [] OTHER -> call[x]]

\* After the policy, account_grants.
AfterPolicy(t) == IF call[t].listed THEN "row" ELSE "done"

\* add_policy, remove_policy and their like for role bindings change the memory
\* of the enforcer, and the library may store that one rule at once.
ChangeRule(t, stored) ==
  /\ call[t].step = "rule" /\ Changed(t, rules) # rules
  /\ rules' = Changed(t, rules)
  /\ saved' = IF stored THEN Changed(t, saved) ELSE saved
  /\ unsaved' = IF stored THEN unsaved \ call[t].rule ELSE unsaved \cup call[t].rule
  /\ torn' = IF call[t].listed THEN torn ELSE torn \cup GrantOf(t)
  /\ Proceed(t, "save", call[t].rule)
  /\ UNCHANGED <<rows, active, live, changes>>

\* With nothing to change, the policy is not saved again.
KeepRule(t) ==
  /\ call[t].step = "rule" /\ Changed(t, rules) = rules
  /\ Proceed(t, AfterPolicy(t), {})
  /\ UNCHANGED <<rules, saved, rows, active, live, changes, torn, unsaved>>

\* save_policy deletes the rows of casbin_rule ...
SaveBegins(t) ==
  /\ call[t].step = "save"
  /\ Proceed(t, "saving", {})
  /\ UNCHANGED <<rules, saved, rows, active, live, changes, torn, unsaved>>

\* Mutant: the change itself is written, not the policy.
SavesChange(t, set) == set = Changed(t, saved)

\* ... and writes what the memory holds, rule by rule: a rule changed meanwhile
\* is there or not, and a row another save committed meanwhile was not there to
\* be deleted.
Saves(t, set) == rules \ call[t].unsure \subseteq set /\ set \subseteq rules \cup call[t].unsure

SaveCommits(t, set) ==
  /\ call[t].step = "saving"
  /\ Saves(t, set)
  /\ saved' = set
  /\ unsaved' = call[t].unsure
  /\ Proceed(t, AfterPolicy(t), set)
  /\ UNCHANGED <<rules, rows, active, live, changes, torn>>

\* Mutant: a row that is there stays as it is.
OnlyAdds(t) == rows \cup call[t].rule

RowsThen(t) == Changed(t, rows)

\* The transaction on account_grants.  It mends what an earlier request left,
\* if no other was at the same grant meanwhile.
WriteRow(t) ==
  /\ call[t].step = "row"
  /\ rows' = RowsThen(t)
  /\ torn' = IF call[t].alone THEN torn \ GrantOf(t) ELSE torn \cup GrantOf(t)
  /\ Proceed(t, "done", {})
  /\ UNCHANGED <<rules, saved, active, live, changes, unsaved>>

\* The database refuses: the request ends with an error, what it did stays.
Fails(t) ==
  /\ call[t].step # "done"
  /\ Proceed(t, "done", {})
  /\ torn' = IF call[t].step = "rule" THEN torn ELSE torn \cup GrantOf(t)
  /\ UNCHANGED <<rules, saved, rows, active, live, changes, unsaved>>

\* update_identity.
SetActive(u) ==
  /\ Change
  /\ active' = IF u \in active THEN active \ {u} ELSE active \cup {u}
  /\ UNCHANGED <<rules, saved, rows, live, call, torn, unsaved>>

\* A session reaches its expires_at.
Expire(s) ==
  /\ Change /\ s \in live
  /\ live' = live \ {s}
  /\ UNCHANGED <<rules, saved, rows, active, call, torn, unsaved>>

\* The process ends, its threads with it, and starts from casbin_rule and the
\* development data.
AuthRestart ==
  /\ Change
  /\ rules' = saved \cup Bootstrap
  /\ saved' = rules'
  /\ torn' = torn \cup ((RulesOf(Threads) \cup unsaved) \cap Grants)
  /\ call' = [t \in Threads |-> Idle]
  /\ unsaved' = {}
  /\ UNCHANGED <<rows, active, live>>

AdminStep(t) ==
  \/ \E stored \in BOOLEAN : ChangeRule(t, stored)
  \/ KeepRule(t) \/ SaveBegins(t) \/ WriteRow(t) \/ Fails(t)
  \/ \E set \in SUBSET Rules : SaveCommits(t, set)

\* One idle thread of the pool, which are alike.
NextThread == CHOOSE t \in Threads : call[t] = Idle

\* Account grants come with a row, policies and role bindings without.
Request(op) ==
  /\ \E t \in Threads : call[t] = Idle
  /\ \/ \E g \in Grants : Ask(NextThread, op, g, TRUE)
     \/ \E r \in Rules : Ask(NextThread, op, r, FALSE)

AuthNext ==
  \/ \E t \in Threads : AdminStep(t)
  \/ \E op \in {"add", "remove"} : Request(op)
  \/ \E u \in Users : SetActive(u)
  \/ \E s \in Sessions : Expire(s)
  \/ AuthRestart

AuthSpec == AuthInit /\ [][AuthNext]_authVars

-----------------------------------------------------------------------------
(* Properties.                                                             *)

AuthTypeOK ==
  /\ {rules, saved, unsaved} \subseteq SUBSET Rules
  /\ {rows, torn} \subseteq SUBSET Grants /\ active \subseteq Users /\ live \subseteq Sessions
  /\ call \in [Threads -> Calls]
  /\ changes \in Nat

\* The administrators' table and the rules that decide agree on every grant that
\* no request is at, unless a request failed half way, the process died with a
\* change unsaved, two requests changed the grant at once, or a request for a
\* policy changed it; and then a request for the grant alone mends it.
GrantsAgree == \A g \in Grants \ (torn \cup RulesOf(Threads)) : g \in rows <=> g \in rules

\* A restart changes no rule that decides, but one that was changed in memory
\* and not saved for certain since, and the development data, which come back.
RestartKeepsDecisions ==
  [][AuthRestart => \A r \in Rules \ unsaved :
       /\ r \in rules => r \in rules'
       /\ r \in rules' => r \in rules \cup Bootstrap]_authVars

=============================================================================
