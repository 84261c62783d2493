--------------------------- MODULE AuthServiceProofs ---------------------------
(***************************************************************************)
(* Theorems about AuthService, for any number of users, sessions and       *)
(* threads.                                                                *)
(***************************************************************************)
EXTENDS AuthService, TLAPS

-----------------------------------------------------------------------------
(* Requests.                                                               *)

LEMMA RuleSets == Grants \subseteq Rules /\ Bootstrap \subseteq Rules /\ Bootstrap \cap Grants = {}
<1>1. Grants \subseteq Rules
  BY DEF Rules
<1>2. Binding(AdminUser) \in Rules /\ Wildcard \in Rules
  BY AuthAssumption DEF Rules
<1>3. Binding(AdminUser) \notin Grants /\ Wildcard \notin Grants
  BY DEF Grants, Grant, Binding, Wildcard
<1> QED
  BY <1>1, <1>2, <1>3 DEF Bootstrap

\* A request is at one rule; a thread without one is at none.
LEMMA CallFields ==
  ASSUME NEW c \in Calls
  PROVE  /\ c = Idle \/ \E r \in Rules : c.rule = {r} /\ c.op \in {"add", "remove"} /\ c.step # "done"
         /\ c = Idle <=> c.step = "done"
         /\ c.rule \subseteq Rules /\ c.step \in {"rule", "save", "saving", "row", "done"}
         /\ (c.listed => c.rule \subseteq Grants) /\ (c.step = "row" => c.listed)
         /\ c.alone \in BOOLEAN /\ c.listed \in BOOLEAN /\ c.unsure \subseteq Rules
<1>1. CASE c = Idle
  BY <1>1 DEF Idle
<1>2. CASE c # Idle
  <2>1. /\ c.rule \in {{r} : r \in Rules} /\ c.op \in {"add", "remove"} /\ c.listed \in BOOLEAN
        /\ c.step \in {"rule", "save", "saving", "row"} /\ c.alone \in BOOLEAN /\ c.unsure \subseteq Rules
        /\ (c.listed => c.rule \in {{g} : g \in Grants}) /\ (c.step = "row" => c.listed)
    BY <1>2, RuleSets DEF Calls, CallsFor
  <2>2. PICK r \in Rules : c.rule = {r}
    BY <2>1
  <2>3. c.rule \subseteq Rules /\ (c.listed => c.rule \subseteq Grants)
    BY <2>1, <2>2
  <2> QED
    BY <1>2, <2>1, <2>2, <2>3
<1> QED
  BY <1>1, <1>2

\* A request in which one of its marks changes stays the request it is.
LEMMA NotAlone ==
  ASSUME NEW c \in Calls, c.rule # {}
  PROVE  LET d == [c EXCEPT !.alone = FALSE]
         IN d \in Calls /\ d.rule = c.rule /\ d.step = c.step /\ d.op = c.op /\ d.listed = c.listed
            /\ ~d.alone
<1>1. CASE c \in CallsFor(Rules, FALSE, {"rule", "save", "saving"})
  BY <1>1 DEF Calls, CallsFor
<1>2. CASE c \in CallsFor(Grants, TRUE, {"rule", "save", "saving", "row"})
  BY <1>2 DEF Calls, CallsFor
<1>3. c # Idle
  BY DEF Idle
<1> QED
  BY <1>1, <1>2, <1>3 DEF Calls

LEMMA LessSure ==
  ASSUME NEW c \in Calls, c.step # "done", NEW more \in SUBSET Rules
  PROVE  LET d == [c EXCEPT !.unsure = @ \cup more]
         IN d \in Calls /\ d.rule = c.rule /\ d.step = c.step /\ d.op = c.op
            /\ d.listed = c.listed /\ d.alone = c.alone
<1>1. CASE c \in CallsFor(Rules, FALSE, {"rule", "save", "saving"})
  <2>1. c.unsure \cup more \in SUBSET Rules
    BY <1>1 DEF CallsFor
  <2> QED
    BY <1>1, <2>1 DEF Calls, CallsFor
<1>2. CASE c \in CallsFor(Grants, TRUE, {"rule", "save", "saving", "row"})
  <2>1. c.unsure \cup more \in SUBSET Rules
    BY <1>2 DEF CallsFor
  <2> QED
    BY <1>2, <2>1 DEF Calls, CallsFor
<1>3. c # Idle
  BY DEF Idle
<1> QED
  BY <1>1, <1>2, <1>3 DEF Calls

LEMMA NextStep ==
  ASSUME NEW c \in Calls, c.step # "done", NEW step \in {"rule", "save", "saving", "row"},
         step = "row" => c.listed
  PROVE  LET d == [c EXCEPT !.step = step, !.unsure = {}]
         IN d \in Calls /\ d.rule = c.rule /\ d.step = step /\ d.op = c.op
            /\ d.listed = c.listed /\ d.alone = c.alone
<1>1. CASE c \in CallsFor(Rules, FALSE, {"rule", "save", "saving"})
  BY <1>1 DEF Calls, CallsFor
<1>2. CASE c \in CallsFor(Grants, TRUE, {"rule", "save", "saving", "row"})
  BY <1>2 DEF Calls, CallsFor
<1>3. c # Idle
  BY DEF Idle
<1> QED
  BY <1>1, <1>2, <1>3 DEF Calls

LEMMA RulesOfAll ==
  ASSUME NEW r
  PROVE  r \in RulesOf(Threads) <=> \E t \in Threads : r \in call[t].rule
BY DEF RulesOf

-----------------------------------------------------------------------------
(* The invariant.  A grant agrees as long as the requests at it, if any,   *)
(* have done nothing yet; a request that is alone finds the rule as it     *)
(* left it; what a request for a policy changed is marked; and what is not *)
(* marked unsaved is in casbin_rule.                                       *)

At(r, t) == r \in call[t].rule
Untouched(r) == \A t \in Threads : At(r, t) => call[t].step = "rule"

Agreement == \A g \in Grants \ torn : Untouched(g) => (g \in rows <=> g \in rules)

AloneIsAlone ==
  \A t \in Threads, r \in Rules :
    At(r, t) /\ call[t].alone => \A x \in Threads \ {t} : ~At(r, x)

RuleStands ==
  \A t \in Threads, r \in Rules :
    At(r, t) /\ call[t].alone /\ call[t].step \in {"save", "saving", "row"} =>
      (r \in rules <=> call[t].op = "add")

PolicyMarks ==
  \A t \in Threads, g \in Grants :
    At(g, t) /\ ~call[t].listed /\ call[t].step \in {"save", "saving"} => g \in torn

SavedAgrees == \A r \in Rules \ unsaved : r \in saved <=> r \in rules

AuthInv == AuthTypeOK /\ Agreement /\ AloneIsAlone /\ RuleStands /\ PolicyMarks /\ SavedAgrees

LEMMA AuthInvInit == AuthInit => AuthInv
<1> SUFFICES ASSUME AuthInit PROVE AuthInv
  OBVIOUS
<1>1. PICK granted \in SUBSET Grants : rules = granted \cup Bootstrap /\ rows = granted
  BY DEF AuthInit
<1>2. AuthTypeOK
  BY <1>1, RuleSets, AuthAssumption DEF AuthInit, AuthTypeOK, Calls
<1>3. \A t \in Threads, r \in Rules : ~At(r, t)
  BY DEF AuthInit, At, Idle
<1>4. \A g \in Grants : g \in rows <=> g \in rules
  BY <1>1, RuleSets
<1> QED
  BY <1>2, <1>3, <1>4, RuleSets DEF AuthInit, AuthInv, Agreement, AloneIsAlone, RuleStands, PolicyMarks, SavedAgrees

\* What one request does to the requests of the other threads: they stay where
\* they are.
LEMMA Proceeding ==
  ASSUME AuthTypeOK, NEW t \in Threads, call[t].step # "done",
         NEW step \in {"save", "saving", "row", "done"}, NEW disturbed \in SUBSET Rules,
         Proceed(t, step, disturbed), step = "row" => call[t].listed
  PROVE  /\ call' \in [Threads -> Calls]
         /\ step = "done" => call'[t] = Idle
         /\ step # "done" => /\ call'[t].rule = call[t].rule /\ call'[t].op = call[t].op
                             /\ call'[t].listed = call[t].listed
                             /\ call'[t].alone = call[t].alone /\ call'[t].step = step
         /\ \A x \in Threads \ {t} : /\ call'[x].rule = call[x].rule /\ call'[x].op = call[x].op
                                     /\ call'[x].listed = call[x].listed
                                     /\ call'[x].alone = call[x].alone /\ call'[x].step = call[x].step
<1>1. \A x \in Threads : call[x] \in Calls
  BY DEF AuthTypeOK
<1>2. Idle \in Calls
  BY DEF Calls
<1> DEFINE moved == IF step = "done" THEN Idle ELSE [call[t] EXCEPT !.step = step, !.unsure = {}]
           other(x) == IF call[x].step = "saving" THEN [call[x] EXCEPT !.unsure = @ \cup disturbed] ELSE call[x]
<1>3. moved \in Calls /\ (step # "done" => /\ moved.rule = call[t].rule /\ moved.op = call[t].op
                                           /\ moved.listed = call[t].listed
                                           /\ moved.alone = call[t].alone /\ moved.step = step)
  <2>1. CASE step = "done"
    BY <1>2, <2>1
  <2>2. CASE step # "done"
    <3>1. call[t] \in Calls /\ step \in {"rule", "save", "saving", "row"}
      BY <1>1, <2>2
    <3>2. moved = [call[t] EXCEPT !.step = step, !.unsure = {}]
      BY <2>2
    <3> HIDE DEF moved
    <3>3. moved \in Calls /\ moved.rule = call[t].rule /\ moved.step = step /\ moved.op = call[t].op
          /\ moved.listed = call[t].listed /\ moved.alone = call[t].alone
      BY ONLY <3>1, <3>2, NextStep, call[t].step # "done", step = "row" => call[t].listed
    <3> QED
      BY <3>3
  <2> QED
    BY <2>1, <2>2
<1>4. ASSUME NEW x \in Threads
      PROVE  /\ other(x) \in Calls /\ other(x).rule = call[x].rule /\ other(x).op = call[x].op
             /\ other(x).listed = call[x].listed
             /\ other(x).alone = call[x].alone /\ other(x).step = call[x].step
  BY <1>1, LessSure
<1>5. call' = [x \in Threads |-> IF x = t THEN moved ELSE other(x)]
  BY DEF Proceed
<1> HIDE DEF moved, other
<1>6. call' \in [Threads -> Calls]
  BY <1>3, <1>4, <1>5
<1>7. call'[t] = moved /\ \A x \in Threads \ {t} : call'[x] = other(x)
  BY <1>5
<1>8. step = "done" => moved = Idle
  BY DEF moved
<1> QED
  BY <1>3, <1>4, <1>6, <1>7, <1>8

\* The set after a change differs at the one rule of the request.
LEMMA ChangedSet ==
  ASSUME NEW t \in Threads, call[t] \in Calls, NEW s \in SUBSET Rules
  PROVE  /\ Changed(t, s) \subseteq Rules
         /\ \A r \in Rules : ~At(r, t) => (r \in Changed(t, s) <=> r \in s)
         /\ \A r \in Rules : At(r, t) => (r \in Changed(t, s) <=> call[t].op = "add")
BY CallFields DEF Changed, At

LEMMA AskKeeps ==
  ASSUME AuthInv, NEW t \in Threads, NEW r \in Rules, NEW op \in {"add", "remove"},
         NEW listed \in BOOLEAN, listed => r \in Grants, Ask(t, op, r, listed)
  PROVE  AuthInv'
<1> DEFINE new == [op |-> op, rule |-> {r}, listed |-> listed, step |-> "rule", unsure |-> {},
                   alone |-> r \notin RulesOf(Threads)]
           other(x) == IF call[x].rule = {r} THEN [call[x] EXCEPT !.alone = FALSE] ELSE call[x]
<1>1. new \in Calls /\ new.rule = {r} /\ new.step = "rule" /\ (new.alone => r \notin RulesOf(Threads))
  BY DEF Calls, CallsFor
<1>2. call' = [x \in Threads |-> IF x = t THEN new ELSE other(x)]
  <2>1. call[t].rule # {r}
    BY DEF Ask, Idle
  <2> QED
    BY <2>1 DEF Ask
<1> HIDE DEF new
<1>3. call'[t] = new
  BY <1>2
<1>4. ASSUME NEW x \in Threads \ {t}
      PROVE  /\ call'[x] \in Calls /\ call'[x].rule = call[x].rule /\ call'[x].step = call[x].step
             /\ call'[x].op = call[x].op /\ call'[x].listed = call[x].listed
             /\ (call'[x].alone => call[x].alone /\ ~At(r, x))
  <2>1. call[x] \in Calls /\ call'[x] = other(x)
    BY <1>2 DEF AuthInv, AuthTypeOK
  <2>2. CASE call[x].rule = {r}
    BY <2>1, <2>2, NotAlone
  <2>3. CASE call[x].rule # {r}
    <3>1. ~At(r, x)
      BY <2>1, <2>3, CallFields DEF At, Idle
    <3> QED
      BY <2>1, <2>3, <3>1
  <2> QED
    BY <2>2, <2>3
<1>5. AuthTypeOK'
  <2>1. call' \in [Threads -> Calls]
    BY <1>1, <1>2, <1>3, <1>4
  <2>2. changes' \in Nat
    BY DEF Ask, Change, AuthInv, AuthTypeOK
  <2>3. UNCHANGED <<rules, saved, rows, active, live, torn, unsaved>>
    BY DEF Ask
  <2> QED
    BY <2>1, <2>2, <2>3 DEF AuthInv, AuthTypeOK
<1>6. \A v \in Rules, x \in Threads \ {t} : At(v, x)' <=> At(v, x)
  BY <1>4 DEF At
<1>7. \A v \in Rules : At(v, t)' <=> v = r
  BY <1>1, <1>3 DEF At
<1>8. \A v \in Rules : ~At(v, t)
  BY DEF Ask, Idle, At
<1>9. Agreement'
  BY <1>1, <1>3, <1>4, <1>6, <1>7, <1>8, RuleSets DEF Ask, AuthInv, Agreement, Untouched
<1>10. AloneIsAlone'
  <2>1. call'[t].alone => \A x \in Threads : ~At(r, x)
    BY <1>1, <1>3, RulesOfAll DEF At
  <2>2. \A x \in Threads \ {t}, v \in Rules : At(v, x)' /\ call'[x].alone => v # r
    BY <1>4, <1>6
  <2> QED
    BY <1>4, <1>6, <1>7, <2>1, <2>2 DEF AuthInv, AloneIsAlone
<1>11. RuleStands'
  <2>1. ASSUME NEW x \in Threads, NEW v \in Rules, At(v, x)', call'[x].alone,
               call'[x].step \in {"save", "saving", "row"}
        PROVE  v \in rules' <=> call'[x].op = "add"
    <3>1. x # t
      BY <1>1, <1>3, <2>1
    <3> QED
      BY <3>1, <1>4, <1>6, <2>1 DEF AuthInv, RuleStands, Ask
  <2> QED
    BY <2>1 DEF RuleStands
<1>12. PolicyMarks'
  BY <1>1, <1>3, <1>4, <1>6, RuleSets DEF AuthInv, PolicyMarks, Ask
<1> QED
  BY <1>5, <1>9, <1>10, <1>11, <1>12 DEF AuthInv, SavedAgrees, Ask

LEMMA ChangeRuleKeeps ==
  ASSUME AuthInv, NEW t \in Threads, NEW stored \in BOOLEAN, ChangeRule(t, stored)
  PROVE  AuthInv'
<1>1. call[t] \in Calls /\ call[t].step = "rule" /\ call[t].rule \subseteq Rules /\ call[t].listed \in BOOLEAN
  BY CallFields DEF AuthInv, AuthTypeOK, ChangeRule
<1>2. /\ call' \in [Threads -> Calls] /\ call'[t].rule = call[t].rule /\ call'[t].op = call[t].op
      /\ call'[t].listed = call[t].listed /\ call'[t].alone = call[t].alone /\ call'[t].step = "save"
      /\ \A x \in Threads \ {t} : /\ call'[x].rule = call[x].rule /\ call'[x].op = call[x].op
                                  /\ call'[x].listed = call[x].listed /\ call'[x].alone = call[x].alone /\ call'[x].step = call[x].step
  BY <1>1, Proceeding DEF ChangeRule, AuthInv
<1>3. \A v \in Rules, x \in Threads : At(v, x)' <=> At(v, x)
  BY <1>2 DEF At
<1>4. /\ rules' = Changed(t, rules) /\ rules' \subseteq Rules
      /\ \A r \in Rules : ~At(r, t) => (r \in rules' <=> r \in rules)
      /\ \A r \in Rules : At(r, t) => (r \in rules' <=> call[t].op = "add")
  BY <1>1, ChangedSet DEF AuthInv, AuthTypeOK, ChangeRule
<1>5. saved' \subseteq Rules /\ SavedAgrees'
  <2>1. CASE stored
    <3>1. saved' = Changed(t, saved) /\ unsaved' = unsaved \ call[t].rule
      BY <2>1 DEF ChangeRule
    <3>2. /\ saved' \subseteq Rules
          /\ \A r \in Rules : ~At(r, t) => (r \in saved' <=> r \in saved)
          /\ \A r \in Rules : At(r, t) => (r \in saved' <=> call[t].op = "add")
      BY <1>1, <3>1, ChangedSet DEF AuthInv, AuthTypeOK
    <3> QED
      BY <1>4, <3>1, <3>2 DEF AuthInv, SavedAgrees, At
  <2>2. CASE ~stored
    BY <1>4, <2>2 DEF AuthInv, AuthTypeOK, SavedAgrees, ChangeRule, At
  <2> QED
    BY <2>1, <2>2
<1>6. AuthTypeOK'
  BY <1>1, <1>2, <1>4, <1>5 DEF ChangeRule, AuthInv, AuthTypeOK, GrantOf
<1>7. torn \subseteq torn'
  BY <1>1 DEF ChangeRule
<1>8. Agreement'
  BY <1>2, <1>3, <1>4, <1>7, RuleSets DEF ChangeRule, AuthInv, Agreement, Untouched
<1>9. AloneIsAlone'
  BY <1>2, <1>3 DEF AuthInv, AloneIsAlone
<1>10. RuleStands'
  BY <1>2, <1>3, <1>4 DEF AuthInv, AloneIsAlone, RuleStands
<1>11. PolicyMarks'
  BY <1>1, <1>2, <1>3, <1>7, RuleSets DEF AuthInv, PolicyMarks, ChangeRule, GrantOf, At
<1> QED
  BY <1>5, <1>6, <1>8, <1>9, <1>10, <1>11 DEF AuthInv

LEMMA SaveBeginsKeeps ==
  ASSUME AuthInv, NEW t \in Threads, SaveBegins(t)
  PROVE  AuthInv'
<1>1. call[t] \in Calls /\ call[t].step = "save"
  BY DEF AuthInv, AuthTypeOK, SaveBegins
<1>2. /\ call' \in [Threads -> Calls] /\ call'[t].rule = call[t].rule /\ call'[t].op = call[t].op
      /\ call'[t].listed = call[t].listed /\ call'[t].alone = call[t].alone /\ call'[t].step = "saving"
      /\ \A x \in Threads \ {t} : /\ call'[x].rule = call[x].rule /\ call'[x].op = call[x].op
                                  /\ call'[x].listed = call[x].listed /\ call'[x].alone = call[x].alone /\ call'[x].step = call[x].step
  BY <1>1, Proceeding DEF SaveBegins, AuthInv
<1>3. \A v \in Rules, x \in Threads : At(v, x)' <=> At(v, x)
  BY <1>2 DEF At
<1>4. AuthTypeOK'
  BY <1>2 DEF SaveBegins, AuthInv, AuthTypeOK
<1>5. Agreement'
  BY <1>1, <1>2, <1>3, RuleSets DEF SaveBegins, AuthInv, Agreement, Untouched
<1>6. AloneIsAlone'
  BY <1>2, <1>3 DEF AuthInv, AloneIsAlone
<1>7. RuleStands'
  BY <1>1, <1>2, <1>3 DEF AuthInv, RuleStands, SaveBegins
<1>8. PolicyMarks'
  BY <1>1, <1>2, <1>3, RuleSets DEF AuthInv, PolicyMarks, SaveBegins
<1> QED
  BY <1>4, <1>5, <1>6, <1>7, <1>8 DEF AuthInv, SavedAgrees, SaveBegins

\* A request goes on to its row: the rule is as it wants it, and no grant
\* changes.
LEMMA ToRowKeeps ==
  ASSUME AuthInv, NEW t \in Threads, NEW disturbed \in SUBSET Rules, Proceed(t, "row", disturbed),
         call[t].listed,
         call[t].step \in {"rule", "saving"},
         call[t].step = "rule" => \A r \in Rules : At(r, t) => (r \in rules <=> call[t].op = "add"),
         AuthTypeOK', SavedAgrees', UNCHANGED <<rules, rows, torn>>
  PROVE  AuthInv'
<1>1. /\ call'[t].rule = call[t].rule /\ call'[t].op = call[t].op
      /\ call'[t].listed = call[t].listed /\ call'[t].alone = call[t].alone /\ call'[t].step = "row"
      /\ \A x \in Threads \ {t} : /\ call'[x].rule = call[x].rule /\ call'[x].op = call[x].op
                                  /\ call'[x].listed = call[x].listed /\ call'[x].alone = call[x].alone /\ call'[x].step = call[x].step
  BY Proceeding DEF AuthInv
<1>2. \A v \in Rules, x \in Threads : At(v, x)' <=> At(v, x)
  BY <1>1 DEF At
<1>3. Agreement'
  BY <1>1, <1>2, RuleSets DEF AuthInv, Agreement, Untouched
<1>4. AloneIsAlone'
  BY <1>1, <1>2 DEF AuthInv, AloneIsAlone
<1>5. RuleStands'
  BY <1>1, <1>2 DEF AuthInv, RuleStands
<1>6. PolicyMarks'
  BY <1>1, <1>2, RuleSets DEF AuthInv, PolicyMarks
<1> QED
  BY <1>3, <1>4, <1>5, <1>6 DEF AuthInv

\* A request that ends: what it leaves is marked, unless it mended the grant
\* alone or did nothing.
LEMMA EndKeeps ==
  ASSUME AuthInv, NEW t \in Threads, call[t].step # "done",
         NEW disturbed \in SUBSET Rules, Proceed(t, "done", disturbed),
         rows' \subseteq Grants, torn' \subseteq Grants,
         \A v \in Grants \ torn' : ~At(v, t) => v \notin torn /\ (v \in rows' <=> v \in rows),
         \A v \in Grants \ torn' : At(v, t) =>
           \/ v \in rows' <=> v \in rules
           \/ v \notin torn /\ call[t].step = "rule" /\ (v \in rows' <=> v \in rows),
         \A v \in torn \ torn' : At(v, t) /\ call[t].alone,
         saved' \subseteq Rules, unsaved' \subseteq Rules, SavedAgrees',
         UNCHANGED <<rules, active, live, changes>>
  PROVE  AuthInv'
<1>1. Idle.rule = {}
  BY DEF Idle
<1>2. /\ call' \in [Threads -> Calls] /\ call'[t] = Idle
      /\ \A x \in Threads \ {t} : /\ call'[x].rule = call[x].rule /\ call'[x].op = call[x].op
                                  /\ call'[x].listed = call[x].listed /\ call'[x].alone = call[x].alone /\ call'[x].step = call[x].step
  BY Proceeding DEF AuthInv
<1>3. \A v \in Rules : ~At(v, t)' /\ \A x \in Threads \ {t} : At(v, x)' <=> At(v, x)
  BY <1>1, <1>2 DEF At
<1>4. AuthTypeOK'
  BY <1>2 DEF AuthInv, AuthTypeOK
<1>5. Agreement'
  <2>1. ASSUME NEW v \in Grants \ torn', Untouched(v)'
        PROVE  v \in rows' <=> v \in rules'
    <3>1. \A x \in Threads \ {t} : At(v, x) => call[x].step = "rule"
      BY <1>2, <1>3, <2>1, RuleSets DEF Untouched
    <3>2. CASE ~At(v, t) \/ call[t].step = "rule"
      BY <3>1, <3>2 DEF AuthInv, Agreement, Untouched
    <3>3. CASE At(v, t) /\ call[t].step # "rule"
      BY <3>3
    <3> QED
      BY <3>2, <3>3
  <2> QED
    BY <2>1 DEF Agreement
<1>6. AloneIsAlone' /\ RuleStands'
  BY <1>2, <1>3 DEF AuthInv, AloneIsAlone, RuleStands
<1>7. PolicyMarks'
  <2>1. ASSUME NEW x \in Threads, NEW g \in Grants, At(g, x)', ~call'[x].listed,
               call'[x].step \in {"save", "saving"}
        PROVE  g \in torn'
    <3>1. x # t /\ At(g, x) /\ g \in torn
      BY <1>2, <1>3, <2>1, RuleSets DEF AuthInv, PolicyMarks
    <3>2. ~(At(g, t) /\ call[t].alone)
      BY <3>1, RuleSets DEF AuthInv, AloneIsAlone
    <3> QED
      BY <3>1, <3>2
  <2> QED
    BY <2>1 DEF PolicyMarks
<1> QED
  BY <1>4, <1>5, <1>6, <1>7 DEF AuthInv

LEMMA KeepRuleKeeps ==
  ASSUME AuthInv, NEW t \in Threads, KeepRule(t)
  PROVE  AuthInv'
<1>1. /\ call[t] \in Calls /\ call[t].step = "rule"
      /\ \A r \in Rules : At(r, t) => (r \in rules <=> call[t].op = "add")
  BY ChangedSet DEF AuthInv, AuthTypeOK, KeepRule
<1>2. AuthTypeOK' /\ SavedAgrees'
  <2>1. AfterPolicy(t) \in {"row", "done"} /\ (AfterPolicy(t) = "row" => call[t].listed)
    BY DEF AfterPolicy
  <2>2. call' \in [Threads -> Calls]
    BY <1>1, <2>1, Proceeding DEF KeepRule, AuthInv
  <2> QED
    BY <2>2 DEF KeepRule, AuthInv, AuthTypeOK, SavedAgrees
<1>3. CASE call[t].listed
  BY <1>1, <1>2, <1>3, ToRowKeeps DEF KeepRule, AfterPolicy
<1>4. CASE ~call[t].listed
  <2>1. Proceed(t, "done", {}) /\ UNCHANGED <<rules, saved, rows, active, live, changes, torn, unsaved>>
    BY <1>4 DEF KeepRule, AfterPolicy
  <2>2. {rows, torn} \subseteq SUBSET Grants /\ {saved, unsaved} \subseteq SUBSET Rules
    BY DEF AuthInv, AuthTypeOK
  <2> QED
    BY <1>1, <1>2, <2>1, <2>2, EndKeeps
<1> QED
  BY <1>3, <1>4

LEMMA SaveCommitsKeeps ==
  ASSUME AuthInv, NEW t \in Threads, NEW set \in SUBSET Rules, SaveCommits(t, set)
  PROVE  AuthInv'
<1>1. call[t] \in Calls /\ call[t].step = "saving" /\ call[t].unsure \subseteq Rules
  BY CallFields DEF AuthInv, AuthTypeOK, SaveCommits
<1>2. AuthTypeOK' /\ SavedAgrees'
  <2>1. AfterPolicy(t) \in {"row", "done"} /\ (AfterPolicy(t) = "row" => call[t].listed)
    BY DEF AfterPolicy
  <2>2. call' \in [Threads -> Calls]
    BY <1>1, <2>1, Proceeding DEF SaveCommits, AuthInv
  <2> QED
    BY <1>1, <2>2 DEF SaveCommits, Saves, AuthInv, AuthTypeOK, SavedAgrees
<1>3. CASE call[t].listed
  BY <1>1, <1>2, <1>3, ToRowKeeps DEF SaveCommits, AfterPolicy
<1>4. CASE ~call[t].listed
  <2>1. Proceed(t, "done", set) /\ UNCHANGED <<rules, rows, active, live, changes, torn>>
    BY <1>4 DEF SaveCommits, AfterPolicy
  <2>2. {rows, torn} \subseteq SUBSET Grants /\ {saved', unsaved'} \subseteq SUBSET Rules
    BY <1>2 DEF AuthInv, AuthTypeOK
  <2>3. \A v \in Grants \ torn : ~At(v, t)
    BY <1>1, <1>4 DEF AuthInv, PolicyMarks
  <2> QED
    BY <1>1, <1>2, <2>1, <2>2, <2>3, EndKeeps
<1> QED
  BY <1>3, <1>4

LEMMA WriteRowKeeps ==
  ASSUME AuthInv, NEW t \in Threads, WriteRow(t)
  PROVE  AuthInv'
<1>1. call[t] \in Calls /\ call[t].step = "row" /\ call[t].rule \subseteq Grants
  BY CallFields DEF AuthInv, AuthTypeOK, WriteRow
<1>2. /\ rows' \subseteq Grants
      /\ \A g \in Grants : ~At(g, t) => (g \in rows' <=> g \in rows)
      /\ \A g \in Grants : At(g, t) => (g \in rows' <=> call[t].op = "add")
  <2>1. rows \subseteq Rules /\ rows \subseteq Grants
    BY RuleSets DEF AuthInv, AuthTypeOK
  <2>2. rows' \subseteq Grants
    BY <1>1, <2>1 DEF WriteRow, RowsThen, Changed
  <2> QED
    BY <1>1, <2>1, <2>2, ChangedSet, RuleSets DEF WriteRow, RowsThen
<1>3. call[t].alone => \A g \in Grants : At(g, t) => (g \in rules <=> call[t].op = "add")
  BY <1>1, RuleSets DEF AuthInv, RuleStands
<1>4. /\ torn' \subseteq Grants
      /\ \A g \in Grants \ torn' : (At(g, t) => call[t].alone) /\ (~At(g, t) => g \notin torn)
      /\ \A g \in torn \ torn' : At(g, t) /\ call[t].alone
  BY <1>1 DEF WriteRow, AuthInv, AuthTypeOK, GrantOf, At
<1>5. saved' \subseteq Rules /\ unsaved' \subseteq Rules /\ SavedAgrees'
  BY DEF WriteRow, AuthInv, AuthTypeOK, SavedAgrees
<1> QED
  BY <1>1, <1>2, <1>3, <1>4, <1>5, EndKeeps DEF WriteRow

LEMMA FailsKeeps ==
  ASSUME AuthInv, NEW t \in Threads, Fails(t)
  PROVE  AuthInv'
<1>1. call[t] \in Calls /\ call[t].step # "done"
  BY DEF AuthInv, AuthTypeOK, Fails
<1>2. /\ torn \subseteq torn' /\ torn' \subseteq Grants
      /\ \A g \in Grants \ torn' : At(g, t) => call[t].step = "rule"
  BY DEF Fails, AuthInv, AuthTypeOK, GrantOf, At
<1>3. rows' = rows /\ rows \subseteq Grants
  BY DEF Fails, AuthInv, AuthTypeOK
<1>4. saved' \subseteq Rules /\ unsaved' \subseteq Rules /\ SavedAgrees'
  BY DEF Fails, AuthInv, AuthTypeOK, SavedAgrees
<1> QED
  BY <1>1, <1>2, <1>3, <1>4, EndKeeps DEF Fails

LEMMA AuthRestartKeeps ==
  ASSUME AuthInv, AuthRestart
  PROVE  AuthInv'
<1>1. call' \in [Threads -> Calls] /\ \A v \in Rules, x \in Threads : ~At(v, x)'
  BY DEF AuthRestart, Calls, Idle, At
<1>2. \A v \in Rules : v \in RulesOf(Threads) <=> \E t \in Threads : At(v, t)
  BY RulesOfAll DEF At
<1>3. AuthTypeOK'
  BY <1>1, RuleSets DEF AuthRestart, Change, AuthInv, AuthTypeOK
<1>4. Agreement'
  <2>1. ASSUME NEW g \in Grants \ torn'
        PROVE  g \in rows' <=> g \in rules'
    <3>1. g \in Rules /\ g \notin torn /\ g \notin unsaved /\ g \notin Bootstrap /\ Untouched(g)
      BY <1>2, <2>1, RuleSets DEF AuthRestart, Untouched
    <3>2. (g \in rows <=> g \in rules) /\ (g \in saved <=> g \in rules)
      BY <2>1, <3>1 DEF AuthInv, Agreement, SavedAgrees
    <3> QED
      BY <3>1, <3>2 DEF AuthRestart
  <2> QED
    BY <2>1 DEF Agreement
<1>5. AloneIsAlone' /\ RuleStands' /\ PolicyMarks' /\ SavedAgrees'
  BY <1>1, RuleSets DEF AuthRestart, AloneIsAlone, RuleStands, PolicyMarks, SavedAgrees
<1> QED
  BY <1>3, <1>4, <1>5 DEF AuthInv

LEMMA AuthStillKeeps ==
  ASSUME AuthInv, UNCHANGED <<rules, saved, rows, call, torn, unsaved>>,
         active' \subseteq Users, live' \subseteq Sessions, changes' \in Nat
  PROVE  AuthInv'
BY DEF AuthInv, AuthTypeOK, Agreement, Untouched, At, AloneIsAlone, RuleStands, PolicyMarks, SavedAgrees

\* A request takes a thread of the pool that is idle.
LEMMA RequestKeeps ==
  ASSUME AuthInv, NEW op \in {"add", "remove"}, Request(op)
  PROVE  AuthInv'
<1>1. NextThread \in Threads
  BY DEF Request, NextThread
<1>2. ASSUME NEW g \in Grants, Ask(NextThread, op, g, TRUE)
      PROVE  AuthInv'
  BY <1>1, <1>2, RuleSets, AskKeeps
<1>3. ASSUME NEW r \in Rules, Ask(NextThread, op, r, FALSE)
      PROVE  AuthInv'
  BY <1>1, <1>3, AskKeeps
<1> QED
  BY <1>2, <1>3 DEF Request

\* Every step of the service keeps the invariant, and so does every step of
\* something else.
LEMMA AuthInvStep == AuthInv /\ (AuthNext \/ UNCHANGED authVars) => AuthInv'
<1> SUFFICES ASSUME AuthInv, AuthNext \/ UNCHANGED authVars PROVE AuthInv'
  OBVIOUS
<1>1. ASSUME NEW t \in Threads, AdminStep(t) PROVE AuthInv'
  BY <1>1, ChangeRuleKeeps, KeepRuleKeeps, SaveBeginsKeeps, SaveCommitsKeeps, WriteRowKeeps, FailsKeeps
     DEF AdminStep
<1>2. ASSUME NEW u \in Users, SetActive(u) PROVE AuthInv'
  <2>1. active' \subseteq Users /\ live' \subseteq Sessions /\ changes' \in Nat
    BY <1>2 DEF SetActive, Change, AuthInv, AuthTypeOK
  <2> QED
    BY <1>2, <2>1, AuthStillKeeps DEF SetActive
<1>3. ASSUME NEW s \in Sessions, Expire(s) PROVE AuthInv'
  <2>1. active' \subseteq Users /\ live' \subseteq Sessions /\ changes' \in Nat
    BY <1>3 DEF Expire, Change, AuthInv, AuthTypeOK
  <2> QED
    BY <1>3, <2>1, AuthStillKeeps DEF Expire
<1>4. CASE UNCHANGED authVars
  BY <1>4, AuthStillKeeps DEF authVars, AuthInv, AuthTypeOK
<1> QED
  BY <1>1, <1>2, <1>3, <1>4, RequestKeeps, AuthRestartKeeps DEF AuthNext

\* The invariant gives the agreement of rows and rules ...
LEMMA AuthInvAgrees == AuthInv => GrantsAgree
<1>1. ASSUME AuthInv, NEW g \in Grants \ (torn \cup RulesOf(Threads))
      PROVE  g \in rows <=> g \in rules
  BY <1>1, RulesOfAll DEF AuthInv, Agreement, Untouched, At
<1> QED
  BY <1>1 DEF GrantsAgree

\* ... and what a restart does.
LEMMA AuthInvRestart ==
  AuthInv /\ AuthRestart => \A r \in Rules \ unsaved :
    /\ r \in rules => r \in rules'
    /\ r \in rules' => r \in rules \cup Bootstrap
BY DEF AuthInv, SavedAgrees, AuthRestart

-----------------------------------------------------------------------------
(* The service by itself.                                                  *)

\* The invariant holds whatever the administrators' requests do.
LEMMA AuthAlways == AuthSpec => []AuthInv
<1>1. AuthInv /\ [AuthNext]_authVars => AuthInv'
  BY AuthInvStep
<1> QED
  BY AuthInvInit, <1>1, PTL DEF AuthSpec

\* For any users and threads: account_grants and the rules that decide agree on
\* every grant that no request is at, none left half done and no request for a
\* policy changed since the last one for the grant alone.
THEOREM GrantsAgreeAlways == AuthSpec => []GrantsAgree
BY AuthAlways, AuthInvAgrees, PTL

\* For any users and threads: a restart of the service changes no rule but those
\* changed in memory and not saved for certain, and the development data.
THEOREM RestartKeepsDecisionsAlways == AuthSpec => RestartKeepsDecisions
<1>1. AuthInv /\ [AuthNext]_authVars =>
        [AuthRestart => \A r \in Rules \ unsaved :
           /\ r \in rules => r \in rules'
           /\ r \in rules' => r \in rules \cup Bootstrap]_authVars
  BY AuthInvRestart
<1> QED
  BY AuthAlways, <1>1, PTL DEF AuthSpec, RestartKeepsDecisions

=============================================================================
