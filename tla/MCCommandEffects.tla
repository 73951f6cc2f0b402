-------------------------- MODULE MCCommandEffects --------------------------
(* Model-checking instances of CommandEffects.                             *)
EXTENDS CommandEffects, TLC

CONSTANTS r1, r2, f1, f2, x1, x2, o1, o2, s1, s2

Write(r, f, x, policy) ==
  [kind |-> "write", repo |-> r, path |-> f, content |-> x, policy |-> policy, valid |-> TRUE]

Bundle == Write(None, f1, x1, "direct")
Instance == Write(r1, f2, x1, "direct")
Proposal == Write(None, f1, x2, "pr")
Store == [Instance EXCEPT !.path = f1, !.valid = FALSE]
Prune == [Bundle EXCEPT !.kind = "delete", !.content = None]
PrunePR == [Prune EXCEPT !.policy = "pr"]
Move == [kind |-> "rebind", repo |-> r2, valid |-> TRUE]
Stay == [Move EXCEPT !.repo = r1]
BadMove == [Move EXCEPT !.valid = FALSE]

App == [kind |-> "register", objects |-> <<o1, o2>>, spec |-> s1,
        decodes |-> TRUE, valid |-> TRUE]
Set == [App EXCEPT !.objects = <<o2>>, !.spec = s2]
BadApp == [App EXCEPT !.valid = FALSE]
Garbled == [Set EXCEPT !.decodes = FALSE]
Sync == [kind |-> "invoke", object |-> o2, user |-> TRUE, args |-> TRUE, valid |-> TRUE]
Refresh == [Sync EXCEPT !.user = FALSE]
Rollback == [Sync EXCEPT !.args = FALSE]

MCWorkloads ==
  {{Bundle, Instance}, {Bundle, Proposal}, {Proposal, Prune}, {Bundle, Move},
   {Instance, Move}, {Move, Stay}, {Store, BadMove}, {PrunePR, Garbled}, {BadApp},
   {App, Set}, {Set, Sync}, {Refresh}, {Rollback}}

MCCommands == UNION MCWorkloads

Theirs(here, inSkew) ==
  [owner |-> "tenant", here |-> here, inSkew |-> inSkew, docs |-> Docs, racing |-> {}]

\* Nothing; an ArgoCD that is out of skew; one to adopt, in another namespace.
MCSetups ==
  [mode : {"bundle"}, install : {None, Theirs(TRUE, FALSE)}]
    \cup [mode : {"byo"}, install : {None, Theirs(FALSE, TRUE)}]
=============================================================================
