----------------------------- MODULE Accounts -----------------------------
(***************************************************************************)
(* The users of the panel.  Each has a row in users and, at Supabase Auth, *)
(* an account to log in with; no transaction covers both.  An admin        *)
(* invites others, deactivates and reactivates them.  An account may also  *)
(* be deleted by hand in the dashboard of Supabase.                        *)
(***************************************************************************)
EXTENDS Naturals, FiniteSets

CONSTANTS
    Users,      \* those who have access, or may be invited
    Panel       \* to begin with: those who have access

ASSUME UsersAssumption == IsFiniteSet(Users)

VARIABLES
    user,       \* users.active, and the account of each at Auth
    op          \* what each admin has under way

accounts == <<user, op>>

Nothing == [pc |-> "idle"]

\* Every one of them is an admin: staff never stops a deactivation.
AccountsInit ==
    /\ user = [u \in Users |->
          IF u \in Panel THEN [row |-> "active", auth |-> "ready", ban |-> FALSE]
          ELSE [row |-> "none", auth |-> "none", ban |-> FALSE]]
    /\ op = [u \in Users |-> Nothing]

Active == {u \in Users : user[u].row = "active"}

\* requireRole: a session, and the row is active.  A ban stops only the next
\* renewal of the session.
MayAct(a) == a \in Active /\ user[a].auth = "ready"

Ends(a) == op' = [op EXCEPT ![a] = Nothing]
Starts(a, pc, u) ==
    /\ MayAct(a) /\ op[a] = Nothing
    /\ op' = [op EXCEPT ![a] = [pc |-> pc, who |-> u]]
Under(a, pc, u) == op[a] = [pc |-> pc, who |-> u]
Write(u, rec) == user' = [user EXCEPT ![u] = rec]

-----------------------------------------------------------------------------
(* Inviting. *)

\* The address is not taken; Auth makes the account and sends the mail.
Invite(a, u) ==
    /\ user[u].row = "none" /\ user[u].auth # "ready"
    /\ Starts(a, "insert", u)
    /\ Write(u, [user[u] EXCEPT !.auth = "invited"])

\* handle_auth_user_deleted: the row goes with the account, or stays inactive
\* when it has a history.
Deleted(u) ==
    /\ user[u].auth # "none"
    /\ \E row \in {"none", IF user[u].row = "none" THEN "none" ELSE "inactive"} :
          Write(u, [row |-> row, auth |-> "none", ban |-> FALSE])

\* The row has the id of the account.  When it cannot be written (another
\* invitation was first) the account is deleted, and that may fail too.
InsertUser(a, u) ==
    /\ Under(a, "insert", u)
    /\ \/ user[u].row = "none" /\ Write(u, [user[u] EXCEPT !.row = "active"])
       \/ Deleted(u)
       \/ UNCHANGED user
    /\ Ends(a)

AcceptInvite(u) ==
    /\ user[u].auth = "invited"
    /\ Write(u, [user[u] EXCEPT !.auth = "ready"])
    /\ UNCHANGED op

-----------------------------------------------------------------------------
(* Deactivating, and back. *)

\* checkDeactivation, on what setUserActive read
CheckDeactivation(a, u) ==
    /\ user[u].row = "active" /\ u # a
    /\ Cardinality(Active) > 1
    /\ Starts(a, "deactivate", u)
    /\ UNCHANGED user

\* Mutant: the check of before is enough.
NoRecheck(u) == user[u].row = "active"

\* What deactivate_internal_user looks at, with the admins locked
NotTheLast(u) == user[u].row = "active" /\ Cardinality(Active) > 1

DeactivateInternalUser(a, u) ==
    /\ Under(a, "deactivate", u)
    /\ IF NotTheLast(u)
       THEN /\ Write(u, [user[u] EXCEPT !.row = "inactive"])
            /\ op' = [op EXCEPT ![a].pc = "ban"]
       ELSE Ends(a) /\ UNCHANGED user

\* The answer of Auth is not looked at.
BlockSessions(a, u) ==
    /\ Under(a, "ban", u)
    /\ \/ user[u].auth # "none" /\ Write(u, [user[u] EXCEPT !.ban = TRUE])
       \/ UNCHANGED user
    /\ Ends(a)

FindAccount(a, u) ==
    /\ user[u].row \in {"active", "inactive"} /\ user[u].auth # "none"
    /\ Starts(a, "activate", u)
    /\ UNCHANGED user

ActivateUser(a, u) ==
    /\ Under(a, "activate", u)
    /\ IF user[u].row = "none" THEN UNCHANGED user
       ELSE Write(u, [user[u] EXCEPT !.row = "active"])
    /\ op' = [op EXCEPT ![a].pc = "unban"]

UnblockSessions(a, u) ==
    /\ Under(a, "unban", u)
    /\ \/ Write(u, [user[u] EXCEPT !.ban = FALSE])
       \/ UNCHANGED user
    /\ Ends(a)

\* A request dies between two of its steps.
PanelFails(a) == op[a] # Nothing /\ Ends(a) /\ UNCHANGED user

\* By hand, in the dashboard of Supabase.
DeleteAccount(u) == Deleted(u) /\ UNCHANGED op

AdminStep(a, u) ==
    \/ Invite(a, u) \/ InsertUser(a, u)
    \/ CheckDeactivation(a, u) \/ DeactivateInternalUser(a, u)
    \/ BlockSessions(a, u)
    \/ FindAccount(a, u) \/ ActivateUser(a, u) \/ UnblockSessions(a, u)

AccountsNext ==
    \/ \E a, u \in Users : AdminStep(a, u)
    \/ \E u \in Users : AcceptInvite(u) \/ PanelFails(u) \/ DeleteAccount(u)

AccountsSpec == AccountsInit /\ [][AccountsNext]_accounts

-----------------------------------------------------------------------------
(* Properties. *)

\* Admins who deactivate each other at once never leave the panel with no
\* active admin, who alone could invite another.  Only deleting an account
\* does: by hand, or to undo an invitation that another admin completed.
SomeAdmin ==
    [][Active # {} /\ Active' = {}
          => \E u \in Users : user[u].auth # "none" /\ user'[u].auth = "none"
      ]_accounts
=============================================================================
