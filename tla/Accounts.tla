------------------------------ MODULE Accounts ------------------------------
(***************************************************************************)
(* Workspaces, the people in them and the tokens they hold: signup, login, *)
(* invites, and the principal a token becomes. A password is right or      *)
(* wrong and is left out; ids and slugs are drawn once.                    *)
(*                                                                         *)
(* An e-mail is looked up before the row is written, and the lookup of two *)
(* requests may come before either write: the unique constraint is what    *)
(* keeps one address to one account, and the rollback of the request that  *)
(* meets it takes the new workspace along.                                 *)
(***************************************************************************)
EXTENDS Naturals, FiniteSets

CONSTANTS
    Tenant,     \* ids of workspaces
    Email,      \* addresses, in lower case
    Owner,      \* requests that may run side by side
    MaxTokens,  \* bound: tokens alive
    None

VARIABLES
    tenants,  \* workspaces and whether the trial has run out
    users,    \* accounts
    tokens,   \* bearer tokens that have not expired
    invites,  \* invite tokens that have not expired
    txn       \* what a signup or an acceptance has looked up

vars == <<tenants, users, tokens, invites, txn>>

Role == {"owner", "admin", "member"}
User == [email : Email, tenant : Tenant, role : Role]
Invite == [tenant : Tenant, role : Role \ {"owner"}]

TypeOK ==
    /\ tenants \in [Tenant -> {None, "trial", "lapsed"}]
    /\ users \subseteq User
    /\ tokens \subseteq User
    /\ invites \subseteq Invite
    /\ txn \in [Owner -> User \cup {None}]

Init == tenants = [t \in Tenant |-> None] /\ users = {} /\ tokens = {} /\ invites = {}
        /\ txn = [o \in Owner |-> None]
-----------------------------------------------------------------------------
Registered == {u.email : u \in users}
Opened == {t \in Tenant : tenants[t] # None}
Pending == {txn[o] : o \in Owner} \ {None}
Close(o) == txn' = [txn EXCEPT ![o] = None]
Reads(o, user) ==
    /\ txn[o] = None /\ user.email \notin Registered
    /\ txn' = [txn EXCEPT ![o] = user]
    /\ UNCHANGED <<tenants, users, tokens, invites>>

\* Fault: an address may have several accounts.
AnyEmail(user) == TRUE
\* uq_users_email.
FreeEmail(user) == user.email \notin Registered

\* mint_jwt through _auth_response: the address, the workspace and the role of the row.
Token(user) == tokens' = tokens \cup {user}
Room == Cardinality(tokens) < MaxTokens

SignupReads(o, e, t) ==
    /\ t \notin Opened \cup {u.tenant : u \in Pending}
    /\ Reads(o, [email |-> e, tenant |-> t, role |-> "owner"])

\* Fault: the workspace is committed before its owner is written.
SignupInTwo(o) ==
    /\ txn[o] # None /\ txn[o].role = "owner"
    /\ tenants' = [tenants EXCEPT ![txn[o].tenant] = "trial"]
    /\ users' = IF FreeEmail(txn[o]) THEN users \cup {txn[o]} ELSE users
    /\ IF FreeEmail(txn[o]) THEN Room /\ Token(txn[o]) ELSE UNCHANGED tokens
    /\ Close(o)
    /\ UNCHANGED invites
\* The workspace and its owner are one transaction.
Signup(o) ==
    /\ txn[o] # None /\ txn[o].role = "owner" /\ FreeEmail(txn[o]) /\ Room
    /\ tenants' = [tenants EXCEPT ![txn[o].tenant] = "trial"]
    /\ users' = users \cup {txn[o]}
    /\ Token(txn[o])
    /\ Close(o)
    /\ UNCHANGED invites

\* The principal of a token has its workspace and scopes from the claims.
Scopes(token) == IF token.role = "owner" THEN {"owner", "*"} ELSE {token.role}
MayInvite(token) == Scopes(token) \cap {"owner", "*"} # {}

\* An owner hands out a link. It names the workspace and a role, and nothing records it.
CreateInvite(token, role) ==
    /\ MayInvite(token)
    /\ invites' = invites \cup {[tenant |-> token.tenant, role |-> role]}
    /\ UNCHANGED <<tenants, users, tokens, txn>>

AcceptReads(o, invite, e) ==
    /\ invite.tenant \in Opened
    /\ Reads(o, [email |-> e, tenant |-> invite.tenant, role |-> invite.role])

Accept(o) ==
    /\ txn[o] # None /\ txn[o].role # "owner" /\ FreeEmail(txn[o])
    /\ users' = users \cup {txn[o]}
    /\ Close(o)
    /\ UNCHANGED <<tenants, tokens, invites>>

\* The constraint, a weak password, or the database.
Fail(o) == txn[o] # None /\ Close(o) /\ UNCHANGED <<tenants, users, tokens, invites>>

\* The row that is found first; is_active is never taken away.
Login(user) == Room /\ Token(user) /\ UNCHANGED <<tenants, users, invites, txn>>

TokenExpires(token) ==
    tokens' = tokens \ {token} /\ UNCHANGED <<tenants, users, invites, txn>>
InviteExpires(invite) ==
    invites' = invites \ {invite} /\ UNCHANGED <<tenants, users, tokens, txn>>

\* require_active_trial_or_subscription answers 402 from here on; no code sets a plan.
TrialLapses(t) ==
    /\ tenants[t] = "trial"
    /\ tenants' = [tenants EXCEPT ![t] = "lapsed"]
    /\ UNCHANGED <<users, tokens, invites, txn>>

Next ==
    \/ \E o \in Owner, e \in Email : \E t \in Tenant : SignupReads(o, e, t)
    \/ \E o \in Owner : Signup(o) \/ Accept(o) \/ Fail(o)
    \/ \E token \in tokens, role \in {"admin", "member"} : CreateInvite(token, role)
    \/ \E o \in Owner, i \in invites, e \in Email : AcceptReads(o, i, e)
    \/ \E user \in users : Login(user)
    \/ \E token \in tokens : TokenExpires(token)
    \/ \E invite \in invites : InviteExpires(invite)
    \/ \E t \in Tenant : TrialLapses(t)

Spec == Init /\ [][Next]_vars
-----------------------------------------------------------------------------
\* me and login find the account by the address alone.
FoundBy(email) == {u \in users : u.email = email}

\* However signups and acceptances of an address overlap and fail, it is one account: what
\* me finds by the address is the account the token was given to, with its role, in the
\* workspace the token opens. Every workspace has one owner, whose signup opened it, and
\* invites lead to open workspaces only (auth.py:83-152, 193-242, admin.py:119-251,
\* db/models.py:85-120).
TokensNameTheirAccount ==
    /\ \A token \in tokens : FoundBy(token.email) = {token}
    /\ \A invite \in invites : invite.tenant \in Opened
    /\ \A t \in Opened : Cardinality({u \in users : u.tenant = t /\ u.role = "owner"}) = 1
    /\ \A u \in users : u.tenant \in Opened
=============================================================================
