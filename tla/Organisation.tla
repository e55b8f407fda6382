---------------------------- MODULE Organisation ----------------------------
(***************************************************************************)
(* Who is in the question center and where a team is reached: users,       *)
(* global administrators, teams, memberships and the WeCom groups bound to *)
(* teams (admin/service.py and its routes in web/app.py, the binding in    *)
(* routing/directory.py, the loader of bootstrap.py).                      *)
(*                                                                         *)
(* The web process answers one request at a time between two awaits, so    *)
(* an operation of the administration is one step.  A group is bound by    *)
(* three processes, the web process, the worker (a command in the group)   *)
(* and the loader, each of which reads rows without locking them and       *)
(* writes them when it commits; a binding therefore is two steps.          *)
(*                                                                         *)
(* Abstractions.  Names are left out.  A membership is NONE once           *)
(* valid_until is set; a user or a team keeps its row for ever, except a   *)
(* deleted team.  Files for the loader say anything; one with several      *)
(* items is as many runs of it, each between two operations, except that a *)
(* group is bound in two steps.                                            *)
(* A definition named Mutant... is a slip that the one after it avoids.    *)
(***************************************************************************)
EXTENDS Naturals, FiniteSets

CONSTANTS
    Users,
    Teams,
    KindOf,       \* DEV or CONSULT_QUEUE, for each team
    Chats,        \* group chats, by chatid
    None,
    InitialAdmin, \* INITIAL_ADMIN_WECOM_USERID, or None
    MaxEdits      \* bound: changes of the organisation

ASSUME OrganisationConstants ==
    /\ None \notin Users \cup Teams \cup Chats
    /\ KindOf \in [Teams -> {"DEV", "CONSULT_QUEUE"}]
    /\ Users # {} /\ IsFiniteSet(Users)
    /\ \E groups \in [Teams -> Chats] :
          \A s, t \in Teams : s # t => groups[s] # groups[t]
    /\ InitialAdmin \in Users \cup {None}
    /\ MaxEdits \in Nat

(***************************************************************************)
(*   user[u]       NONE, ACTIVE or OFF                                     *)
(*   admins        the users whose is_global_admin is set                  *)
(*   setup         users for whom POST /setup has found no administrator   *)
(*                 and is reading its body                                 *)
(*   team[t]       NONE, ACTIVE, OFF or GONE                               *)
(*   member[t][u]  NONE, MEMBER or ADMIN                                   *)
(*   chat[c]       wecom_channels: the team (None: no row) and active;     *)
(*                 initialized_at is set by whoever writes the row         *)
(*   bind[p]       the binding process p has read the rows for; alone is   *)
(*                 history: no other binding of the team has been under    *)
(*                 way since                                               *)
(*   torn          history: the teams whose last binding was not alone     *)
(*   edits         counts the changes                                      *)
(*   loads         history: how many users the loader has written          *)
(***************************************************************************)
VARIABLES user, admins, setup, team, member, chat, bind, torn, edits,
          loads

people == <<user, admins, setup>>
binding == <<bind, torn>>
counts == <<edits, loads>>
orgVars == <<people, team, member, chat, binding, counts>>

Processes == {"web", "worker", "script"}
NoBinding == [on |-> FALSE, team |-> None, chat |-> None, active |-> {},
              known |-> FALSE, alone |-> TRUE]
Unbound == [team |-> None, active |-> FALSE]

Bindings == [on : BOOLEAN, team : Teams \cup {None}, chat : Chats \cup {None},
             active : SUBSET Chats, known : BOOLEAN, alone : BOOLEAN]

OrgTypeOK ==
    /\ user \in [Users -> {"NONE", "ACTIVE", "OFF"}]
    /\ admins \subseteq {u \in Users : user[u] # "NONE"}
    /\ setup \subseteq Users
    /\ team \in [Teams -> {"NONE", "ACTIVE", "OFF", "GONE"}]
    /\ member \in [Teams -> [Users -> {"NONE", "MEMBER", "ADMIN"}]]
    /\ chat \in [Chats -> [team : Teams \cup {None}, active : BOOLEAN]]
    /\ \A c \in Chats : chat[c].team = None => chat[c] = Unbound
    /\ bind \in [Processes -> Bindings]
    /\ torn \subseteq Teams
    /\ edits \in 0..MaxEdits /\ loads \in 0..edits

\* A fresh instance.
FreshOrganisation ==
    /\ user = [u \in Users |-> "NONE"]
    /\ admins = {}
    /\ team = [t \in Teams |-> "NONE"]
    /\ member = [t \in Teams |-> [u \in Users |-> "NONE"]]
    /\ chat = [c \in Chats |-> Unbound]

\* One in use: everybody and every team is there, one user is a global and
\* another a team administrator, and every team has one group.
ConfiguredOrganisation ==
    LET boss == CHOOSE u \in Users : TRUE
        groups == CHOOSE f \in [Teams -> Chats] :
                     \A s, t \in Teams : s # t => f[s] # f[t]
    IN /\ user = [u \in Users |-> "ACTIVE"]
       /\ admins = {boss}
       /\ team = [t \in Teams |-> "ACTIVE"]
       /\ member = [t \in Teams |-> [u \in Users |->
                       IF u # boss THEN "ADMIN" ELSE "NONE"]]
       /\ chat = [c \in Chats |->
                    IF \E t \in Teams : groups[t] = c
                    THEN [team |-> CHOOSE t \in Teams : groups[t] = c,
                          active |-> TRUE]
                    ELSE Unbound]

OrgIdle ==
    /\ setup = {}
    /\ bind = [p \in Processes |-> NoBinding]
    /\ torn = {}
    /\ edits = 0 /\ loads = 0

Edit == edits < MaxEdits /\ edits' = edits + 1 /\ UNCHANGED loads

WebFree == ~bind["web"].on

\* assert_global_admin, in the transaction of each operation.
ByAdmin == WebFree /\ \E a \in admins : user[a] = "ACTIVE"

BoundTo(t) == {c \in Chats : chat[c].team = t}
ActiveChats(t) == {c \in BoundTo(t) : chat[c].active}

-----------------------------------------------------------------------------
(* Users and global administrators.                                        *)

\* has_global_admin: active or not.
NoAdmin == admins = {}

\* A slip in Promote: the user is taken to be there.
MutantPromote(u) == admins' = admins \cup {u} /\ UNCHANGED user

\* initialize_global_admin.
Promote(u) ==
    /\ user' = [user EXCEPT ![u] = "ACTIVE"]
    /\ admins' = admins \cup {u}

\* POST /setup up to the await of its body.
CheckSetup(u) ==
    /\ WebFree
    /\ NoAdmin
    /\ u \notin setup
    /\ setup' = setup \cup {u}
    /\ Edit
    /\ UNCHANGED <<user, admins, team, member, chat, binding>>

\* The rest of it: the token is checked, not that there is still no
\* administrator.
FinishSetup(u) ==
    /\ WebFree
    /\ u \in setup
    /\ Promote(u)
    /\ setup' = setup \ {u}
    /\ UNCHANGED <<team, member, chat, binding, counts>>

CreateUser(u, isAdmin) ==
    /\ ByAdmin
    /\ user[u] = "NONE"
    /\ user' = [user EXCEPT ![u] = "ACTIVE"]
    /\ admins' = IF isAdmin THEN admins \cup {u} ELSE admins
    /\ Edit
    /\ UNCHANGED <<setup, team, member, chat, binding>>

NotLast == Cardinality({a \in admins : user[a] = "ACTIVE"}) > 1

\* A slip in UpdateUser: only the flag is guarded, not whether its bearer is
\* active.
MutantUpdateUser(u, st, isAdmin) ==
    /\ ByAdmin
    /\ user[u] # "NONE"
    /\ u \in admins /\ ~isAdmin => NotLast
    /\ user' = [user EXCEPT ![u] = st]
    /\ admins' = IF isAdmin THEN admins \cup {u} ELSE admins \ {u}
    /\ Edit
    /\ UNCHANGED <<setup, team, member, chat, binding>>

UpdateUser(u, st, isAdmin) ==
    /\ ByAdmin
    /\ user[u] # "NONE"
    /\ u \in admins /\ (~isAdmin \/ st = "OFF") => NotLast
    /\ user' = [user EXCEPT ![u] = st]
    /\ admins' = IF isAdmin THEN admins \cup {u} ELSE admins \ {u}
    /\ Edit
    /\ UNCHANGED <<setup, team, member, chat, binding>>

-----------------------------------------------------------------------------
(* Teams and memberships.                                                  *)

CreateTeam(t) ==
    /\ ByAdmin
    /\ team[t] = "NONE"
    /\ team' = [team EXCEPT ![t] = "ACTIVE"]
    /\ Edit
    /\ UNCHANGED <<people, member, chat, binding>>

UpdateTeam(t) ==
    /\ ByAdmin
    /\ team[t] \in {"ACTIVE", "OFF"}
    /\ team' = [team EXCEPT ![t] = IF @ = "ACTIVE" THEN "OFF" ELSE "ACTIVE"]
    /\ Edit
    /\ UNCHANGED <<people, member, chat, binding>>

SetMembership(t, u, role) ==
    /\ ByAdmin
    /\ team[t] = "ACTIVE" /\ user[u] = "ACTIVE"
    /\ member[t][u] # role
    /\ member' = [member EXCEPT ![t][u] = role]
    /\ Edit
    /\ UNCHANGED <<people, team, chat, binding>>

RemoveMembership(t, u) ==
    /\ ByAdmin
    /\ member[t][u] # "NONE"
    /\ member' = [member EXCEPT ![t][u] = "NONE"]
    /\ Edit
    /\ UNCHANGED <<people, team, chat, binding>>

\* delete_team, of a team that no issue refers to: memberships and groups go
\* with it.
DeleteTeam(t) ==
    /\ ByAdmin
    /\ team[t] \in {"ACTIVE", "OFF"}
    /\ team' = [team EXCEPT ![t] = "GONE"]
    /\ member' = [member EXCEPT ![t] = [u \in Users |-> "NONE"]]
    /\ chat' = [c \in Chats |-> IF chat[c].team = t THEN Unbound ELSE chat[c]]
    /\ Edit
    /\ UNCHANGED <<people, binding>>

-----------------------------------------------------------------------------
(* Binding a group to a team.                                              *)

\* bind_team_chat, and _upsert_channels for the loader: the team must be
\* active (which the loader does not ask: its file says), and the group not be
\* another team's.
BindRead(p, t, c) ==
    /\ ~bind[p].on
    /\ p = "web" => ByAdmin
    /\ p = "script" => KindOf[t] = "DEV"
    /\ team[t] = "ACTIVE" \/ (p = "script" /\ team[t] # "GONE")
    /\ chat[c].team \in {None, t}
    /\ bind' = [q \in Processes |->
                  IF q = p
                  THEN [on |-> TRUE, team |-> t, chat |-> c,
                        active |-> ActiveChats(t), known |-> chat[c].team = t,
                        alone |-> \A o \in Processes : bind[o].team # t]
                  ELSE [bind[q] EXCEPT !.alone = @ /\ bind[q].team # t]]
    /\ Edit
    /\ UNCHANGED <<people, team, member, chat, torn>>

\* A slip in CanCommit: the row is written whoever has written it meanwhile.
MutantCanCommit(b) == team[b.team] # "GONE"

\* The commit fails if the team is gone or somebody else has written or deleted
\* the row of the group.
CanCommit(b) ==
    /\ team[b.team] # "GONE"
    /\ chat[b.chat].team = IF b.known THEN b.team ELSE None

\* A slip in Bound: the group is activated before the others are deactivated.
MutantBound(b) ==
    [c \in Chats |-> CASE c \in b.active -> [chat[c] EXCEPT !.active = FALSE]
                       [] c = b.chat /\ c \notin b.active ->
                            [team |-> b.team, active |-> TRUE]
                       [] OTHER -> chat[c]]

\* Only what changed against the rows read is written: a group that was active
\* is not activated again.
Bound(b) ==
    [c \in Chats |-> CASE c = b.chat /\ c \notin b.active ->
                            [team |-> b.team, active |-> TRUE]
                       [] c # b.chat /\ c \in b.active ->
                            [chat[c] EXCEPT !.active = FALSE]
                       [] OTHER -> chat[c]]

BindCommit(p) ==
    /\ bind[p].on
    /\ IF CanCommit(bind[p])
       THEN /\ chat' = Bound(bind[p])
            /\ IF p = "script" THEN \E st \in {"ACTIVE", "OFF"} :
                                       team' = [team EXCEPT ![bind[p].team] = st]
               ELSE UNCHANGED team
            /\ torn' = IF bind[p].alone THEN torn \ {bind[p].team}
                       ELSE torn \cup {bind[p].team}
       ELSE UNCHANGED <<chat, team, torn>>
    /\ bind' = [bind EXCEPT ![p] = NoBinding]
    /\ UNCHANGED <<people, member, counts>>

-----------------------------------------------------------------------------
(* The loader.                                                             *)

\* _upsert_users: a new user is active; one who is there is what the file says,
\* last administrator or not.  _upsert_global_admin is the case of an active
\* administrator.
LoadUser(u, st, isAdmin) ==
    /\ user[u] = "NONE" => st = "ACTIVE"
    /\ user' = [user EXCEPT ![u] = st]
    /\ admins' = IF isAdmin THEN admins \cup {u} ELSE admins \ {u}
    /\ edits < MaxEdits /\ edits' = edits + 1
    /\ loads' = loads + 1
    /\ UNCHANGED <<setup, team, member, chat, binding>>

LoadTeam(t, st) ==
    /\ team[t] # "GONE"
    /\ team' = [team EXCEPT ![t] = st]
    /\ Edit
    /\ UNCHANGED <<people, member, chat, binding>>

\* A membership of a team and a user in the same file, active or not.
LoadMembership(t, u, role) ==
    /\ team[t] \in {"ACTIVE", "OFF"} /\ user[u] # "NONE"
    /\ member' = [member EXCEPT ![t][u] = role]
    /\ Edit
    /\ UNCHANGED <<people, team, chat, binding>>

-----------------------------------------------------------------------------
(* The processes.                                                          *)

\* The web process starts again, and the configured administrator with it,
\* whatever has become of that user (create_app).
RestartWeb ==
    /\ IF InitialAdmin = None THEN UNCHANGED <<user, admins>>
       ELSE Promote(InitialAdmin)
    /\ setup' = {}
    /\ bind' = [bind EXCEPT !["web"] = NoBinding]
    /\ Edit
    /\ UNCHANGED <<team, member, chat, torn>>

\* The routes of the administration.
UserRequest(u) ==
    \E isAdmin \in BOOLEAN :
        \/ CreateUser(u, isAdmin)
        \/ \E st \in {"ACTIVE", "OFF"} : UpdateUser(u, st, isAdmin)

TeamRequest(t) == CreateTeam(t) \/ UpdateTeam(t) \/ DeleteTeam(t)

MemberRequest(t, u) ==
    \/ \E role \in {"MEMBER", "ADMIN"} : SetMembership(t, u, role)
    \/ RemoveMembership(t, u)

OrgNext ==
    \/ \E u \in Users : CheckSetup(u) \/ FinishSetup(u) \/ UserRequest(u)
    \/ \E t \in Teams : \/ TeamRequest(t)
                      \/ \E u \in Users : MemberRequest(t, u)
                      \/ \E p \in Processes, c \in Chats : BindRead(p, t, c)
    \/ \E p \in Processes : BindCommit(p)
    \/ \E u \in Users, st \in {"ACTIVE", "OFF"} :
          \/ \E isAdmin \in BOOLEAN : LoadUser(u, st, isAdmin)
          \/ \E t \in Teams : LoadTeam(t, st)
    \/ \E t \in Teams, u \in Users, role \in {"MEMBER", "ADMIN"} : LoadMembership(t, u, role)

-----------------------------------------------------------------------------
(* Properties.                                                             *)

\* USER_GUIDE.md:174: the system keeps at least one active global administrator,
\* once it has any.
AdminRemains == admins # {} => \E a \in admins : user[a] = "ACTIVE"

\* No command, no setup and no restart leaves an instance that has an active
\* administrator with administrators none of whom is active; that would lock it
\* out, since /setup stays closed as long as any administrator is there
\* (_assert_not_last_global_admin, has_global_admin).  Only the loader can: it
\* does not look whom it deactivates.
LastAdminStays == [][AdminRemains => AdminRemains' \/ loads' # loads]_orgVars

\* A team that has been bound has exactly one active group, the one routing
\* needs to reach it, unless bindings of it overlapped: those may leave two, or
\* none, until a later binding that has the team to itself, which makes it one
\* again whatever it finds (bind_team_chat, _upsert_channels).
OneGroup ==
    \A t \in Teams \ torn :
        BoundTo(t) # {} => Cardinality(ActiveChats(t)) = 1
=============================================================================
