-------------------------- MODULE InspectionProofs --------------------------
(***************************************************************************)
(* Only the loader can lock an organisation out, a team bound by one       *)
(* process after the other has one group, a summary lies with no other     *)
(* team's group as long as there is its own, and each minute's goes once   *)
(* to every team that can be reached, for any number of users, teams,      *)
(* groups, minutes, changes and failures.                                  *)
(***************************************************************************)
EXTENDS Inspection, TLAPS, FiniteSetTheorems

-----------------------------------------------------------------------------
(* The inductive invariant.                                                *)

\* The binding of q, while it is under way and its team is there, has read rows
\* that are still the team's; if it is alone, it has read the ones there are,
\* and no other binding of the team is under way.
Reads(q) ==
    bind[q].on =>
        /\ bind[q].team \in Teams /\ bind[q].chat \in Chats
        /\ team[bind[q].team] # "GONE" =>
             /\ bind[q].active \subseteq BoundTo(bind[q].team)
             /\ bind[q].alone => bind[q].active = ActiveChats(bind[q].team)
        /\ bind[q].alone =>
             \A o \in Processes \ {q} : bind[o].team # bind[q].team

BindingsSound ==
    \A q \in Processes : Reads(q) /\ (~bind[q].on => bind[q].team = None)

\* A group that the team has to itself.
Single(t) == \E c \in Chats : ActiveChats(t) = {c}

SingleUnlessTorn ==
    \A t \in Teams \ torn : BoundTo(t) # {} => Single(t)

OrgInv == OrgTypeOK /\ BindingsSound /\ SingleUnlessTorn

\* The group c is the team's, as long as there is the team.
Owned(t, c) == team[t] # "GONE" => chat[c].team = t

Addressed ==
    \A p \in Rounders :
        round[p].at = "resolved" =>
            /\ round[p].team \in Teams /\ round[p].chat \in Chats
            /\ Owned(round[p].team, round[p].chat)

RoundInv ==
    /\ now \in Minutes
    /\ schedule \subseteq Minutes
    /\ up \in BOOLEAN
    /\ done \in 0..LastMinute
    /\ round \in [Rounders -> Rounds]
    /\ queue \subseteq Messages
    /\ Addressed
    /\ \A q \in queue : Owned(q.team, q.chat)

IInv == OrgInv /\ RoundInv

-----------------------------------------------------------------------------
(* Users and administrators.                                               *)

LEMMA NoBindingIsTyped == NoBinding \in Bindings
BY DEF NoBinding, Bindings

\* A change of people leaves the rest of the organisation as it was.
LEMMA PeopleChange ==
    ASSUME OrgInv, UNCHANGED <<team, chat, torn>>,
           member' \in [Teams -> [Users -> {"NONE", "MEMBER", "ADMIN"}]],
           bind' = bind, edits' \in 0..MaxEdits, loads' \in 0..edits',
           user' \in [Users -> {"NONE", "ACTIVE", "OFF"}],
           admins' \subseteq {u \in Users : user'[u] # "NONE"},
           setup' \subseteq Users
    PROVE  OrgInv'
<1>1. OrgTypeOK'
  BY DEF OrgInv, OrgTypeOK
<1>2. BindingsSound'
  BY DEF OrgInv, BindingsSound, Reads, BoundTo, ActiveChats
<1>3. SingleUnlessTorn'
  BY DEF OrgInv, SingleUnlessTorn, Single, BoundTo, ActiveChats
<1> QED
  BY <1>1, <1>2, <1>3 DEF OrgInv

LEMMA EditIsTyped ==
    ASSUME OrgInv, Edit PROVE edits' \in 0..MaxEdits /\ loads' \in 0..edits'
BY OrganisationConstants DEF OrgInv, OrgTypeOK, Edit

LEMMA PromoteKeeps ==
    ASSUME OrgInv, NEW u \in Users, Promote(u)
    PROVE  /\ user' \in [Users -> {"NONE", "ACTIVE", "OFF"}]
           /\ admins' \subseteq {a \in Users : user'[a] # "NONE"}
BY DEF OrgInv, OrgTypeOK, Promote

LEMMA CheckSetupKeeps ==
    ASSUME OrgInv, NEW u \in Users, CheckSetup(u) PROVE OrgInv'
<1>1. /\ UNCHANGED <<user, admins, team, member, chat, bind, torn>>
      /\ setup' \subseteq Users /\ edits' \in 0..MaxEdits /\ loads' \in 0..edits'
  BY EditIsTyped DEF OrgInv, OrgTypeOK, CheckSetup, binding
<1> QED
  BY <1>1, PeopleChange DEF OrgInv, OrgTypeOK

LEMMA FinishSetupKeeps ==
    ASSUME OrgInv, NEW u \in Users, FinishSetup(u) PROVE OrgInv'
<1>1. /\ UNCHANGED <<team, member, chat, bind, torn, edits, loads>>
      /\ setup' \subseteq Users
  BY DEF OrgInv, OrgTypeOK, FinishSetup, binding, counts
<1> QED
  BY <1>1, PromoteKeeps, PeopleChange DEF OrgInv, OrgTypeOK, FinishSetup

LEMMA CreateUserKeeps ==
    ASSUME OrgInv, NEW u \in Users, NEW i \in BOOLEAN, CreateUser(u, i)
    PROVE  OrgInv'
<1>1. /\ UNCHANGED <<setup, team, member, chat, bind, torn>>
      /\ edits' \in 0..MaxEdits /\ loads' \in 0..edits'
  BY EditIsTyped DEF CreateUser, binding
<1>2. /\ user' \in [Users -> {"NONE", "ACTIVE", "OFF"}]
      /\ admins' \subseteq {a \in Users : user'[a] # "NONE"}
  BY DEF OrgInv, OrgTypeOK, CreateUser
<1> QED
  BY <1>1, <1>2, PeopleChange DEF OrgInv, OrgTypeOK

LEMMA UpdateUserKeeps ==
    ASSUME OrgInv, NEW u \in Users, NEW st \in {"ACTIVE", "OFF"},
           NEW i \in BOOLEAN, UpdateUser(u, st, i)
    PROVE  OrgInv'
<1>1. /\ UNCHANGED <<setup, team, member, chat, bind, torn>>
      /\ edits' \in 0..MaxEdits /\ loads' \in 0..edits'
  BY EditIsTyped DEF UpdateUser, binding
<1>2. /\ user' \in [Users -> {"NONE", "ACTIVE", "OFF"}]
      /\ admins' \subseteq {a \in Users : user'[a] # "NONE"}
  BY DEF OrgInv, OrgTypeOK, UpdateUser
<1> QED
  BY <1>1, <1>2, PeopleChange DEF OrgInv, OrgTypeOK

LEMMA MembershipKeeps ==
    ASSUME OrgInv, NEW t \in Teams, NEW u \in Users, MemberRequest(t, u)
    PROVE  OrgInv'
<1>1. /\ UNCHANGED <<user, admins, setup, team, chat, bind, torn>>
      /\ edits' \in 0..MaxEdits /\ loads' \in 0..edits'
  BY EditIsTyped DEF MemberRequest, SetMembership, RemoveMembership, people, binding
<1>2. PICK role \in {"NONE", "MEMBER", "ADMIN"} :
          member' = [member EXCEPT ![t][u] = role]
  BY DEF MemberRequest, SetMembership, RemoveMembership
<1>3. member' \in [Teams -> [Users -> {"NONE", "MEMBER", "ADMIN"}]]
  BY <1>2 DEF OrgInv, OrgTypeOK
<1> QED
  BY <1>1, <1>3, PeopleChange DEF OrgInv, OrgTypeOK

LEMMA LoadMembershipKeeps ==
    ASSUME OrgInv, NEW t \in Teams, NEW u \in Users, NEW role \in {"MEMBER", "ADMIN"},
           LoadMembership(t, u, role)
    PROVE  OrgInv'
<1>1. /\ UNCHANGED <<user, admins, setup, team, chat, bind, torn>>
      /\ edits' \in 0..MaxEdits /\ loads' \in 0..edits'
  BY EditIsTyped DEF LoadMembership, people, binding
<1>2. member' \in [Teams -> [Users -> {"NONE", "MEMBER", "ADMIN"}]]
  BY DEF LoadMembership, OrgInv, OrgTypeOK
<1> QED
  BY <1>1, <1>2, PeopleChange DEF OrgInv, OrgTypeOK

LEMMA LoadUserKeeps ==
    ASSUME OrgInv, NEW u \in Users, NEW st \in {"ACTIVE", "OFF"},
           NEW i \in BOOLEAN, LoadUser(u, st, i)
    PROVE  OrgInv'
<1>1. /\ UNCHANGED <<setup, team, member, chat, bind, torn>>
      /\ edits' \in 0..MaxEdits /\ loads' \in 0..edits'
  BY OrganisationConstants DEF LoadUser, binding, OrgInv, OrgTypeOK
<1>2. /\ user' \in [Users -> {"NONE", "ACTIVE", "OFF"}]
      /\ admins' \subseteq {a \in Users : user'[a] # "NONE"}
  BY DEF OrgInv, OrgTypeOK, LoadUser
<1> QED
  BY <1>1, <1>2, PeopleChange DEF OrgInv, OrgTypeOK

-----------------------------------------------------------------------------
(* Teams.                                                                  *)

\* A change of the teams that brings none back and leaves the groups alone.
LEMMA TeamChange ==
    ASSUME OrgInv, UNCHANGED <<user, admins, setup, chat, bind, torn>>,
           member' \in [Teams -> [Users -> {"NONE", "MEMBER", "ADMIN"}]],
           edits' \in 0..MaxEdits, loads' \in 0..edits',
           team' \in [Teams -> {"NONE", "ACTIVE", "OFF", "GONE"}],
           \A t \in Teams : team'[t] # "GONE" => team[t] # "GONE"
    PROVE  OrgInv'
<1>1. OrgTypeOK'
  BY DEF OrgInv, OrgTypeOK
<1>2. BindingsSound'
  BY DEF OrgInv, BindingsSound, Reads, BoundTo, ActiveChats
<1>3. SingleUnlessTorn'
  BY DEF OrgInv, SingleUnlessTorn, Single, BoundTo, ActiveChats
<1> QED
  BY <1>1, <1>2, <1>3 DEF OrgInv

LEMMA CreateTeamKeeps ==
    ASSUME OrgInv, NEW t \in Teams, CreateTeam(t) PROVE OrgInv'
<1>1. /\ UNCHANGED <<user, admins, setup, member, chat, bind, torn>>
      /\ edits' \in 0..MaxEdits /\ loads' \in 0..edits'
  BY EditIsTyped DEF CreateTeam, people, binding
<1>2. /\ team' \in [Teams -> {"NONE", "ACTIVE", "OFF", "GONE"}]
      /\ \A s \in Teams : team'[s] # "GONE" => team[s] # "GONE"
  BY DEF CreateTeam, OrgInv, OrgTypeOK
<1> QED
  BY <1>1, <1>2, TeamChange DEF OrgInv, OrgTypeOK

LEMMA UpdateTeamKeeps ==
    ASSUME OrgInv, NEW t \in Teams, UpdateTeam(t) PROVE OrgInv'
<1>1. /\ UNCHANGED <<user, admins, setup, member, chat, bind, torn>>
      /\ edits' \in 0..MaxEdits /\ loads' \in 0..edits'
  BY EditIsTyped DEF UpdateTeam, people, binding
<1>2. /\ team' \in [Teams -> {"NONE", "ACTIVE", "OFF", "GONE"}]
      /\ \A s \in Teams : team'[s] # "GONE" => team[s] # "GONE"
  BY DEF UpdateTeam, OrgInv, OrgTypeOK
<1> QED
  BY <1>1, <1>2, TeamChange DEF OrgInv, OrgTypeOK

LEMMA LoadTeamKeeps ==
    ASSUME OrgInv, NEW t \in Teams, NEW st \in {"ACTIVE", "OFF"}, LoadTeam(t, st)
    PROVE  OrgInv'
<1>1. /\ UNCHANGED <<user, admins, setup, member, chat, bind, torn>>
      /\ edits' \in 0..MaxEdits /\ loads' \in 0..edits'
  BY EditIsTyped DEF LoadTeam, people, binding
<1>2. /\ team' \in [Teams -> {"NONE", "ACTIVE", "OFF", "GONE"}]
      /\ \A s \in Teams : team'[s] # "GONE" => team[s] # "GONE"
  BY DEF LoadTeam, OrgInv, OrgTypeOK
<1> QED
  BY <1>1, <1>2, TeamChange DEF OrgInv, OrgTypeOK

LEMMA DeleteTeamKeeps ==
    ASSUME OrgInv, NEW t \in Teams, DeleteTeam(t) PROVE OrgInv'
<1>1. /\ UNCHANGED <<user, admins, setup, bind, torn>>
      /\ edits' \in 0..MaxEdits /\ loads' \in 0..edits'
      /\ team' = [team EXCEPT ![t] = "GONE"]
      /\ chat' = [c \in Chats |-> IF chat[c].team = t THEN Unbound ELSE chat[c]]
  BY EditIsTyped DEF DeleteTeam, people, binding
<1>2. member' \in [Teams -> [Users -> {"NONE", "MEMBER", "ADMIN"}]]
  BY DEF DeleteTeam, OrgInv, OrgTypeOK
<1>3. \A s \in Teams \ {t} : BoundTo(s)' = BoundTo(s) /\ ActiveChats(s)' = ActiveChats(s)
  BY <1>1, OrganisationConstants DEF BoundTo, ActiveChats, Unbound
<1>4. BoundTo(t)' = {}
  BY <1>1, OrganisationConstants DEF BoundTo, Unbound
<1>5. OrgTypeOK'
  <2>1. team' \in [Teams -> {"NONE", "ACTIVE", "OFF", "GONE"}]
    BY <1>1 DEF OrgInv, OrgTypeOK
  <2>2. /\ chat' \in [Chats -> [team : Teams \cup {None}, active : BOOLEAN]]
        /\ \A c \in Chats : chat'[c].team = None => chat'[c] = Unbound
    BY <1>1 DEF OrgInv, OrgTypeOK, Unbound
  <2> QED
    BY <1>1, <1>2, <2>1, <2>2 DEF OrgInv, OrgTypeOK
<1>6. BindingsSound'
  BY <1>1, <1>3 DEF OrgInv, OrgTypeOK, BindingsSound, Reads
<1>7. SingleUnlessTorn'
  BY <1>1, <1>3, <1>4 DEF OrgInv, SingleUnlessTorn, Single
<1> QED
  BY <1>1, <1>5, <1>6, <1>7 DEF OrgInv

-----------------------------------------------------------------------------
(* Bindings.                                                               *)

\* A process drops the binding it has begun.
LEMMA Dropped ==
    ASSUME OrgInv, NEW p \in Processes, bind' = [bind EXCEPT ![p] = NoBinding],
           UNCHANGED <<team, chat, torn>>
    PROVE  BindingsSound' /\ SingleUnlessTorn' /\ bind' \in [Processes -> Bindings]
<1>1. bind' \in [Processes -> Bindings]
  BY NoBindingIsTyped DEF OrgInv, OrgTypeOK
<1>2. \A q \in Processes : bind'[q] = IF q = p THEN NoBinding ELSE bind[q]
  BY DEF OrgInv, OrgTypeOK
<1>3. BindingsSound'
  <2> SUFFICES ASSUME NEW q \in Processes
               PROVE  Reads(q)' /\ (~bind'[q].on => bind'[q].team = None)
    BY DEF BindingsSound
  <2>1. CASE q = p
    BY <1>2, <2>1 DEF Reads, NoBinding
  <2>2. CASE q # p
    BY <1>2, <2>2, OrganisationConstants
    DEF OrgInv, BindingsSound, Reads, BoundTo, ActiveChats, NoBinding
  <2> QED
    BY <2>1, <2>2
<1>4. SingleUnlessTorn'
  BY DEF OrgInv, SingleUnlessTorn, Single, BoundTo, ActiveChats
<1> QED
  BY <1>1, <1>3, <1>4

LEMMA RestartWebKeeps == ASSUME OrgInv, RestartWeb PROVE OrgInv'
<1>1. /\ UNCHANGED <<team, member, chat, torn>>
      /\ bind' = [bind EXCEPT !["web"] = NoBinding]
      /\ setup' = {} /\ edits' \in 0..MaxEdits /\ loads' \in 0..edits'
  BY EditIsTyped DEF RestartWeb
<1>2. BindingsSound' /\ SingleUnlessTorn' /\ bind' \in [Processes -> Bindings]
  BY <1>1, Dropped DEF Processes
<1>3. /\ user' \in [Users -> {"NONE", "ACTIVE", "OFF"}]
      /\ admins' \subseteq {a \in Users : user'[a] # "NONE"}
  <2>1. CASE InitialAdmin = None
    BY <2>1 DEF RestartWeb, OrgInv, OrgTypeOK
  <2>2. CASE InitialAdmin # None
    BY <2>2, PromoteKeeps, OrganisationConstants DEF RestartWeb
  <2> QED
    BY <2>1, <2>2
<1> QED
  BY <1>1, <1>2, <1>3 DEF OrgInv, OrgTypeOK

LEMMA BindReadKeeps ==
    ASSUME OrgInv, NEW p \in Processes, NEW t \in Teams, NEW c \in Chats,
           BindRead(p, t, c)
    PROVE  OrgInv'
<1> DEFINE fresh == [on |-> TRUE, team |-> t, chat |-> c,
                     active |-> ActiveChats(t), known |-> chat[c].team = t,
                     alone |-> \A o \in Processes : bind[o].team # t]
<1>1. /\ UNCHANGED <<user, admins, setup, team, member, chat, torn>>
      /\ edits' \in 0..MaxEdits /\ loads' \in 0..edits' /\ ~bind[p].on
      /\ bind' = [q \in Processes |->
                    IF q = p THEN fresh
                    ELSE [bind[q] EXCEPT !.alone = @ /\ bind[q].team # t]]
  BY EditIsTyped DEF BindRead, people
<1>2. fresh \in Bindings
  BY DEF Bindings, ActiveChats, BoundTo
<1>3. \A q \in Processes \ {p} :
          /\ bind'[q] \in Bindings
          /\ bind'[q].on = bind[q].on /\ bind'[q].team = bind[q].team
          /\ bind'[q].chat = bind[q].chat /\ bind'[q].active = bind[q].active
          /\ bind'[q].alone => bind[q].alone /\ bind[q].team # t
  BY <1>1 DEF OrgInv, OrgTypeOK, Bindings
<1>4. OrgTypeOK'
  <2>1. bind' \in [Processes -> Bindings]
    BY <1>1, <1>2, <1>3
  <2> QED
    BY <1>1, <2>1 DEF OrgInv, OrgTypeOK
<1>5. bind'[p] = fresh
  BY <1>1
<1>6. BindingsSound'
  <2> SUFFICES ASSUME NEW q \in Processes
               PROVE  Reads(q)' /\ (~bind'[q].on => bind'[q].team = None)
    BY DEF BindingsSound
  <2>1. CASE q = p
    <3>1. bind'[p].alone => \A o \in Processes \ {p} : bind'[o].team # t
      BY <1>3, <1>5
    <3> QED
      BY <1>1, <1>5, <2>1, <3>1 DEF Reads, ActiveChats, BoundTo
  <2>2. CASE q # p
    <3>1. Reads(q) /\ (~bind[q].on => bind[q].team = None)
      BY DEF OrgInv, BindingsSound
    <3>2. ASSUME bind[q].on, bind'[q].alone, NEW o \in Processes \ {q}
          PROVE  bind'[o].team # bind'[q].team
      <4>1. /\ bind'[q].team = bind[q].team /\ bind[q].team # t
            /\ bind[o].team # bind[q].team
        BY <1>3, <2>2, <3>1, <3>2 DEF Reads
      <4>2. CASE o = p
        BY <1>5, <4>1, <4>2
      <4>3. CASE o # p
        BY <1>3, <4>1, <4>3
      <4> QED
        BY <4>2, <4>3
    <3>3. /\ BoundTo(bind[q].team)' = BoundTo(bind[q].team)
          /\ ActiveChats(bind[q].team)' = ActiveChats(bind[q].team)
      BY <1>1, <1>3, <2>2 DEF ActiveChats, BoundTo
    <3>4. team' = team
      BY <1>1
    <3> HIDE DEF fresh
    <3> QED
      BY <1>3, <2>2, <3>1, <3>2, <3>3, <3>4 DEF Reads
  <2> QED
    BY <2>1, <2>2
<1>7. SingleUnlessTorn'
  BY <1>1 DEF OrgInv, SingleUnlessTorn, Single, BoundTo, ActiveChats
<1> QED
  BY <1>1, <1>4, <1>6, <1>7 DEF OrgInv

\* What a binding that can be committed does to the groups.
LEMMA CommitEffect ==
    ASSUME OrgInv, NEW p \in Processes, NEW b, b = bind[p], NEW t, t = b.team,
           b.on, CanCommit(b), chat' = Bound(b)
    PROVE  /\ t \in Teams /\ b.chat \in Chats /\ team[t] # "GONE"
           /\ chat' \in [Chats -> [team : Teams \cup {None}, active : BOOLEAN]]
           /\ \A c \in Chats : chat'[c].team = None => chat'[c] = Unbound
           /\ \A c \in Chats : chat[c].team \in Teams => chat'[c].team = chat[c].team
           /\ \A s \in Teams \ {t} : /\ BoundTo(s)' = BoundTo(s)
                                     /\ ActiveChats(s)' = ActiveChats(s)
           /\ BoundTo(t) \subseteq BoundTo(t)'
           /\ b.alone => ActiveChats(t)' = {b.chat}
<1>1. /\ t \in Teams /\ b.chat \in Chats /\ team[t] # "GONE"
      /\ b.active \subseteq BoundTo(t)
      /\ b.alone => b.active = ActiveChats(t)
  BY DEF OrgInv, BindingsSound, Reads, CanCommit
<1>2. chat[b.chat].team \in {t, None}
  BY DEF CanCommit
<1>3. \A c \in b.active : c \in Chats /\ chat[c].team = t
  BY <1>1 DEF BoundTo
<1>4. \A c \in Chats : chat[c] \in [team : Teams \cup {None}, active : BOOLEAN]
  BY DEF OrgInv, OrgTypeOK
<1>5. ASSUME NEW c \in Chats
      PROVE  /\ c = b.chat /\ c \notin b.active =>
                    chat'[c] = [team |-> t, active |-> TRUE]
             /\ c # b.chat /\ c \in b.active =>
                    chat'[c] = [chat[c] EXCEPT !.active = FALSE]
             /\ c = b.chat /\ c \in b.active => chat'[c] = chat[c]
             /\ c # b.chat /\ c \notin b.active => chat'[c] = chat[c]
  <2>1. chat'[c] = CASE c = b.chat /\ c \notin b.active ->
                              [team |-> t, active |-> TRUE]
                     [] c # b.chat /\ c \in b.active ->
                              [chat[c] EXCEPT !.active = FALSE]
                     [] OTHER -> chat[c]
    BY DEF Bound
  <2> QED
    BY <2>1
<1>6. ASSUME NEW c \in Chats
      PROVE  /\ c = b.chat => chat'[c].team = t
             /\ c # b.chat => chat'[c].team = chat[c].team
             /\ c = b.chat /\ c \notin b.active => chat'[c].active
             /\ c = b.chat /\ c \in b.active => chat'[c].active = chat[c].active
             /\ c # b.chat /\ c \in b.active => ~chat'[c].active
             /\ c # b.chat /\ c \notin b.active => chat'[c].active = chat[c].active
             /\ chat'[c] \in [team : Teams \cup {None}, active : BOOLEAN]
  <2> chat[c] \in [team : Teams \cup {None}, active : BOOLEAN]
    BY <1>4
  <2>1. CASE c = b.chat /\ c \notin b.active
    <3>1. chat'[c] = [team |-> t, active |-> TRUE]
      BY <1>5, <2>1
    <3>2. chat'[c].team = t /\ chat'[c].active
      BY <3>1
    <3>3. chat'[c] \in [team : Teams \cup {None}, active : BOOLEAN]
      BY <1>1, <3>1
    <3> QED
      BY <2>1, <3>2, <3>3
  <2>2. CASE c = b.chat /\ c \in b.active
    BY <1>3, <1>5, <2>2
  <2>3. CASE c # b.chat /\ c \in b.active
    BY <1>5, <2>3
  <2>4. CASE c # b.chat /\ c \notin b.active
    BY <1>5, <2>4
  <2> QED
    BY <2>1, <2>2, <2>3, <2>4
<1>7. chat' \in [Chats -> [team : Teams \cup {None}, active : BOOLEAN]]
  BY <1>6 DEF Bound
<1>8. \A c \in Chats : chat'[c].team = None => chat'[c] = Unbound
  <2> SUFFICES ASSUME NEW c \in Chats, chat'[c].team = None PROVE chat'[c] = Unbound
    OBVIOUS
  <2>1. c # b.chat /\ chat[c].team = None
    BY <1>1, <1>6, OrganisationConstants
  <2>2. c \notin b.active
    BY <1>1, <1>3, <2>1, OrganisationConstants
  <2> QED
    BY <1>5, <2>1, <2>2 DEF OrgInv, OrgTypeOK
<1>9. \A c \in Chats : chat[c].team \in Teams => chat'[c].team = chat[c].team
  BY <1>2, <1>6, OrganisationConstants
<1>10. ASSUME NEW s \in Teams \ {t}
       PROVE  BoundTo(s)' = BoundTo(s) /\ ActiveChats(s)' = ActiveChats(s)
  <2>1. \A c \in Chats : chat'[c].team = s <=> chat[c].team = s
    BY <1>1, <1>2, <1>6, OrganisationConstants
  <2>2. \A c \in Chats : chat[c].team = s => chat'[c].active = chat[c].active
    BY <1>2, <1>3, <1>6, OrganisationConstants
  <2> QED
    BY <2>1, <2>2 DEF BoundTo, ActiveChats
<1>11. BoundTo(t) \subseteq BoundTo(t)'
  BY <1>1, <1>9 DEF BoundTo
<1>12. ASSUME b.alone PROVE ActiveChats(t)' = {b.chat}
  <2>1. \A c \in Chats : c \in b.active <=> chat[c].team = t /\ chat[c].active
    BY <1>1, <1>12 DEF ActiveChats, BoundTo
  <2>2. \A c \in Chats : chat'[c].team = t /\ chat'[c].active <=> c = b.chat
    BY <1>1, <1>6, <2>1
  <2> QED
    BY <1>1, <2>2 DEF ActiveChats, BoundTo
<1> QED
  BY <1>1, <1>7, <1>8, <1>9, <1>10, <1>11, <1>12

LEMMA BindCommitKeeps ==
    ASSUME OrgInv, NEW p \in Processes, BindCommit(p) PROVE OrgInv'
<1>1. /\ UNCHANGED <<user, admins, setup, member, edits, loads>>
      /\ bind' = [bind EXCEPT ![p] = NoBinding] /\ bind[p].on
  BY DEF BindCommit, people, counts
<1>2. CASE ~CanCommit(bind[p])
  <2>1. UNCHANGED <<team, chat, torn>>
    BY <1>2 DEF BindCommit
  <2> QED
    BY <1>1, <2>1, Dropped DEF OrgInv, OrgTypeOK
<1>3. CASE CanCommit(bind[p])
  <2> PICK b : b = bind[p]
    OBVIOUS
  <2> PICK t : t = b.team
    OBVIOUS
  <2>1. /\ chat' = Bound(b)
        /\ \/ team' = team
           \/ \E st \in {"ACTIVE", "OFF"} : team' = [team EXCEPT ![t] = st]
        /\ torn' = IF b.alone THEN torn \ {t} ELSE torn \cup {t}
    BY <1>3 DEF BindCommit
  <2>2. /\ t \in Teams /\ b.chat \in Chats /\ team[t] # "GONE"
        /\ chat' \in [Chats -> [team : Teams \cup {None}, active : BOOLEAN]]
        /\ \A c \in Chats : chat'[c].team = None => chat'[c] = Unbound
        /\ \A s \in Teams \ {t} : /\ BoundTo(s)' = BoundTo(s)
                                  /\ ActiveChats(s)' = ActiveChats(s)
        /\ BoundTo(t) \subseteq BoundTo(t)'
        /\ b.alone => ActiveChats(t)' = {b.chat}
    BY <1>1, <1>3, <2>1, CommitEffect
  <2>3. /\ team' \in [Teams -> {"NONE", "ACTIVE", "OFF", "GONE"}]
        /\ \A s \in Teams : team'[s] # "GONE" => team[s] # "GONE"
    <3>1. CASE team' = team
      BY <3>1 DEF OrgInv, OrgTypeOK
    <3>2. ASSUME NEW st \in {"ACTIVE", "OFF"}, team' = [team EXCEPT ![t] = st]
          PROVE  /\ team' \in [Teams -> {"NONE", "ACTIVE", "OFF", "GONE"}]
                 /\ \A s \in Teams : team'[s] # "GONE" => team[s] # "GONE"
      BY <2>2, <3>2 DEF OrgInv, OrgTypeOK
    <3> QED
      BY <2>1, <3>1, <3>2
  <2>4. bind' \in [Processes -> Bindings]
    BY <1>1, NoBindingIsTyped DEF OrgInv, OrgTypeOK
  <2>5. OrgTypeOK'
    BY <1>1, <2>1, <2>2, <2>3, <2>4 DEF OrgInv, OrgTypeOK
  <2>6. \A q \in Processes : bind'[q] = IF q = p THEN NoBinding ELSE bind[q]
    BY <1>1 DEF OrgInv, OrgTypeOK
  <2>7. BindingsSound'
    <3> SUFFICES ASSUME NEW q \in Processes
                 PROVE  Reads(q)' /\ (~bind'[q].on => bind'[q].team = None)
      BY DEF BindingsSound
    <3>1. CASE q = p
      BY <2>6, <3>1 DEF Reads, NoBinding
    <3>2. CASE q # p
      <4>1. Reads(q) /\ (~bind[q].on => bind[q].team = None) /\ bind'[q] = bind[q]
        BY <2>6, <3>2 DEF OrgInv, BindingsSound
      <4>2. CASE bind[q].team # t
        BY <2>2, <2>3, <2>6, <4>1, <4>2, OrganisationConstants DEF Reads, NoBinding
      <4>3. CASE bind[q].team = t
        <5>1. bind[q].on /\ ~bind[q].alone
          BY <2>2, <3>2, <4>1, <4>3, OrganisationConstants DEF Reads
        <5>2. bind[q].active \subseteq BoundTo(t)'
          BY <2>2, <4>1, <4>3, <5>1 DEF Reads
        <5>3. BoundTo(bind[q].team)' = BoundTo(t)'
          BY <4>1, <4>3
        <5> QED
          BY <4>1, <5>1, <5>2, <5>3 DEF Reads
      <4> QED
        BY <4>2, <4>3
    <3> QED
      BY <3>1, <3>2
  <2>8. SingleUnlessTorn'
    <3> SUFFICES ASSUME NEW s \in Teams \ torn', BoundTo(s)' # {}
                 PROVE  Single(s)'
      BY DEF SingleUnlessTorn
    <3>1. CASE s = t
      BY <2>1, <2>2, <3>1 DEF Single
    <3>2. CASE s # t
      <4>1. BoundTo(s) # {} /\ s \notin torn
        BY <2>1, <2>2, <3>2
      <4> QED
        BY <2>2, <3>2, <4>1 DEF OrgInv, SingleUnlessTorn, Single
    <3> QED
      BY <3>1, <3>2
  <2> QED
    BY <1>1, <2>5, <2>7, <2>8 DEF OrgInv
<1> QED
  BY <1>2, <1>3

LEMMA OrgNextKeeps == ASSUME OrgInv, OrgNext PROVE OrgInv'
<1>1. ASSUME NEW u \in Users, UserRequest(u) PROVE OrgInv'
  BY <1>1, CreateUserKeeps, UpdateUserKeeps DEF UserRequest
<1>2. ASSUME NEW t \in Teams, TeamRequest(t) PROVE OrgInv'
  BY <1>2, CreateTeamKeeps, UpdateTeamKeeps, DeleteTeamKeeps DEF TeamRequest
<1> QED
  BY <1>1, <1>2, CheckSetupKeeps, FinishSetupKeeps, MembershipKeeps,
     LoadUserKeeps, LoadTeamKeeps, LoadMembershipKeeps, BindReadKeeps, BindCommitKeeps
  DEF OrgNext

-----------------------------------------------------------------------------
(* The initial states.                                                     *)

LEMMA InitOrganisation ==
    ASSUME OrgIdle, FreshOrganisation \/ ConfiguredOrganisation PROVE OrgInv
<1>1. BindingsSound /\ bind \in [Processes -> Bindings]
  BY NoBindingIsTyped DEF OrgIdle, BindingsSound, Reads, NoBinding
<1>2. CASE FreshOrganisation
  <2>1. OrgTypeOK
    BY <1>1, <1>2, OrganisationConstants DEF OrgIdle, FreshOrganisation, OrgTypeOK, Unbound
  <2>2. SingleUnlessTorn
    BY <1>2, OrganisationConstants DEF FreshOrganisation, SingleUnlessTorn, BoundTo, Unbound
  <2> QED
    BY <1>1, <2>1, <2>2 DEF OrgInv
<1>3. CASE ConfiguredOrganisation
  <2> DEFINE boss == CHOOSE u \in Users : TRUE
             groups == CHOOSE f \in [Teams -> Chats] :
                          \A s, t \in Teams : s # t => f[s] # f[t]
             owner(c) == CHOOSE t \in Teams : groups[t] = c
  <2>1. boss \in Users
    BY OrganisationConstants
  <2>2. groups \in [Teams -> Chats] /\ \A s, t \in Teams : s # t => groups[s] # groups[t]
    BY OrganisationConstants
  <2>3. /\ user = [u \in Users |-> "ACTIVE"] /\ admins = {boss}
        /\ team = [t \in Teams |-> "ACTIVE"]
        /\ member = [t \in Teams |-> [u \in Users |->
                        IF u # boss THEN "ADMIN" ELSE "NONE"]]
        /\ chat = [c \in Chats |->
                     IF \E t \in Teams : groups[t] = c
                     THEN [team |-> owner(c), active |-> TRUE] ELSE Unbound]
    BY <1>3 DEF ConfiguredOrganisation
  <2> HIDE DEF boss, groups
  <2>4. \A c \in Chats : (\E t \in Teams : groups[t] = c) =>
            owner(c) \in Teams /\ groups[owner(c)] = c
    OBVIOUS
  <2> HIDE DEF owner
  <2>5. /\ chat \in [Chats -> [team : Teams \cup {None}, active : BOOLEAN]]
        /\ \A c \in Chats : chat[c].team = None => chat[c] = Unbound
    BY <2>3, <2>4, OrganisationConstants DEF Unbound
  <2>6. OrgTypeOK
    <3>1. member \in [Teams -> [Users -> {"NONE", "MEMBER", "ADMIN"}]]
      BY <2>3
    <3> QED
      BY <1>1, <2>1, <2>3, <2>5, <3>1, OrganisationConstants DEF OrgIdle, OrgTypeOK
  <2>7. ASSUME NEW t \in Teams PROVE Single(t)
    <3>1. \A c \in Chats : chat[c].team = t /\ chat[c].active <=> c = groups[t]
      BY <2>2, <2>3, <2>4, OrganisationConstants DEF Unbound
    <3>2. ActiveChats(t) = {groups[t]} /\ groups[t] \in Chats
      BY <2>2, <3>1 DEF ActiveChats, BoundTo
    <3> QED
      BY <3>2 DEF Single
  <2> QED
    BY <1>1, <2>6, <2>7 DEF OrgInv, SingleUnlessTorn
<1> QED
  BY <1>2, <1>3

LEMMA NoRoundIsTyped == NoRound \in Rounds /\ NoRound.at = "idle"
BY InspectionConstants DEF NoRound, Rounds

LEMMA InitIInv == Init => IInv
<1> SUFFICES ASSUME Init PROVE IInv
  OBVIOUS
<1>1. OrgInv
  BY InitOrganisation DEF Init
<1>2. 1 \in Minutes /\ 0 \in 0..LastMinute
  BY InspectionConstants DEF Minutes
<1>3. round \in [Rounders -> Rounds] /\ \A p \in Rounders : round[p].at = "idle"
  BY NoRoundIsTyped DEF Init
<1>4. Addressed
  BY <1>3 DEF Addressed
<1> QED
  BY <1>1, <1>2, <1>3, <1>4 DEF Init, IInv, RoundInv

-----------------------------------------------------------------------------
(* The rounds.                                                             *)

\* A group that has been a team's stays with it: it can be deactivated, and
\* deleted with the team, but not be given to another.
LEMMA OwnedStays ==
    ASSUME OrgInv, OrgNext, NEW t \in Teams, NEW c \in Chats, Owned(t, c)
    PROVE  Owned(t, c)'
<1>1. CASE UNCHANGED <<team, chat>>
  BY <1>1 DEF Owned
<1>2. ASSUME NEW u \in Users, CheckSetup(u) \/ FinishSetup(u) \/ UserRequest(u)
      PROVE  UNCHANGED <<team, chat>>
  BY <1>2 DEF CheckSetup, FinishSetup, UserRequest, CreateUser, UpdateUser
<1>3. ASSUME NEW s \in Teams, NEW u \in Users, MemberRequest(s, u)
      PROVE  UNCHANGED <<team, chat>>
  BY <1>3 DEF MemberRequest, SetMembership, RemoveMembership
<1>4. ASSUME NEW s \in Teams, NEW st \in {"ACTIVE", "OFF"}, LoadTeam(s, st)
      PROVE  Owned(t, c)'
  BY <1>4 DEF LoadTeam, Owned, OrgInv, OrgTypeOK
<1>5. ASSUME NEW s \in Teams, TeamRequest(s)
      PROVE  Owned(t, c)'
  BY <1>5, OrganisationConstants
  DEF TeamRequest, CreateTeam, UpdateTeam, DeleteTeam, Owned, OrgInv, OrgTypeOK
<1>6. ASSUME NEW p \in Processes, NEW s \in Teams, NEW d \in Chats, BindRead(p, s, d)
      PROVE  UNCHANGED <<team, chat>>
  BY <1>6 DEF BindRead
<1>7. ASSUME NEW p \in Processes, BindCommit(p)
      PROVE  Owned(t, c)'
  <2>1. CASE ~CanCommit(bind[p])
    BY <1>1, <1>7, <2>1 DEF BindCommit
  <2>2. CASE CanCommit(bind[p])
    <3> PICK b : b = bind[p]
      OBVIOUS
    <3> PICK s : s = b.team
      OBVIOUS
    <3>1. /\ b.on /\ chat' = Bound(b)
          /\ \/ team' = team
             \/ \E st \in {"ACTIVE", "OFF"} : team' = [team EXCEPT ![s] = st]
      BY <1>7, <2>2 DEF BindCommit
    <3>2. /\ s \in Teams /\ team[s] # "GONE"
          /\ chat[c].team \in Teams => chat'[c].team = chat[c].team
      BY <2>2, <3>1, CommitEffect
    <3>3. team'[t] # "GONE" => team[t] # "GONE"
      BY <3>1, <3>2 DEF OrgInv, OrgTypeOK
    <3> QED
      BY <3>2, <3>3 DEF Owned
  <2> QED
    BY <2>1, <2>2
<1>8. ASSUME NEW s \in Teams, NEW u \in Users, NEW role, LoadMembership(s, u, role)
      PROVE  UNCHANGED <<team, chat>>
  BY <1>8 DEF LoadMembership
<1>9. ASSUME NEW u \in Users, NEW st, NEW i, LoadUser(u, st, i)
      PROVE  UNCHANGED <<team, chat>>
  BY <1>9 DEF LoadUser
<1> QED
  BY <1>1, <1>2, <1>3, <1>4, <1>5, <1>6, <1>7, <1>8, <1>9 DEF OrgNext

LEMMA OrganiseKeeps == ASSUME IInv, Organise PROVE IInv'
<1>1. OrgInv'
  BY OrgNextKeeps DEF IInv, Organise
<1>2. UNCHANGED <<now, schedule, up, done, round, queue>>
  BY DEF Organise, inspVars
<1>3. Addressed'
  <2> SUFFICES ASSUME NEW p \in Rounders, round[p].at = "resolved"
               PROVE  /\ round[p].team \in Teams /\ round[p].chat \in Chats
                      /\ Owned(round[p].team, round[p].chat)'
    BY <1>2 DEF Addressed
  <2> PICK r : r = round[p] /\ r = round'[p]
    BY <1>2
  <2>1. r.team \in Teams /\ r.chat \in Chats /\ Owned(r.team, r.chat)
    BY DEF IInv, RoundInv, Addressed
  <2>2. Owned(r.team, r.chat)'
    BY <2>1, OwnedStays DEF IInv, Organise
  <2> QED
    BY <1>2, <2>1, <2>2
<1>4. \A q \in queue : Owned(q.team, q.chat)'
  <2> SUFFICES ASSUME NEW q \in queue PROVE Owned(q.team, q.chat)'
    OBVIOUS
  <2>1. q.team \in Teams /\ q.chat \in Chats /\ Owned(q.team, q.chat)
    BY DEF IInv, RoundInv, Messages
  <2> QED
    BY <2>1, OwnedStays DEF IInv, Organise
<1> QED
  BY <1>1, <1>2, <1>3, <1>4 DEF IInv, RoundInv

LEMMA OrgStays == ASSUME OrgInv, UNCHANGED orgVars PROVE OrgInv'
<1>1. UNCHANGED <<user, admins, setup, team, member, chat, bind, torn, edits, loads>>
  BY DEF orgVars, people, binding, counts
<1> QED
  BY <1>1, PeopleChange DEF OrgInv, OrgTypeOK

\* A round goes on as r.
LEMMA PutKeeps ==
    ASSUME IInv, NEW p \in Rounders, NEW r \in Rounds, Put(p, r),
           UNCHANGED <<team, chat>>,
           r.at = "resolved" => /\ r.team \in Teams /\ r.chat \in Chats
                                /\ Owned(r.team, r.chat)
    PROVE  round' \in [Rounders -> Rounds] /\ Addressed'
<1>1. round \in [Rounders -> Rounds] /\ Addressed
  BY DEF IInv, RoundInv
<1>2. \A q \in Rounders : round'[q] = IF q = p THEN r ELSE round[q]
  BY <1>1 DEF Put
<1>3. round' \in [Rounders -> Rounds]
  BY <1>1 DEF Put
<1>4. Addressed'
  <2> SUFFICES ASSUME NEW q \in Rounders, round'[q].at = "resolved"
               PROVE  /\ round'[q].team \in Teams /\ round'[q].chat \in Chats
                      /\ Owned(round[q].team, round[q].chat)'
    BY DEF Addressed
  <2>1. CASE q = p
    BY <1>2, <2>1 DEF Owned
  <2>2. CASE q # p
    BY <1>1, <1>2, <2>2 DEF Addressed, Owned
  <2> QED
    BY <2>1, <2>2
<1> QED
  BY <1>3, <1>4

LEMMA ContinueKeeps ==
    ASSUME IInv, NEW p \in Rounders, NEW r \in Rounds, Continue(p, r),
           UNCHANGED <<team, chat>>, r.at = "sending"
    PROVE  round' \in [Rounders -> Rounds] /\ Addressed' /\ done' \in 0..LastMinute
<1>1. done' \in 0..LastMinute
  BY DEF Continue, IInv, RoundInv, Rounds
<1>2. CASE r.left = {}
  BY <1>1, <1>2, PutKeeps, NoRoundIsTyped DEF Continue
<1>3. CASE r.left # {}
  BY <1>1, <1>3, PutKeeps DEF Continue
<1> QED
  BY <1>2, <1>3

\* What a step of a round that changes nothing else has to show.
LEMMA RoundStep ==
    ASSUME IInv, UNCHANGED <<orgVars, schedule, up, queue>>, now' \in Minutes,
           round' \in [Rounders -> Rounds] /\ Addressed', done' \in 0..LastMinute
    PROVE  IInv'
<1>1. OrgInv'
  BY OrgStays DEF IInv
<1>2. \A q \in queue : Owned(q.team, q.chat)'
  BY DEF IInv, RoundInv, Owned, orgVars
<1> QED
  BY <1>1, <1>2 DEF IInv, RoundInv

LEMMA ResolveKeeps ==
    ASSUME IInv, NEW p \in Rounders, Resolve(p), UNCHANGED <<orgVars, schedule, up, now>>
    PROVE  IInv'
<1>1. UNCHANGED <<team, chat, queue>>
  BY DEF Resolve, orgVars
<1>2. round[p] \in Rounds /\ round[p].at = "sending"
  BY DEF IInv, RoundInv, Resolve
<1>3. PICK t \in round[p].left :
          IF Reachable(t)
          THEN /\ \E c \in ActiveChats(t) :
                     Put(p, [round[p] EXCEPT !.at = "resolved", !.team = t,
                                             !.chat = c])
               /\ UNCHANGED done
          ELSE Continue(p, [round[p] EXCEPT !.left = @ \ {t}])
  BY DEF Resolve
<1>4. t \in Teams
  BY <1>2 DEF Rounds
<1>5. CASE Reachable(t)
  <2>1. PICK c \in ActiveChats(t) :
            Put(p, [round[p] EXCEPT !.at = "resolved", !.team = t, !.chat = c])
    BY <1>3, <1>5
  <2>2. c \in Chats /\ chat[c].team = t
    BY DEF ActiveChats, BoundTo
  <2> PICK r : r = [round[p] EXCEPT !.at = "resolved", !.team = t, !.chat = c]
    OBVIOUS
  <2>3. r \in Rounds /\ r.team = t /\ r.chat = c
    BY <1>2, <1>4, <2>2 DEF Rounds
  <2>4. round' \in [Rounders -> Rounds] /\ Addressed'
    BY <1>1, <1>4, <2>1, <2>2, <2>3, PutKeeps DEF Owned
  <2>5. done' \in 0..LastMinute /\ now' \in Minutes
    BY <1>3, <1>5 DEF IInv, RoundInv
  <2> QED
    BY <1>1, <2>4, <2>5, RoundStep
<1>6. CASE ~Reachable(t)
  <2> PICK r : r = [round[p] EXCEPT !.left = @ \ {t}]
    OBVIOUS
  <2>1. r \in Rounds /\ r.at = "sending" /\ Continue(p, r)
    BY <1>2, <1>3, <1>6 DEF Rounds
  <2>2. round' \in [Rounders -> Rounds] /\ Addressed' /\ done' \in 0..LastMinute
    BY <1>1, <2>1, ContinueKeeps
  <2>3. now' \in Minutes
    BY DEF IInv, RoundInv
  <2> QED
    BY <1>1, <2>2, <2>3, RoundStep
<1> QED
  BY <1>5, <1>6

LEMMA EnqueueKeeps ==
    ASSUME IInv, NEW p \in Rounders, Enqueue(p), UNCHANGED <<orgVars, schedule, up, now>>
    PROVE  IInv'
<1> PICK r : r = round[p]
  OBVIOUS
<1> PICK s : s = [r EXCEPT !.at = "sending", !.left = @ \ {r.team},
                           !.team = None, !.chat = None]
  OBVIOUS
<1>1. /\ r \in Rounds /\ r.team \in Teams /\ r.chat \in Chats
      /\ Owned(r.team, r.chat)
  BY DEF IInv, RoundInv, Addressed, Enqueue
<1>2. /\ queue' \subseteq queue \cup {[slot |-> r.slot, team |-> r.team, chat |-> r.chat]}
      /\ Continue(p, s)
  BY DEF Enqueue
<1>3. s \in Rounds /\ s.at = "sending"
  BY <1>1 DEF Rounds
<1>4. UNCHANGED <<team, chat>>
  BY DEF orgVars
<1>5. round' \in [Rounders -> Rounds] /\ Addressed' /\ done' \in 0..LastMinute
  BY <1>2, <1>3, <1>4, ContinueKeeps
<1>6. queue' \subseteq Messages
  BY <1>1, <1>2 DEF IInv, RoundInv, Messages, Rounds
<1>7. \A q \in queue' : Owned(q.team, q.chat)'
  BY <1>1, <1>2, <1>4 DEF IInv, RoundInv, Owned
<1>8. OrgInv'
  BY OrgStays DEF IInv
<1> QED
  BY <1>5, <1>6, <1>7, <1>8 DEF IInv, RoundInv

LEMMA LookKeeps ==
    ASSUME IInv, Look, UNCHANGED <<orgVars, schedule, up, now>> PROVE IInv'
<1> PICK r : r = [NoRound EXCEPT !.at = "looked", !.slot = now]
  OBVIOUS
<1>1. now \in Minutes /\ now \in 0..LastMinute
  BY InspectionConstants DEF IInv, RoundInv, Minutes
<1>2. /\ UNCHANGED <<team, chat, done, queue>>
      /\ Put("loop", r) /\ "loop" \in Rounders
  BY DEF Look, orgVars, Rounders
<1>3. r \in Rounds /\ r.at = "looked"
  BY <1>1 DEF NoRound, Rounds
<1>4. round' \in [Rounders -> Rounds] /\ Addressed'
  BY <1>2, <1>3, PutKeeps
<1> QED
  BY <1>1, <1>2, <1>4, RoundStep DEF IInv, RoundInv

LEMMA InspectScheduledKeeps ==
    ASSUME IInv, InspectScheduled, UNCHANGED <<orgVars, schedule, up, now>> PROVE IInv'
<1> PICK left : left = IF ScheduledSlot(round["loop"].slot) # 0 THEN Effective ELSE {}
  OBVIOUS
<1> PICK r : r = [round["loop"] EXCEPT !.at = "sending", !.left = left]
  OBVIOUS
<1>1. "loop" \in Rounders /\ left \subseteq Teams
  BY DEF Rounders, Effective
<1>2. r \in Rounds /\ r.at = "sending"
  BY <1>1 DEF IInv, RoundInv, Rounds
<1>3. UNCHANGED <<team, chat, queue>> /\ Continue("loop", r)
  BY DEF InspectScheduled, orgVars
<1>4. round' \in [Rounders -> Rounds] /\ Addressed' /\ done' \in 0..LastMinute
  BY <1>1, <1>2, <1>3, ContinueKeeps
<1> QED
  BY <1>3, <1>4, RoundStep DEF IInv, RoundInv

LEMMA InspectKeeps ==
    ASSUME IInv, NEW u \in Users, Inspect(u), UNCHANGED orgVars PROVE IInv'
<1> PICK scope \in Scopes(u) :
        Continue("web", [NoRound EXCEPT !.at = "sending", !.left = scope \cap Effective])
  BY DEF Inspect
<1> PICK r : r = [NoRound EXCEPT !.at = "sending", !.left = scope \cap Effective]
  OBVIOUS
<1>1. r \in Rounds /\ r.at = "sending" /\ "web" \in Rounders
  BY NoRoundIsTyped DEF Rounds, Rounders, Effective
<1>2. UNCHANGED <<team, chat, now, schedule, up, queue>>
  BY DEF Inspect, orgVars
<1>3. round' \in [Rounders -> Rounds] /\ Addressed' /\ done' \in 0..LastMinute
  BY <1>1, <1>2, ContinueKeeps
<1> QED
  BY <1>2, <1>3, RoundStep DEF IInv, RoundInv

LEMMA RoundFailsKeeps ==
    ASSUME IInv, NEW p \in Rounders, RoundFails(p), UNCHANGED orgVars PROVE IInv'
<1>1. UNCHANGED <<team, chat, now, schedule, up, done, queue>> /\ Put(p, NoRound)
  BY DEF RoundFails, orgVars
<1>2. round' \in [Rounders -> Rounds] /\ Addressed'
  BY <1>1, NoRoundIsTyped, PutKeeps
<1> QED
  BY <1>1, <1>2, RoundStep DEF IInv, RoundInv

\* The organisation changes, but no team and no group.
LEMMA Elsewhere ==
    ASSUME IInv, OrgInv', UNCHANGED <<team, chat, queue>>,
           now' \in Minutes, schedule' \subseteq Minutes, up' \in BOOLEAN,
           done' \in 0..LastMinute, round' \in [Rounders -> Rounds] /\ Addressed'
    PROVE  IInv'
<1>1. \A q \in queue : Owned(q.team, q.chat)'
  BY DEF IInv, RoundInv, Owned
<1> QED
  BY <1>1 DEF IInv, RoundInv

LEMMA RestartKeeps == ASSUME IInv, Restart PROVE IInv'
<1>1. OrgInv'
  BY RestartWebKeeps DEF IInv, Restart
<1>2. UNCHANGED <<team, chat, now, schedule, up, done, queue>> /\ Put("web", NoRound)
  BY DEF Restart, RestartWeb
<1>3. round' \in [Rounders -> Rounds] /\ Addressed'
  BY <1>2, NoRoundIsTyped, PutKeeps DEF Rounders
<1> QED
  BY <1>1, <1>2, <1>3, Elsewhere DEF IInv, RoundInv

LEMMA CrashWorkerKeeps == ASSUME IInv, CrashWorker PROVE IInv'
<1>1. /\ UNCHANGED <<user, admins, setup, team, member, chat, torn, edits, loads>>
      /\ UNCHANGED <<now, schedule, queue>>
      /\ bind' = [bind EXCEPT !["worker"] = NoBinding]
      /\ up' = FALSE /\ done' = 0 /\ Put("loop", NoRound)
  BY DEF CrashWorker, people, counts
<1>2. BindingsSound' /\ SingleUnlessTorn' /\ bind' \in [Processes -> Bindings]
  BY <1>1, Dropped DEF Processes, IInv
<1>3. OrgInv'
  BY <1>1, <1>2 DEF IInv, OrgInv, OrgTypeOK
<1>4. round' \in [Rounders -> Rounds] /\ Addressed'
  BY <1>1, NoRoundIsTyped, PutKeeps DEF Rounders
<1>5. 0 \in 0..LastMinute
  BY InspectionConstants
<1> QED
  BY <1>1, <1>3, <1>4, <1>5, Elsewhere DEF IInv, RoundInv

LEMMA UpdateScheduleKeeps ==
    ASSUME IInv, NEW m \in Minutes, UpdateSchedule(m) PROVE IInv'
<1>1. /\ UNCHANGED <<user, admins, setup, team, member, chat, bind, torn>>
      /\ UNCHANGED <<now, up, done, round, queue>>
      /\ edits' \in 0..MaxEdits /\ loads' \in 0..edits'
      /\ schedule' \subseteq Minutes
  BY EditIsTyped DEF UpdateSchedule, people, binding, IInv, RoundInv
<1>2. OrgInv'
  BY <1>1, PeopleChange DEF IInv, OrgInv, OrgTypeOK
<1>3. Addressed'
  BY <1>1 DEF IInv, RoundInv, Addressed, Owned
<1> QED
  BY <1>1, <1>2, <1>3, Elsewhere DEF IInv, RoundInv

\* The clock and the start of the worker.
LEMMA IdleStep ==
    ASSUME IInv, UNCHANGED <<orgVars, schedule, done, round, queue>>,
           now' \in Minutes, up' \in BOOLEAN
    PROVE  IInv'
<1>1. OrgInv'
  BY OrgStays DEF IInv
<1>2. Addressed'
  BY DEF IInv, RoundInv, Addressed, Owned, orgVars
<1> QED
  BY <1>1, <1>2, Elsewhere DEF IInv, RoundInv, orgVars

-----------------------------------------------------------------------------
(* The theorems.                                                           *)

LEMMA NextKeeps == ASSUME IInv, Next PROVE IInv'
<1>1. CASE Loop
  BY <1>1, LookKeeps, InspectScheduledKeeps, ResolveKeeps, EnqueueKeeps
  DEF Loop, LoopStep, Rounders
<1>2. CASE Start
  BY <1>2, IdleStep DEF Start, StartWorker, IInv, RoundInv
<1>3. CASE WebRound /\ UNCHANGED orgVars
  BY <1>3, ResolveKeeps, EnqueueKeeps DEF WebRound, Rounders
<1>4. CASE Tick /\ UNCHANGED orgVars
  <2>1. now' \in Minutes
    BY <1>4, InspectionConstants DEF Tick, IInv, RoundInv, Minutes
  <2> QED
    BY <1>4, <2>1, IdleStep DEF Tick, IInv, RoundInv
<1> QED
  BY <1>1, <1>2, <1>3, <1>4, OrganiseKeeps, RestartKeeps, InspectKeeps,
     RoundFailsKeeps, UpdateScheduleKeeps, CrashWorkerKeeps
  DEF Next

LEMMA StutterKeeps == ASSUME IInv, UNCHANGED vars PROVE IInv'
BY IdleStep DEF vars, inspVars, IInv, RoundInv

THEOREM Inductive == Spec => []IInv
<1>1. IInv /\ [Next]_vars => IInv'
  BY NextKeeps, StutterKeeps
<1> QED
  BY InitIInv, <1>1, PTL DEF Spec

\* All the state of the organisation and of the rounds keeps its type.
THEOREM Typed == Spec => []TypeOK
<1>1. IInv => TypeOK
  BY DEF IInv, OrgInv, RoundInv, TypeOK
<1> QED
  BY <1>1, Inductive, PTL

\* A team whose last binding had it to itself has exactly one active group.
THEOREM OneGroupEach == Spec => []OneGroup
<1>1. ASSUME IInv PROVE OneGroup
  <2> SUFFICES ASSUME NEW t \in Teams \ torn, BoundTo(t) # {}
               PROVE  Cardinality(ActiveChats(t)) = 1
    BY DEF OneGroup
  <2>1. Single(t)
    BY <1>1 DEF IInv, OrgInv, SingleUnlessTorn
  <2> QED
    BY <2>1, FS_Singleton DEF Single
<1> QED
  BY <1>1, Inductive, PTL

\* A summary in the queue is addressed to a group of the team it is about, as
\* long as there is that team: however groups are rebound between the look-up,
\* the queueing and later, only its own team's deletion gives its group away.
THEOREM SummariesStayAtHome == Spec => []OwnGroup
<1>1. IInv => OwnGroup
  BY DEF IInv, RoundInv, OwnGroup, Owned
<1> QED
  BY <1>1, Inductive, PTL

-----------------------------------------------------------------------------
(* Administrators.  Each operation but the loader's needs an active one, or *)
(* leaves one behind.                                                      *)

\* What is left of more than one active administrator when one goes.
LEMMA AnotherAdmin ==
    ASSUME OrgTypeOK, NotLast, NEW u
    PROVE  \E a \in admins \ {u} : user[a] = "ACTIVE"
<1> DEFINE active == {a \in admins : user[a] = "ACTIVE"}
<1>1. IsFiniteSet(active)
  BY OrganisationConstants, FS_Subset DEF OrgTypeOK
<1>2. Cardinality(active) \in Nat
  BY <1>1, FS_CardinalityType
<1>3. Cardinality(active) > 1
  BY DEF NotLast
<1> HIDE DEF active
<1>4. /\ IsFiniteSet(active \ {u})
      /\ Cardinality(active \ {u}) = IF u \in active THEN Cardinality(active) - 1
                                    ELSE Cardinality(active)
  BY <1>1, FS_RemoveElement
<1>5. active \ {u} # {}
  BY <1>2, <1>3, <1>4, FS_EmptySet
<1> QED
  BY <1>5 DEF active

LEMMA UpdateUserLeaves ==
    ASSUME OrgTypeOK, NEW u \in Users, NEW st \in {"ACTIVE", "OFF"},
           NEW i \in BOOLEAN, UpdateUser(u, st, i)
    PROVE  AdminRemains'
<1>1. CASE u \in admins /\ (~i \/ st = "OFF")
  <2>1. PICK a \in admins \ {u} : user[a] = "ACTIVE"
    BY <1>1, AnotherAdmin DEF UpdateUser
  <2>2. a \in admins' /\ user'[a] = "ACTIVE"
    BY <2>1 DEF OrgTypeOK, UpdateUser
  <2> QED
    BY <2>2 DEF AdminRemains
<1>2. CASE u \in admins /\ i /\ st = "ACTIVE"
  BY <1>2 DEF OrgTypeOK, UpdateUser, AdminRemains
<1>3. CASE u \notin admins
  <2>1. PICK a \in admins : user[a] = "ACTIVE"
    BY DEF UpdateUser, ByAdmin
  <2>2. a \in admins' /\ user'[a] = "ACTIVE"
    BY <1>3, <2>1 DEF OrgTypeOK, UpdateUser
  <2> QED
    BY <2>2 DEF AdminRemains
<1> QED
  BY <1>1, <1>2, <1>3

LEMMA PromoteLeaves ==
    ASSUME OrgTypeOK, NEW u \in Users, Promote(u) PROVE AdminRemains'
BY DEF OrgTypeOK, Promote, AdminRemains

LEMMA CreateUserLeaves ==
    ASSUME OrgTypeOK, NEW u \in Users, NEW i \in BOOLEAN, CreateUser(u, i)
    PROVE  AdminRemains'
<1>1. PICK a \in admins : user[a] = "ACTIVE"
  BY DEF CreateUser, ByAdmin
<1>2. a \in admins' /\ user'[a] = "ACTIVE"
  BY <1>1 DEF OrgTypeOK, CreateUser
<1> QED
  BY <1>2 DEF AdminRemains

LEMMA LoadCounts ==
    ASSUME OrgTypeOK, NEW u, NEW st, NEW i, LoadUser(u, st, i) PROVE loads' # loads
<1>1. loads \in Nat /\ loads' = loads + 1
  BY DEF OrgTypeOK, LoadUser
<1> QED
  BY <1>1

LEMMA SamePeople ==
    ASSUME AdminRemains, UNCHANGED <<user, admins>> PROVE AdminRemains'
BY DEF AdminRemains

\* What the operations of the organisation leave of its administrators.
LEMMA OrgNextLeaves ==
    ASSUME OrgTypeOK, AdminRemains, OrgNext PROVE AdminRemains' \/ loads' # loads
<1>1. ASSUME NEW u \in Users, CheckSetup(u) \/ FinishSetup(u) \/ UserRequest(u)
      PROVE  AdminRemains'
  <2>1. CASE CheckSetup(u)
    BY <2>1, SamePeople DEF CheckSetup
  <2>2. CASE FinishSetup(u)
    BY <2>2, PromoteLeaves DEF FinishSetup
  <2>3. CASE UserRequest(u)
    BY <2>3, CreateUserLeaves, UpdateUserLeaves DEF UserRequest
  <2> QED
    BY <1>1, <2>1, <2>2, <2>3
<1>2. ASSUME NEW t \in Teams, TeamRequest(t) PROVE AdminRemains'
  <2>1. UNCHANGED <<user, admins>>
    BY <1>2 DEF TeamRequest, CreateTeam, UpdateTeam, DeleteTeam, people
  <2> QED
    BY <2>1, SamePeople
<1>3. ASSUME NEW t \in Teams, NEW u \in Users, MemberRequest(t, u) PROVE AdminRemains'
  <2>1. UNCHANGED <<user, admins>>
    BY <1>3 DEF MemberRequest, SetMembership, RemoveMembership, people
  <2> QED
    BY <2>1, SamePeople
<1>4. ASSUME NEW p \in Processes, NEW t \in Teams, NEW c \in Chats, BindRead(p, t, c)
      PROVE  AdminRemains'
  BY <1>4, SamePeople DEF BindRead, people
<1>5. ASSUME NEW p \in Processes, BindCommit(p) PROVE AdminRemains'
  BY <1>5, SamePeople DEF BindCommit, people
<1>6. ASSUME NEW t \in Teams, NEW st, LoadTeam(t, st) PROVE AdminRemains'
  BY <1>6, SamePeople DEF LoadTeam, people
<1>7. ASSUME NEW t \in Teams, NEW u \in Users, NEW role, LoadMembership(t, u, role)
      PROVE  AdminRemains'
  BY <1>7, SamePeople DEF LoadMembership, people
<1> QED
  BY <1>1, <1>2, <1>3, <1>4, <1>5, <1>6, <1>7, LoadCounts DEF OrgNext

\* Whatever commands, setups and restarts follow each other, an instance with
\* an active administrator, or with none at all, does not come to have
\* administrators none of whom is active, unless a run of the loader writes a
\* user in that very step.
THEOREM LastAdminIsKept == Spec => LastAdminStays
<1>1. ASSUME IInv, AdminRemains, [Next]_vars PROVE AdminRemains' \/ loads' # loads
  <2>1. OrgTypeOK
    BY <1>1 DEF IInv, OrgInv
  <2>2. CASE Organise
    BY <1>1, <2>1, <2>2, OrgNextLeaves DEF Organise
  <2>3. CASE Restart
    <3>1. CASE InitialAdmin = None
      BY <1>1, <2>3, <3>1, SamePeople DEF Restart, RestartWeb
    <3>2. CASE InitialAdmin # None
      BY <2>1, <2>3, <3>2, PromoteLeaves, OrganisationConstants DEF Restart, RestartWeb
    <3> QED
      BY <3>1, <3>2
  <2>4. CASE UNCHANGED orgVars
    BY <1>1, <2>4, SamePeople DEF orgVars, people
  <2>5. ASSUME NEW m \in Minutes, UpdateSchedule(m) PROVE AdminRemains'
    BY <1>1, <2>5, SamePeople DEF UpdateSchedule, people
  <2>6. CASE CrashWorker
    BY <1>1, <2>6, SamePeople DEF CrashWorker, people
  <2> QED
    BY <1>1, <2>2, <2>3, <2>4, <2>5, <2>6 DEF Next, Loop, Start, vars
<1>2. IInv /\ [Next]_vars => [AdminRemains => AdminRemains' \/ loads' # loads]_orgVars
  BY <1>1
<1> QED
  BY Inductive, <1>2, PTL DEF Spec, LastAdminStays

-----------------------------------------------------------------------------
(* The summaries of a minute.  While the loop is at a minute, whoever could *)
(* be reached throughout is still to come or has the summary in the queue;  *)
(* a repeated round finds its keys there.                                   *)

\* No two messages under one key.
Keyed ==
    \A q, r \in queue :
        q.slot # 0 /\ q.slot = r.slot /\ q.team = r.team => q = r

\* The minute the loop is at is one that has begun, and not the completed one.
AtMinute ==
    LET r == round["loop"]
    IN r.at # "idle" => r.slot \in Minutes /\ r.slot <= now /\ r.slot # done

Underway ==
    LET r == round["loop"]
    IN r.at \in {"sending", "resolved"} =>
           \A t \in steady[r.slot] : t \in r.left \/ Queued(r.slot, t)

Completed == \A m \in Minutes : done = m => \A t \in steady[m] : Queued(m, t)

Told == Keyed /\ AtMinute /\ Underway /\ Completed

LEMMA InitTold == Init => Told
<1> SUFFICES ASSUME Init PROVE Told
  OBVIOUS
<1>1. round["loop"].at = "idle" /\ queue = {} /\ done = 0
  BY NoRoundIsTyped DEF Init, Rounders
<1> QED
  BY <1>1, InspectionConstants DEF Told, Keyed, AtMinute, Underway, Completed, Minutes

\* What Watch takes from the history: nobody joins, and of a minute that has
\* begun and is not completed only those stay who can be reached, and nobody
\* once the schedule lacks it.
LEMMA Watched ==
    ASSUME Watch, NEW m \in Minutes
    PROVE  /\ steady'[m] \subseteq steady[m]
           /\ ~(m > now') /\ done # m =>
                 /\ steady'[m] \subseteq Effective'
                 /\ m \notin schedule' => steady'[m] = {}
BY DEF Watch

LEMMA EffectiveStays == ASSUME UNCHANGED orgVars PROVE Effective' = Effective
BY DEF orgVars, Effective, Reachable, ActiveChats, BoundTo

\* The queue grows under new keys only.
Grown == queue \subseteq queue' /\ Keyed'

LEMMA StillQueued ==
    ASSUME Grown, NEW slot, NEW t, Queued(slot, t) PROVE Queued(slot, t)'
BY DEF Grown, Queued

LEMMA EnqueueGrows ==
    ASSUME Keyed, NEW p \in Rounders, Enqueue(p), NEW o, o = round[p]
    PROVE  Grown /\ (o.slot # 0 => Queued(o.slot, o.team)')
<1> PICK q : q = [slot |-> o.slot, team |-> o.team, chat |-> o.chat]
  OBVIOUS
<1>1. queue' = IF Queued(o.slot, o.team) THEN queue ELSE queue \cup {q}
  BY DEF Enqueue
<1>2. CASE Queued(o.slot, o.team)
  BY <1>1, <1>2 DEF Grown, Keyed, Queued
<1>3. CASE ~Queued(o.slot, o.team)
  BY <1>1, <1>3 DEF Grown, Keyed, Queued
<1> QED
  BY <1>2, <1>3

\* A step in which the loop stands still.
LEMMA LoopStays ==
    ASSUME IInv, Told, Grown, now' >= now, now' \in Minutes,
           round'["loop"] = round["loop"], done' = done,
           \A m \in Minutes : steady'[m] \subseteq steady[m]
    PROVE  Told'
<1>1. AtMinute'
  <2>1. round["loop"].at # "idle" => round["loop"].slot <= now'
    BY DEF Told, AtMinute, IInv, RoundInv, Minutes
  <2> QED
    BY <2>1 DEF Told, AtMinute, Minutes
<1>2. Underway'
  BY StillQueued DEF Told, AtMinute, Underway
<1>3. Completed'
  BY StillQueued DEF Told, Completed
<1> QED
  BY <1>1, <1>2, <1>3 DEF Told, Grown

\* The loop is at rest, without having completed anything.
LEMMA LoopRests ==
    ASSUME Told, UNCHANGED queue, round'["loop"].at = "idle", done' \in {done, 0},
           \A m \in Minutes : steady'[m] \subseteq steady[m]
    PROVE  Told'
<1>1. 0 \notin Minutes
  BY DEF Minutes
<1>2. Completed'
  BY <1>1 DEF Told, Completed, Queued
<1> QED
  BY <1>2 DEF Told, Keyed, AtMinute, Underway

\* The loop goes on with the teams left, or has completed the minute.
LEMMA LoopContinues ==
    ASSUME IInv, Told, Watch, Grown, UNCHANGED now, NEW r, Continue("loop", r),
           round["loop"].at # "idle", r.slot = round["loop"].slot, r.at = "sending",
           \A t \in steady'[r.slot] : t \in r.left \/ Queued(r.slot, t)'
    PROVE  Told'
<1>1. r.slot \in Minutes /\ r.slot <= now /\ r.slot # done
  BY DEF Told, AtMinute
<1>2. round'["loop"] = IF r.left = {} THEN NoRound ELSE r
  BY DEF Continue, Put, IInv, RoundInv, Rounders
<1>3. CASE r.left = {}
  <2>1. done' = r.slot /\ round'["loop"].at = "idle"
    BY <1>2, <1>3, NoRoundIsTyped DEF Continue
  <2>2. Completed'
    <3> SUFFICES ASSUME NEW m \in Minutes, m = r.slot, NEW t \in steady'[m]
                 PROVE  Queued(m, t)'
      BY <2>1 DEF Completed
    <3> QED
      BY <1>3
  <2> QED
    BY <2>1, <2>2 DEF Told, AtMinute, Underway, Grown
<1>4. CASE r.left # {}
  <2>1. done' = done /\ round'["loop"] = r
    BY <1>2, <1>4 DEF Continue
  <2>2. AtMinute' /\ Underway'
    BY <1>1, <2>1 DEF AtMinute, Underway
  <2>3. Completed'
    BY <2>1, Watched, StillQueued DEF Told, Completed
  <2> QED
    BY <2>2, <2>3 DEF Told, Grown
<1> QED
  BY <1>3, <1>4

LEMMA LookTells == ASSUME IInv, Told, Look, Watch, UNCHANGED now PROVE Told'
<1> PICK r : r = [NoRound EXCEPT !.at = "looked", !.slot = now]
  OBVIOUS
<1>1. now \in Minutes /\ now <= now /\ now # done
  BY DEF Look, ScheduledSlot, IInv, RoundInv, Minutes
<1>2. round'["loop"] = r /\ UNCHANGED <<done, queue>>
  BY DEF Look, Put, IInv, RoundInv, Rounders
<1>3. r.at = "looked" /\ r.slot = now
  BY DEF NoRound
<1>4. AtMinute' /\ Underway'
  BY <1>1, <1>2, <1>3 DEF AtMinute, Underway
<1>5. Completed'
  BY <1>2, Watched DEF Told, Completed, Queued
<1> QED
  BY <1>2, <1>4, <1>5 DEF Told, Keyed

\* The round is for all who can be reached; the history has no others any more.
LEMMA InspectScheduledTells ==
    ASSUME IInv, Told, InspectScheduled, Watch, UNCHANGED <<orgVars, now, schedule>>
    PROVE  Told'
<1> PICK left : left = IF ScheduledSlot(round["loop"].slot) # 0 THEN Effective ELSE {}
  OBVIOUS
<1> PICK r : r = [round["loop"] EXCEPT !.at = "sending", !.left = left]
  OBVIOUS
<1>1. /\ round["loop"].at = "looked" /\ Continue("loop", r) /\ UNCHANGED queue
  BY DEF InspectScheduled
<1>2. round["loop"] \in Rounds
  BY DEF IInv, RoundInv, Rounders
<1>3. r.at = "sending" /\ r.slot = round["loop"].slot /\ r.left = left
  BY <1>2 DEF Rounds
<1>4. r.slot \in Minutes /\ r.slot <= now /\ r.slot # done
  BY <1>1, <1>3 DEF Told, AtMinute
<1>5. ~(r.slot > now')
  BY <1>4 DEF IInv, RoundInv, Minutes
<1>6. steady'[r.slot] \subseteq Effective /\ (r.slot \notin schedule => steady'[r.slot] = {})
  BY <1>4, <1>5, Watched, EffectiveStays
<1>7. r.slot \in schedule => left = Effective
  BY <1>3, <1>4 DEF ScheduledSlot, Minutes
<1>8. Grown
  BY <1>1 DEF Grown, Told, Keyed
<1> QED
  BY <1>1, <1>3, <1>6, <1>7, <1>8, LoopContinues

\* A team left out cannot be reached, and so has left the history.
LEMMA ResolveTells ==
    ASSUME IInv, Told, Resolve("loop"), Watch, UNCHANGED <<orgVars, now, schedule>>
    PROVE  Told'
<1> PICK o : o = round["loop"]
  OBVIOUS
<1>1. o \in Rounds /\ o.at = "sending" /\ UNCHANGED queue
  BY DEF IInv, RoundInv, Rounders, Resolve
<1>2. o.slot \in Minutes /\ o.slot <= now /\ o.slot # done
  BY <1>1 DEF Told, AtMinute
<1>3. ~(o.slot > now')
  BY <1>2 DEF IInv, RoundInv, Minutes
<1>4. steady'[o.slot] \subseteq Effective \cap steady[o.slot]
  BY <1>2, <1>3, Watched, EffectiveStays
<1>5. \A t \in steady'[o.slot] : t \in o.left \/ Queued(o.slot, t)'
  BY <1>1, <1>4 DEF Told, Underway, Queued
<1>6. Grown
  BY <1>1 DEF Grown, Told, Keyed
<1>7. PICK t \in o.left :
          IF Reachable(t)
          THEN /\ \E c \in ActiveChats(t) :
                     Put("loop", [o EXCEPT !.at = "resolved", !.team = t, !.chat = c])
               /\ UNCHANGED done
          ELSE Continue("loop", [o EXCEPT !.left = @ \ {t}])
  BY DEF Resolve
<1>8. CASE Reachable(t)
  <2>1. PICK c \in ActiveChats(t) :
            Put("loop", [o EXCEPT !.at = "resolved", !.team = t, !.chat = c])
    BY <1>7, <1>8
  <2> PICK r : r = [o EXCEPT !.at = "resolved", !.team = t, !.chat = c]
    OBVIOUS
  <2>2. r.at = "resolved" /\ r.slot = o.slot /\ r.left = o.left
    BY <1>1 DEF Rounds
  <2>3. round'["loop"] = r /\ UNCHANGED done
    BY <1>7, <1>8, <2>1 DEF Put, IInv, RoundInv, Rounders
  <2>4. AtMinute' /\ Underway'
    BY <1>2, <1>5, <2>2, <2>3 DEF AtMinute, Underway
  <2>5. Completed'
    BY <1>6, <2>3, Watched, StillQueued DEF Told, Completed
  <2> QED
    BY <1>6, <2>4, <2>5 DEF Told, Grown
<1>9. CASE ~Reachable(t)
  <2> PICK r : r = [o EXCEPT !.left = @ \ {t}]
    OBVIOUS
  <2>1. r.at = "sending" /\ r.slot = o.slot /\ r.left = o.left \ {t}
    BY <1>1 DEF Rounds
  <2>2. t \notin steady'[o.slot]
    BY <1>4, <1>9 DEF Effective
  <2>3. \A s \in steady'[r.slot] : s \in r.left \/ Queued(r.slot, s)'
    BY <1>5, <2>1, <2>2
  <2>4. Continue("loop", r)
    BY <1>7, <1>9
  <2> QED
    BY <1>1, <1>6, <2>1, <2>3, <2>4, LoopContinues
<1> QED
  BY <1>8, <1>9

LEMMA EnqueueTells ==
    ASSUME IInv, Told, Enqueue("loop"), Watch, UNCHANGED <<orgVars, now, schedule>>
    PROVE  Told'
<1> PICK o : o = round["loop"]
  OBVIOUS
<1> PICK r : r = [o EXCEPT !.at = "sending", !.left = @ \ {o.team},
                           !.team = None, !.chat = None]
  OBVIOUS
<1>1. o \in Rounds /\ o.at = "resolved" /\ Continue("loop", r)
  BY DEF IInv, RoundInv, Rounders, Enqueue
<1>2. r.at = "sending" /\ r.slot = o.slot /\ r.left = o.left \ {o.team}
  BY <1>1 DEF Rounds
<1>3. o.slot \in Minutes /\ o.slot # 0
  BY <1>1 DEF Told, AtMinute, Minutes
<1>4. Grown /\ Queued(o.slot, o.team)'
  BY <1>3, EnqueueGrows DEF Rounders, Told
<1>5. steady'[o.slot] \subseteq steady[o.slot]
  BY <1>3, Watched
<1>6. \A t \in steady'[r.slot] : t \in r.left \/ Queued(r.slot, t)'
  <2> SUFFICES ASSUME NEW t \in steady'[o.slot]
               PROVE  t \in o.left \ {o.team} \/ Queued(o.slot, t)'
    BY <1>2
  <2>1. t \in o.left \/ Queued(o.slot, t)
    BY <1>1, <1>5 DEF Told, Underway
  <2> QED
    BY <1>4, <2>1, StillQueued
<1> QED
  BY <1>1, <1>2, <1>4, <1>6, LoopContinues

LEMMA NextTells == ASSUME IInv, Told, [Next]_vars PROVE Told'
<1>1. round \in [Rounders -> Rounds] /\ {"loop", "web"} = Rounders
  BY DEF IInv, RoundInv, Rounders
<1>2. now \in Minutes /\ now >= now
  BY DEF IInv, RoundInv, Minutes
<1>3. ASSUME Watch PROVE \A m \in Minutes : steady'[m] \subseteq steady[m]
  BY <1>3, Watched
<1>4. ASSUME UNCHANGED queue PROVE Grown
  BY <1>4 DEF Told, Keyed, Grown
<1>5. CASE Loop
  BY <1>5, LookTells, InspectScheduledTells, ResolveTells, EnqueueTells
  DEF Loop, LoopStep
<1>6. CASE WebRound /\ Watch
  <2>1. round'["loop"] = round["loop"] /\ done' = done
    BY <1>1, <1>6 DEF WebRound, Resolve, Enqueue, Continue, Put
  <2>2. Grown
    BY <1>1, <1>4, <1>6, EnqueueGrows DEF WebRound, Resolve, Told
  <2> QED
    BY <1>2, <1>3, <1>6, <2>1, <2>2, LoopStays DEF WebRound
<1>7. ASSUME NEW u \in Users, Inspect(u), Watch PROVE Told'
  <2>1. round'["loop"] = round["loop"] /\ done' = done
    BY <1>1, <1>7 DEF Inspect, Continue, Put
  <2> QED
    BY <1>2, <1>3, <1>4, <1>7, <2>1, LoopStays DEF Inspect
<1>8. CASE RoundFails("web") /\ Watch
  <2>1. round'["loop"] = round["loop"]
    BY <1>1, <1>8 DEF RoundFails, Put
  <2> QED
    BY <1>2, <1>3, <1>4, <1>8, <2>1, LoopStays DEF RoundFails
<1>9. CASE (RoundFails("loop") \/ CrashWorker) /\ Watch
  <2>1. round'["loop"].at = "idle"
    BY <1>1, <1>9, NoRoundIsTyped DEF RoundFails, CrashWorker, Put
  <2> QED
    BY <1>3, <1>9, <2>1, LoopRests DEF RoundFails, CrashWorker
<1>10. CASE Restart
  <2>1. round'["loop"] = round["loop"]
    BY <1>1, <1>10 DEF Restart, Put
  <2> QED
    BY <1>2, <1>3, <1>4, <1>10, <2>1, LoopStays DEF Restart
<1>11. CASE Tick /\ Watch
  <2>1. now' >= now /\ now' \in Minutes
    BY <1>2, <1>11, InspectionConstants DEF Tick, Minutes
  <2> QED
    BY <1>3, <1>4, <1>11, <2>1, LoopStays DEF Tick
<1>12. ASSUME \/ Organise
              \/ Start
              \/ \E m \in Minutes : UpdateSchedule(m) /\ Watch
              \/ UNCHANGED vars
       PROVE  Told'
  <2>1. UNCHANGED <<now, done, round, queue>>
    BY <1>12 DEF Organise, Start, StartWorker, UpdateSchedule, vars, inspVars
  <2>2. \A m \in Minutes : steady'[m] \subseteq steady[m]
    BY <1>3, <1>12 DEF Organise, Start, vars
  <2> QED
    BY <1>2, <1>4, <2>1, <2>2, LoopStays
<1> QED
  BY <1>1, <1>5, <1>6, <1>7, <1>8, <1>9, <1>10, <1>11, <1>12 DEF Next

\* Whoever could be reached throughout a completed minute has its summary, and
\* nobody has two of one minute, however often failures and crashes made the
\* loop begin it again.
THEOREM EveryTeamToldOnce == Spec => []ToldOnce
<1>1. IInv /\ Told /\ [Next]_vars => (IInv /\ Told)'
  BY NextKeeps, StutterKeeps, NextTells
<1>2. ASSUME IInv, Told PROVE ToldOnce
  <2> SUFFICES ASSUME NEW m \in Minutes, NEW t \in Teams
               PROVE  LET told == Cardinality({q \in queue : q.slot = m /\ q.team = t})
                      IN told <= 1 /\ (done = m /\ t \in steady[m] => told = 1)
    BY DEF ToldOnce
  <2> DEFINE messages == {q \in queue : q.slot = m /\ q.team = t}
  <2>1. m # 0
    BY DEF Minutes
  <2>2. \A q, r \in messages : q = r
    BY <1>2, <2>1 DEF Told, Keyed
  <2>3. done = m /\ t \in steady[m] => messages # {}
    BY <1>2 DEF Told, Completed, Queued
  <2>4. CASE messages = {}
    <3>1. Cardinality(messages) = 0
      BY <2>4, FS_EmptySet
    <3> QED
      BY <2>3, <2>4, <3>1
  <2>5. CASE messages # {}
    <3>1. PICK q : messages = {q}
      BY <2>2, <2>5
    <3>2. Cardinality(messages) = 1
      BY <3>1, FS_Singleton
    <3> QED
      BY <3>2
  <2> QED
    BY <2>4, <2>5
<1> QED
  BY InitIInv, InitTold, <1>1, <1>2, PTL DEF Spec

=============================================================================
