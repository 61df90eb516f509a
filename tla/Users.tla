-------------------------------- MODULE Users --------------------------------
(***************************************************************************)
(* schema/user.go: the roles of a user.  Roles are names, in the order of  *)
(* what they may do; a list of roles is a sequence.                        *)
(***************************************************************************)
EXTENDS Component, Integers, SequencesExt

RoleNames == <<"anonymous", "api", "user", "manager", "support", "admin">>
RoleError == 7
Role == 1..6

IsValidRole(name) == name \in ToSet(RoleNames)
HasValidRole(u, name) == [hasRole |-> IsValidRole(name) /\ name \in ToSet(u.roles),
                          isValid |-> IsValidRole(name)]
HasRole(u, role) == RoleNames[role] \in ToSet(u.roles)
HasAnyRole(u, query) == \E i \in DOMAIN query : HasRole(u, query[i])

(* The roles of the user that are asked for are counted. *)
Matches(u, query) ==
  Cardinality({i \in DOMAIN u.roles : \E k \in DOMAIN query : u.roles[i] = RoleNames[query[k]]})
HasAllRoles(u, query) == Matches(u, query) = Len(query)
HasNotRoles(u, query) == Matches(u, query) = 0

GetValidRoles(u) == IF HasRole(u, 6) THEN {RoleNames[r] : r \in 2..6} ELSE {}
GetValidRolesMap(u) ==
  IF HasNotRoles(u, <<1>>) THEN {RoleNames[r] : r \in 2..6} ELSE {}

GetAuthLevel(u) ==
  IF \E r \in Role : HasRole(u, r) THEN Max({r \in Role : HasRole(u, r)}) ELSE RoleError

Distinct(S, n) ==
  UNION {{q \in [1..k -> S] : \A i, j \in 1..k : q[i] = q[j] => i = j} : k \in 0..n}

UserInit ==
  \E roles \in Distinct(ToSet(RoleNames) \cup {"other"}, 3), query \in Distinct(Role, 2) :
    st = [kind |-> "user", user |-> [roles |-> roles], query |-> query]
-----------------------------------------------------------------------------
(* The questions about roles agree: all of them means each of them, none   *)
(* is the opposite of any, and what the highest role is asked for is held  *)
(* (a list names no role twice: HasAllRoles counts).                       *)
RolesAgree ==
  Is("user") =>
    LET u == st.user
        q == st.query
        level == GetAuthLevel(u)
    IN /\ HasAllRoles(u, q) <=> \A i \in DOMAIN q : HasRole(u, q[i])
       /\ HasNotRoles(u, q) <=> ~HasAnyRole(u, q)
       /\ \A r \in Role : HasRole(u, r) => level \in Role /\ level >= r
       /\ level # RoleError => HasValidRole(u, RoleNames[level]).hasRole
       /\ GetValidRoles(u) # {} => level = 6
       /\ GetValidRolesMap(u) = {} => HasRole(u, 1)
=============================================================================
