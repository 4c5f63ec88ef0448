--------------------------- MODULE MembershipRules ---------------------------
(***************************************************************************)
(* What the workspace API promises about roles, as if every call were one  *)
(* atomic step on the membership table: the abstract specification that    *)
(* WorkspaceMembers is compared with.                                      *)
(*                                                                         *)
(* A workspace's rows are a function from users to roles, NoRow where the  *)
(* user has none: UNIQUE (workspace_id, user_id) allows one row at most.   *)
(***************************************************************************)
CONSTANTS Users, Workspaces

Owner  == "owner"
Admin  == "admin"
Member == "member"
NoRow  == "none"

Roles == {Owner, Admin, Member}

VARIABLE role           \* role[w][u]: the row of user u in workspace w

Rows == [Workspaces -> [Users -> Roles \union {NoRow}]]

Owners(w) == {u \in Users : role[w][u] = Owner}

SetRow(w, u, new) == role' = [role EXCEPT ![w][u] = new]

-----------------------------------------------------------------------------

\* A new workspace gets its creator as owner.
Found(w, u) ==
  /\ \A v \in Users : role[w][v] = NoRow
  /\ SetRow(w, u, Owner)

\* An invite admits a user who has no row, never as an owner.
Join(w, u, invited) ==
  /\ role[w][u] = NoRow
  /\ SetRow(w, u, invited)

\* Owners and admins manage members; an admin touches no owner.
MayManage(w, actor, target) ==
  /\ role[w][actor] \in {Owner, Admin}
  /\ role[w][target] # NoRow
  /\ role[w][target] = Owner => role[w][actor] = Owner

\* Taking the owner role from `target` leaves another owner.
KeepsOwner(w, target) ==
  role[w][target] = Owner => \E other \in Owners(w) : other # target

ChangeRole(w, actor, target, new) ==
  /\ MayManage(w, actor, target)
  /\ new = Owner => role[w][actor] = Owner
  /\ new # Owner => KeepsOwner(w, target)
  /\ SetRow(w, target, new)

Remove(w, actor, target) ==
  /\ MayManage(w, actor, target)
  /\ KeepsOwner(w, target)
  /\ SetRow(w, target, NoRow)

Leave(w, u) ==
  /\ role[w][u] # NoRow
  /\ KeepsOwner(w, u)
  /\ SetRow(w, u, NoRow)

Transfer(w, actor, target) ==
  /\ actor # target
  /\ role[w][actor] = Owner
  /\ role[w][target] # NoRow
  /\ role' = [role EXCEPT ![w] = [role[w] EXCEPT ![target] = Owner, ![actor] = Admin]]

-----------------------------------------------------------------------------

Init == role = [w \in Workspaces |-> [u \in Users |-> NoRow]]

Next ==
  \E w \in Workspaces, u, v \in Users :
    \/ Found(w, u)
    \/ \E r \in Roles \ {Owner} : Join(w, u, r)
    \/ \E r \in Roles : ChangeRole(w, u, v, r)
    \/ Remove(w, u, v)
    \/ Leave(w, u)
    \/ Transfer(w, u, v)

Spec == Init /\ [][Next]_role

=============================================================================
