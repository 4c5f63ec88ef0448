------------------------------- MODULE ApiKeys -------------------------------
(***************************************************************************)
(* API keys: their creation and revocation by a workspace's admins, and    *)
(* ApiKeyGuard, which resolves the key of a request before the handler of  *)
(* POST /v1/events runs.  The guard and the revocation are each a query    *)
(* for an active key followed by an UPDATE by id: nothing is locked.       *)
(*                                                                         *)
(* What the handler does with the events is up to the module that composes *)
(* this one: Handle only ends the request.                                 *)
(***************************************************************************)
CONSTANTS
  Workspaces,
  Keys,         \* ids of keys
  Permissions,  \* what a key can be allowed to do
  Requests,     \* slots for HTTP requests in flight at the same time
  Bodies        \* what a request to /v1/events may carry

VARIABLES
  keys,      \* table api_keys
  keyPc,     \* the next step of each request
  keyCall,   \* what each request asked for, and the context the guard gave it
  outrun     \* ghost: resolved requests whose key has been revoked since

keyVars == <<keys, keyPc, keyCall, outrun>>

NoWorkspace == "none"

Rows == [workspace : Workspaces \union {NoWorkspace},
         permissions : SUBSET Permissions,
         state : {"unused", "active", "revoked"}, everUsed : BOOLEAN]

\* `workspace` is the admin's who revokes, or the one of the key once resolved.
Revocation == [key : Keys, workspace : Workspaces]

Ingestion == [key : Keys, workspace : Workspaces \union {NoWorkspace},
              permissions : SUBSET Permissions, body : Bodies]

NoCall == [key |-> "none"]

Labels == {"idle", "findByHash", "markUsed", "handle", "findById", "revoke"}

\* The guard has let the request pass.
Resolved(r) == keyPc[r] \in {"markUsed", "handle"}

TypeOK ==
  /\ keys \in [Keys -> Rows]
  /\ keyPc \in [Requests -> Labels]
  /\ keyCall \in [Requests -> Revocation \union Ingestion \union {NoCall}]
  /\ \A r \in Requests : keyPc[r] = "idle" <=> keyCall[r] = NoCall
  /\ outrun \subseteq {r \in Requests : Resolved(r)}

Init ==
  /\ keys = [k \in Keys |-> [workspace |-> NoWorkspace, permissions |-> {},
                             state |-> "unused", everUsed |-> FALSE]]
  /\ keyPc = [r \in Requests |-> "idle"]
  /\ keyCall = [r \in Requests |-> NoCall]
  /\ outrun = {}

Goto(r, label) == keyPc' = [keyPc EXCEPT ![r] = label]

Finish(r) ==
  /\ Goto(r, "idle")
  /\ keyCall' = [keyCall EXCEPT ![r] = NoCall]
  /\ outrun' = outrun \ {r}

Issued == {k \in Keys : keys[k].state # "unused"}

-----------------------------------------------------------------------------
(* Administration                                                          *)

CreateForWorkspace(k) ==
  /\ keys[k].state = "unused"
  /\ \E w \in Workspaces, p \in SUBSET Permissions :
       keys' = [keys EXCEPT ![k] = [workspace |-> w, permissions |-> p,
                                    state |-> "active", everUsed |-> FALSE]]
  /\ UNCHANGED <<keyPc, keyCall, outrun>>

\* WorkspaceRolesGuard: an owner or admin of w; the id may be of any key.
BeginRevoke(r) ==
  \E w \in Workspaces, k \in Issued :
    /\ keyPc[r] = "idle"
    /\ Goto(r, "findById")
    /\ keyCall' = [keyCall EXCEPT ![r] = [key |-> k, workspace |-> w]]
    /\ UNCHANGED <<keys, outrun>>

\* API_KEY_NOT_FOUND, for a key of another workspace as well.
FindActiveByIdAndWorkspace(r) ==
  LET row == keys[keyCall[r].key]
  IN  /\ keyPc[r] = "findById"
      /\ IF row.state = "active" /\ row.workspace = keyCall[r].workspace
           THEN Goto(r, "revoke") /\ UNCHANGED <<keyCall, outrun>>
           ELSE Finish(r)
      /\ UNCHANGED keys

\* UPDATE api_keys SET revoked_at WHERE id, a second time if need be.
Revoke(r) ==
  LET k == keyCall[r].key
  IN  /\ keyPc[r] = "revoke"
      /\ keys' = [keys EXCEPT ![k].state = "revoked"]
      /\ Goto(r, "idle")
      /\ keyCall' = [keyCall EXCEPT ![r] = NoCall]
      /\ outrun' = outrun \union {s \in Requests : Resolved(s) /\ keyCall[s].key = k}

-----------------------------------------------------------------------------
(* ApiKeyGuard                                                             *)

\* A key that was issued; the guard refuses the others before any query or
\* after the first.
BeginIngest(r) ==
  \E k \in Issued, b \in Bodies :
    /\ keyPc[r] = "idle"
    /\ Goto(r, "findByHash")
    /\ keyCall' = [keyCall EXCEPT ![r] = [key |-> k, workspace |-> NoWorkspace,
                                          permissions |-> {}, body |-> b]]
    /\ UNCHANGED <<keys, outrun>>

\* A slip: the query forgets revoked_at IS NULL.
FindByHash(r) ==
  LET row == keys[keyCall[r].key]
  IN  /\ keyPc[r] = "findByHash"
      /\ Goto(r, "markUsed")
      /\ keyCall' = [keyCall EXCEPT ![r].workspace = row.workspace,
                                    ![r].permissions = row.permissions]
      /\ UNCHANGED <<keys, outrun>>

\* INVALID_API_KEY, or the row the request will act for.
FindActiveByHash(r) ==
  LET row == keys[keyCall[r].key]
  IN  /\ keyPc[r] = "findByHash"
      /\ IF row.state = "active"
           THEN /\ Goto(r, "markUsed")
                /\ keyCall' = [keyCall EXCEPT ![r].workspace = row.workspace,
                                              ![r].permissions = row.permissions]
                /\ UNCHANGED outrun
           ELSE Finish(r)
      /\ UNCHANGED keys

\* UPDATE api_keys SET last_used_at WHERE id.
MarkUsed(r) ==
  /\ keyPc[r] = "markUsed"
  /\ keys' = [keys EXCEPT ![keyCall[r].key].everUsed = TRUE]
  /\ Goto(r, "handle")
  /\ UNCHANGED <<keyCall, outrun>>

\* The handler runs with the context of the guard, and replies.
Handle(r) ==
  /\ keyPc[r] = "handle"
  /\ Finish(r)
  /\ UNCHANGED keys

-----------------------------------------------------------------------------

\* A query fails, or the process dies.
Crash(r) ==
  /\ keyPc[r] \notin {"idle", "handle"}
  /\ Finish(r)
  /\ UNCHANGED keys

Admin(r) == BeginRevoke(r) \/ FindActiveByIdAndWorkspace(r) \/ Revoke(r)

Guard(r) == BeginIngest(r) \/ FindActiveByHash(r) \/ MarkUsed(r)

Next ==
  \/ \E k \in Keys : CreateForWorkspace(k)
  \/ \E r \in Requests : Admin(r) \/ Guard(r) \/ Handle(r) \/ Crash(r)

Spec == Init /\ [][Next]_keyVars

=============================================================================
