------------------------------- MODULE Directory -------------------------------
(***************************************************************************)
(* What the registry promises its clients: a directory in which an id      *)
(* belongs to the one connection that claimed it, in one role at a time,   *)
(* until that connection leaves; an entry never changes hands and never    *)
(* outlives its connection.                                                *)
(***************************************************************************)
CONSTANTS Conns, Ids, Roles, Vacant

VARIABLES
    online,  \* the connected clients
    roster   \* who holds each id, and the roles it is listed under

dirVars == <<online, roster>>

Holder == [conn : Conns, roles : {{role} : role \in Roles}]

Listed(i) == roster[i] # Vacant

DirInit ==
    /\ online = {}
    /\ roster = [i \in Ids |-> Vacant]

Connect(c) ==
    /\ c \notin online
    /\ online' = online \cup {c}
    /\ UNCHANGED roster

(* A client holds at most one id, and takes it only when nobody holds it.  *)
Claim(c, i, role) ==
    /\ c \in online
    /\ ~Listed(i)
    /\ \A j \in Ids : Listed(j) => roster[j].conn # c
    /\ roster' = [roster EXCEPT ![i] = [conn |-> c, roles |-> {role}]]
    /\ UNCHANGED online

(* Only the holder changes the role its id is listed under.                *)
ChangeRole(c, i, role) ==
    /\ Listed(i) /\ roster[i].conn = c
    /\ roster' = [roster EXCEPT ![i].roles = {role}]
    /\ UNCHANGED online

(* Leaving frees every id of the client and nobody else's.                 *)
Leave(c) ==
    /\ c \in online
    /\ online' = online \ {c}
    /\ roster' = [i \in Ids |-> IF Listed(i) /\ roster[i].conn = c
                                THEN Vacant ELSE roster[i]]

DirNext ==
    \E c \in Conns :
        \/ Connect(c)
        \/ Leave(c)
        \/ \E i \in Ids, role \in Roles : Claim(c, i, role) \/ ChangeRole(c, i, role)

DirSpec == DirInit /\ [][DirNext]_dirVars
=============================================================================
