------------------------------ MODULE FlatDisk ------------------------------
(***************************************************************************)
(* What the buffer cache promises its clients: an array of sectors, read   *)
(* and written in one step some time between the call and the return.      *)
(***************************************************************************)
CONSTANTS Client, Sector, Data, Requests, NoRequest

VARIABLES
  contents,   (* what each sector holds                                      *)
  request,    (* what each client has asked for, NoRequest between calls     *)
  buffer,     (* what the last read of a client brought it                   *)
  done        (* the clients whose request has been served                   *)

vars == <<contents, request, buffer, done>>

Init ==
  /\ contents \in [Sector -> Data]
  /\ request = [c \in Client |-> NoRequest]
  /\ buffer \in [Client -> Data]
  /\ done = {}

Call(c, r) ==
  /\ request[c] = NoRequest
  /\ request' = [request EXCEPT ![c] = r]
  /\ UNCHANGED <<contents, buffer, done>>

Serve(c) ==
  LET r == request[c]
  IN  /\ r # NoRequest /\ c \notin done
      /\ done' = done \cup {c}
      /\ \/ /\ r.kind = "read"
            /\ buffer' = [buffer EXCEPT ![c] = contents[r.sector]]
            /\ UNCHANGED contents
         \/ /\ r.kind = "write"
            /\ contents' = [contents EXCEPT ![r.sector] = r.data]
            /\ UNCHANGED buffer
      /\ UNCHANGED request

Return(c) ==
  /\ c \in done
  /\ request' = [request EXCEPT ![c] = NoRequest]
  /\ done' = done \ {c}
  /\ UNCHANGED <<contents, buffer>>

Next == \E c \in Client : (\E r \in Requests : Call(c, r)) \/ Serve(c) \/ Return(c)

Spec == Init /\ [][Next]_vars
=============================================================================
