------------------------------- MODULE MCWire -------------------------------
(***************************************************************************)
(* Enumerates pairs of names, byte by byte, and compares what the server   *)
(* reads with what the client wrote.                                       *)
(***************************************************************************)
EXTENDS Wire

CONSTANT MaxLen  \* bound on the length of each enumerated name

(* The length of a name fits in its two bytes. *)
ASSUME NamesFit == MaxLen \in Nat /\ MaxLen < Base * Base

VARIABLES hostname, username

vars == <<hostname, username>>

Init == hostname = <<>> /\ username = <<>>

Next ==
  \E c \in Byte :
    \/ /\ Len(hostname) < MaxLen
       /\ hostname' = Append(hostname, c)
       /\ UNCHANGED username
    \/ /\ Len(username) < MaxLen
       /\ username' = Append(username, c)
       /\ UNCHANGED hostname

Spec == Init /\ [][Next]_vars

Request == CreateAuthenticationRequest(hostname, username)

Body == SubSeq(Request, 6, Len(Request))

(* The size the client writes frames exactly the bytes it sends: a server  *)
(* that reads a 5-byte header and then that many bytes consumes one whole  *)
(* message (client.cc:95-131 against session.cc:121-160).                  *)
HeaderFramesMessage ==
  /\ PeekUint32(SubSeq(Request, 2, 5)) = Len(Request) - 5
  /\ LET msg == CreateImgMessage(hostname)
     IN  PeekUint32(SubSeq(msg, 2, 5)) = Len(msg) - 5

(* What ParseAuthMessage reads from a request is what the client wrote,    *)
(* and it accepts exactly the requests whose two names are valid; an       *)
(* invalid host name keeps it from reaching the user name.                 *)
AuthRoundTrip ==
  /\ HostnameStored(Body) /\ Name(Body) = hostname
  /\ UsernameStored(Body) <=> IsValidName(hostname)
  /\ UsernameStored(Body) => Name(AfterName(Body)) = username
  /\ AuthAccepted(Body) <=> IsValidName(hostname) /\ IsValidName(username)

(* A body cut anywhere is refused: no strict prefix of a request parses as *)
(* an accepted one (PopUint16 and PopString throw on a short buffer).      *)
TruncatedRefused ==
  \A n \in 0 .. Len(Body) - 1 : ~AuthAccepted(SubSeq(Body, 1, n))
=============================================================================
