-------------------------------- MODULE Wire --------------------------------
(***************************************************************************)
(* The byte format both programs speak: what Client::Create* puts on the   *)
(* wire and what Session::Peek*, Pop* and ParseAuthMessage read from it.   *)
(* Field widths are the code's (1-byte type, 4-byte size, 2-byte name      *)
(* lengths, most significant byte first); only the range of a byte is a    *)
(* parameter, so that small ranges can be enumerated.                      *)
(***************************************************************************)
EXTENDS Integers, Sequences

CONSTANTS
  Base,        \* values of a byte (256)
  MsgAuth,     \* the byte 'A'
  MsgImg,      \* the byte 'I'
  NameChars,   \* bytes that are alphanumeric, '-' or '_'
  MaxName      \* longest valid name (255)

Byte == 0 .. Base - 1

ASSUME WireAssumption ==
  /\ Base \in Nat \ {0, 1}
  /\ {MsgAuth, MsgImg} \cup NameChars \subseteq Byte
  /\ MsgAuth # MsgImg
  /\ MaxName \in Nat

-----------------------------------------------------------------------------
(* Client: InsertToVector<uint16_t> and <uint32_t>.  The conversion to the *)
(* field's width keeps the low-order bytes.                                *)

Insert16(n) == <<(n \div Base) % Base, n % Base>>

Insert32(n) == Insert16(n \div (Base * Base)) \o Insert16(n)

(* The request is built with a zero size that is overwritten at the end by *)
(* the length of all that follows it.                                      *)
CreateAuthenticationRequest(hostname, username) ==
  LET body == Insert16(Len(hostname)) \o hostname
                 \o Insert16(Len(username)) \o username
  IN  <<MsgAuth>> \o Insert32(Len(body)) \o body

(* Slip: the size also counts the type byte. *)
CreateImgMessageCountsType(img) == <<MsgImg>> \o Insert32(Len(img) + 1) \o img

CreateImgMessage(img) == <<MsgImg>> \o Insert32(Len(img)) \o img

-----------------------------------------------------------------------------
(* Server: reading fields and names.                                       *)

(* Slip: no ntohs. *)
PeekUint16HostOrder(b) == b[2] * Base + b[1]

PeekUint16(b) == b[1] * Base + b[2]

PeekUint32(b) == ((b[1] * Base + b[2]) * Base + b[3]) * Base + b[4]

(* A name is a 2-byte length and that many bytes: PopUint16 then PopString. *)
(* Either throws when the buffer is too short.                              *)
NamePresent(b) == Len(b) >= 2 /\ Len(b) - 2 >= PeekUint16(b)

Name(b) == SubSeq(b, 3, 2 + PeekUint16(b))

AfterName(b) == SubSeq(b, 3 + PeekUint16(b), Len(b))

IsValidName(name) ==
  /\ Len(name) \in 1 .. MaxName
  /\ \A i \in DOMAIN name : name[i] \in NameChars

(* ParseAuthMessage stores each name as soon as it is read and throws after *)
(* it when the name is invalid: a failed request may still have replaced    *)
(* one or both names.  Bytes after the second name are ignored.             *)
HostnameStored(b) == NamePresent(b)

UsernameStored(b) ==
  NamePresent(b) /\ IsValidName(Name(b)) /\ NamePresent(AfterName(b))

(* Slip: the user name is not looked at. *)
AuthAcceptedByHostname(b) == HostnameStored(b) /\ IsValidName(Name(b))

AuthAccepted(b) == UsernameStored(b) /\ IsValidName(Name(AfterName(b)))
=============================================================================
