------------------------------ MODULE Commands ------------------------------
(***************************************************************************)
(* responses/interface.hpp, and the texts and photos that client.cpp hands *)
(* to it and sends on: which command a message is, which photo is looked   *)
(* up, into what an echo is cut and what the server hears of it.           *)
(*                                                                         *)
(* A text is the sequence of its bytes in UTF-8.  The model has one        *)
(* character of two bytes, "lead" and "more".  The bytes of a command with *)
(* its prefix count as one, and so do a percent sign's two digits: what it *)
(* escapes is written as the sign and the byte.                            *)
(***************************************************************************)
EXTENDS Entities

CONSTANTS
  Limit       \* bytes of a part, 2056 in the code

ASSUME LimitAssumption == Limit \in Nat \ {0}

-----------------------------------------------------------------------------
(***************************************************************************)
(* Which command                                                           *)
(***************************************************************************)
\* CommandInterface::get_offset
GetOffset(command, text) == IF IsPrefix(<<command>>, text) THEN 1 ELSE 0

IsCommand(command, text) == GetOffset(command, text) # 0

\* get_command: the first that is not a space decides.
GetCommand(text) ==
  LET blank == {n \in 0 .. Len(text) : \A i \in 1 .. n : text[i] = "space"}
      rest  == SubSeq(text, Max(blank) + 1, Len(text))
  IN  CASE IsCommand("/echo", rest)   -> "Echo"
        [] IsCommand("/search", rest) -> "Search"
        [] OTHER                      -> "None"

-----------------------------------------------------------------------------
(***************************************************************************)
(* Which photo                                                             *)
(***************************************************************************)
\* What is done without photos.  An exception, of value() or of its own, is no
\* photo at all.
Thumbnail(members) ==
  LET given == IF "document" \in DOMAIN members
               THEN members.document.at ELSE Nothing
  IN  IF "mime_type" \in DOMAIN given /\ given.mime_type = Text(<<"image/jpeg">>)
         /\ "thumbnail" \in DOMAIN given
      THEN {<<given.thumbnail>>} ELSE {}

\* Mutant: that there is an array of photos is enough.
AnyPhotos(members) ==
  IF "photo" \in DOMAIN members THEN {members.photo.items} ELSE Thumbnail(members)

\* find_photo
FindPhoto(members) ==
  IF "photo" \in DOMAIN members /\ members.photo.items # <<>>
  THEN {members.photo.items} ELSE Thumbnail(members)

-----------------------------------------------------------------------------
(***************************************************************************)
(* The echo                                                                *)
(***************************************************************************)
\* Echo::operator(): full parts as long as more than one is left, then the
\* rest unless it is empty.  They are cut at bytes, wherever a character ends.
Parts(data) ==
  LET offset == GetOffset("/echo", data)
      size   == Len(data) - offset
      count  == (size + Limit - 1) \div Limit
  IN  [i \in 1 .. count |->
        SubSeq(data, offset + (i - 1) * Limit + 1, Min({Len(data), offset + i * Limit}))]

-----------------------------------------------------------------------------
(***************************************************************************)
(* What the server hears                                                   *)
(***************************************************************************)
\* Of the bytes that prepare_url_text escapes the model has two; it escapes none
\* of a longer character's.
Escaped == {"space", "percent"}

\* Mutant: the sign that begins an escape is not escaped itself.
SpacesOnly(text) ==
  FlattenSeq([i \in DOMAIN text |->
    IF text[i] = "space" THEN <<"percent", text[i]>> ELSE <<text[i]>>])

\* prepare_url_text, as make_header calls it.
PrepareUrlText(text) ==
  FlattenSeq([i \in DOMAIN text |->
    IF text[i] \in Escaped THEN <<"percent", text[i]>> ELSE <<text[i]>>])

\* What the server takes for one byte of a URL more; a plus is a space.
ReadOne(read, c) ==
  CASE read.escape   -> [text |-> Append(read.text, c), escape |-> FALSE]
    [] ~ read.escape /\ c = "percent" -> [text |-> read.text, escape |-> TRUE]
    [] ~ read.escape /\ c = "plus" ->
         [text |-> Append(read.text, "space"), escape |-> FALSE]
    [] OTHER -> [text |-> Append(read.text, c), escape |-> FALSE]

\* The server takes what comes before the next field or the fragment, and
\* undoes the escapes.
UrlDecode(url) ==
  LET ends  == {i \in DOMAIN url : url[i] \in {"and", "hash"}}
      value == IF ends = {} THEN url ELSE SubSeq(url, 1, Min(ends) - 1)
      read[i \in 0 .. Len(value)] ==
        IF i = 0 THEN [text |-> <<>>, escape |-> FALSE]
        ELSE ReadOne(read[i - 1], value[i])
  IN  read[Len(value)].text

\* Every character is there with both of its bytes.
WellFormed(text) ==
  \A i \in DOMAIN text :
    /\ text[i] = "lead" => i < Len(text) /\ text[i + 1] = "more"
    /\ text[i] = "more" => i > 1 /\ text[i - 1] = "lead"

\* A text that is not UTF-8 is refused, and send_message looks at no answer.
Heard(text) ==
  LET read == UrlDecode(PrepareUrlText(text))
  IN  IF WellFormed(read) THEN read ELSE <<>>
=============================================================================
