-------------------------- MODULE MessageArguments --------------------------
(***************************************************************************)
(* The documents and the texts the bot exchanges with the server.  A       *)
(* behaviour builds one argument: a document by changing fields of a       *)
(* correct one, a text character by character.                             *)
(***************************************************************************)
EXTENDS Commands

CONSTANTS
  Correct,       \* a correct value of each field of each entity
  OtherValues,   \* what else a field may get
  MaxChanges,    \* bound: changes to a correct document
  Characters,    \* what texts are written in: the bytes of each character
  MaxText        \* bound: bytes of a text

\* result is in no table: its kind is taken from the document.
FieldsOf(of) ==
  DOMAIN Kinds(Entity[of])
  \cup (IF of = "TelegramResponse" THEN {"result"} ELSE {})

\* A number is an integer, an array is a sequence and nothing more.
IsValue(v) ==
  /\ v.kind \in Integral => v.num \in Int
  /\ v.kind = "array" => v.items \in Seq(Range(v.items)) /\ v = Array(v.items)

\* So is what an object holds.
IsDocument(v) ==
  IsValue(v) /\ (v.kind = "object" => \A n \in DOMAIN v.at : IsValue(v.at[n]))

ASSUME DocumentAssumption ==
  /\ \A of \in DOMAIN Entity :
       \A n \in DOMAIN Kinds(Entity[of]) : IsDocument(Correct[of][n])
  /\ \A of \in DOMAIN Entity : \A n \in FieldsOf(of) :
       \A v \in OtherValues[n] : IsDocument(v)

ASSUME CharacterAssumption == \A c \in Characters : c \in Seq(Range(c))

VARIABLES
  document,      \* of: whose document; fields: what is in it; changes
  text           \* what a user writes

message == <<document, text>>

NoDocument == [of |-> "nobody", fields |-> Nothing, changes |-> 0]

\* The document itself.
Given ==
  LET under == Entity[document.of].under
  IN  IF under = <<>> THEN Object(document.fields)
      ELSE Object([key \in {under[1]} |-> Object(document.fields)])

-----------------------------------------------------------------------------
MessageInit ==
  /\ document = NoDocument
  /\ text = <<>>

\* All the fields an entity has, or only those that are requested.
BeginDocument ==
  /\ document = NoDocument
  /\ text = <<>>
  /\ \E of \in DOMAIN Entity :
     \E fields \in {DOMAIN Kinds(Entity[of]), DOMAIN Entity[of].requested} :
       document' = [of      |-> of,
                    fields  |-> [n \in fields |-> Correct[of][n]],
                    changes |-> 0]
  /\ UNCHANGED text

\* A field gets another value, or goes.
ChangeDocument ==
  /\ document # NoDocument
  /\ document.changes < MaxChanges
  /\ \E n \in FieldsOf(document.of) :
     \E fields \in {Restrict(document.fields, DOMAIN document.fields \ {n})}
                   \cup {[k \in {n} |-> v] ++ document.fields : v \in OtherValues[n]} :
       document' = [of      |-> document.of,
                    fields  |-> fields,
                    changes |-> document.changes + 1]
  /\ UNCHANGED text

NextCharacter ==
  /\ document = NoDocument
  /\ \E c \in Characters : text' = text \o c
  /\ Len(text') <= MaxText
  /\ UNCHANGED document

MessageNext == BeginDocument \/ ChangeDocument \/ NextCharacter

MessageSpec == MessageInit /\ [][MessageNext]_message

-----------------------------------------------------------------------------
(***************************************************************************)
(* Documents                                                               *)
(***************************************************************************)
\* Fields that a message is asked for and that nothing reads.
NeverRead(of) ==
  IF of = "message" THEN {"has_protected_content", "forward_origin"} ELSE {}

\* verify_fields and fields_from_map are lists kept by hand: whatever the one
\* accepts the other must look for, under the same name and with the same idea
\* of its kind.  Left aside is an integer in the place of something else, which
\* only the first accepts, and an empty array, which is no photo.  No origin of
\* a forwarded message could be read: no heir accepts any.
AcceptedIsRead ==
  document # NoDocument =>
    LET kinds == Kinds(Entity[document.of])
    IN  \A map \in VerifyFields(Entity[document.of], Given) :
        \A members \in Read(document.of, Given) :
          /\ \A n \in DOMAIN map \ NeverRead(document.of) :
               /\ kinds[n] \in Integral \/ map[n].kind = kinds[n]
               /\ map[n] # Array(<<>>)
               => n \in DOMAIN members
          /\ "forward_origin" \in DOMAIN map =>
               \A heir \in Heirs : VerifyHeir(heir, map.forward_origin) = {}

\* As many requested members are set as are asked for, here and, if
\* WholeWithin, in the entities within: the code writes the others with
\* whatever they hold.  It always does with the sides of the photos of a
\* message, which are lost in writing anyway.
Whole(of, members, WholeWithin(_, _)) ==
  LET nested == Entity[of].nested
      set    == DOMAIN members
  IN  /\ Cardinality(DOMAIN Entity[of].requested \cap set) = Entity[of].req_fields
      /\ \A n \in DOMAIN nested \cap set : WholeWithin(nested[n], members[n].at)

\* Down to the level that is read.
LowestWhole(of, members) == Whole(of, members, LAMBDA inner, within : TRUE)
LowerWhole(of, members)  == Whole(of, members, LowestWhole)
NestedWhole(of, members) == Whole(of, members, LowerWhole)
Complete(of, members)    == Whole(of, members, NestedWhole)

\* Members that do not come back.  Entities within a message are written under
\* the name of their type, where they are not looked for and hide each other.
LostInWriting(of) ==
  CASE of = "message" -> {"from", "sender_chat", "sender_business_bot",
                          "reply_to_message", "via_bot", "photo"}
    [] of = "PhotoSize"        -> {"file_path"}
    [] of = "Document"         -> {"thumbnail"}
    [] of = "TelegramResponse" -> {"description", "update_id"}
    [] of = "getUpdates"       -> {"allowed_updates"}
    [] OTHER                   -> {}

\* What comes back: the same, or an entity of which, in its turn, all that is
\* not lost comes back.  What is within such an entity is lost.
SameMembers(of, members, again) ==
  \A n \in DOMAIN members \ LostInWriting(of) :
    /\ n \in DOMAIN again
    /\ IF n \in DOMAIN Entity[of].nested
       THEN LET lost == LostInWriting(Entity[of].nested[n])
            IN  \A k \in DOMAIN members[n].at \ lost :
                  /\ k \in DOMAIN again[n].at
                  /\ again[n].at[k] = members[n].at[k]
       ELSE again[n] = members[n]

\* What is written without the key around it.
Unwrapped(of, fields) ==
  IF Entity[of].wrap = Entity[of].under THEN Object(fields)
  ELSE fields[Entity[of].wrap[1]]

\* An entity that is written and read again is the same, but for the members
\* that are known to be lost: fields_to_value, verify_fields and
\* fields_from_map agree, and the chat of a message is the message's own.
RoundTrip ==
  document # NoDocument =>
    LET of == document.of
    IN  \A members \in Read(of, Given) :
          Complete(of, members) =>
            \E again \in Read(of, Unwrapped(of, FieldsToValue(of, members))) :
              SameMembers(of, members, again)

\* The server gives the id of a file as a string.  An integer is accepted in
\* its place, and not read.
NumberForId(v) == Field(v, "file_id").kind \in Integral

\* send_search takes the last of the photos without looking: there must be one,
\* whatever became of the elements of the array and of the document.  Its
\* file_id is one that the server gave, unless it is a thumbnail that was
\* refused when the document was read.
PhotoToLookUp ==
  document.of = "message" =>
    LET thumbnail == Find(Given, <<"document", "thumbnail">>)
        photos    == Find(Given, <<"photo">>)
        numbered  ==
          \/ NumberForId(thumbnail)
          \/ /\ photos.kind = "array"
             /\ \E i \in DOMAIN photos.items : NumberForId(photos.items[i])
    IN  \A members \in Read("message", Given) :
        \A found \in FindPhoto(members) :
          /\ found # <<>>
          /\ ~ numbered =>
               \/ "file_id" \in DOMAIN Last(found).at
               \/ VerifyFields(PhotoSize, thumbnail) = {}

-----------------------------------------------------------------------------
(***************************************************************************)
(* Texts                                                                   *)
(***************************************************************************)
\* What an echo repeats.  get_command skips spaces before the command and
\* get_offset does not: then the command is echoed as well.
Echoed ==
  IF text # <<>> /\ Head(text) = "/echo" THEN Tail(text) ELSE text

\* A text with the command is echoed in parts, none empty and none too long, and
\* together they are all of it.  The server hears of each what it holds, but for
\* a part that begins or ends inside a character, which it refuses, and one with
\* a sign that separates fields, begins a fragment or stands for a space, which
\* nothing escapes.
EchoArrives ==
  GetCommand(text) = "Echo" =>
    LET parts == Parts(text)
    IN  /\ FlattenSeq(parts) = Echoed
        /\ \A i \in DOMAIN parts :
             /\ Len(parts[i]) \in 1 .. Limit
             /\ WellFormed(parts[i])
                /\ {"and", "hash", "plus"} \cap Range(parts[i]) = {}
                => Heard(parts[i]) = parts[i]
=============================================================================
