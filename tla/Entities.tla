------------------------------ MODULE Entities ------------------------------
(***************************************************************************)
(* include/entities/*.hpp: the entities of the Bot API as the tables that  *)
(* their member functions are: what is asked of a document, which fields   *)
(* become members, and under which names members become fields again.      *)
(* sendMessage.hpp and sendPhoto.hpp are not among them: the bot only      *)
(* writes them, as the fields of a request, and never reads one.           *)
(*                                                                         *)
(* An entity is a record:                                                  *)
(*   under       the names its pointers begin with                         *)
(*   requested, optional, req_fields     what verify_fields asks for       *)
(*   reads       the fields fields_from_map looks for, of the same kinds   *)
(*               as in the tables (int64 and uint64 are one kind to it)    *)
(*   nested      members that are entities themselves, and of which type   *)
(*   objects     members written by parse_tg_entenies_to_obj, in its order *)
(*   pairs       the other members written, by their keys                  *)
(*   wrap        the key around what is written, if any                    *)
(***************************************************************************)
EXTENDS JsonFields

Nothing == [n \in {} |-> None]

\* Where an entity says nothing else.
Plain ==
  [under |-> <<>>, nested |-> Nothing, objects |-> <<>>, optional |-> Nothing]

Kinds(entity) == entity.requested ++ entity.optional

-----------------------------------------------------------------------------
Chat ==
  LET titles == {"title", "username", "first_name", "last_name"}
  IN  [requested  |-> [id |-> "int64", type |-> "string"],
       optional   |-> Fields("string", titles) ++ [is_forum |-> "bool"],
       req_fields |-> 2,
       reads      |-> {"id", "type", "is_forum"} \cup titles,
       pairs      |-> Same({"id", "type", "is_forum"} \cup titles),
       wrap       |-> <<"chat">>] ++ Plain

User ==
  LET names  == {"last_name", "username", "language_code"}
      rights == {"is_premium", "added_to_attachment_menu", "can_join_groups",
                 "can_read_all_group_messages", "supports_inline_queries",
                 "can_connect_to_business"}
      all    == {"id", "is_bot", "first_name"} \cup names \cup rights
  IN  [requested  |-> [id |-> "uint64", is_bot |-> "bool",
                       first_name |-> "string"],
       optional   |-> Fields("string", names) ++ Fields("bool", rights),
       req_fields |-> 3,
       reads      |-> all,
       pairs      |-> Same(all),
       wrap       |-> <<"user">>] ++ Plain

FileFields == {"file_id", "file_unique_id", "file_size", "file_path"}

File ==
  [requested  |-> Fields("string", {"file_id", "file_unique_id"}),
   optional   |-> [file_size |-> "double", file_path |-> "string"],
   req_fields |-> 2,
   reads      |-> FileFields,
   pairs      |-> Same(FileFields),
   wrap       |-> <<"file">>] ++ Plain

PhotoSize ==
  LET sides == {"width", "height"}
  IN  [requested  |-> File.requested ++ Fields("double", sides),
       req_fields |-> 4,
       reads      |-> FileFields \cup sides,
       pairs      |-> Same((FileFields \ {"file_path"}) \cup sides),
       wrap       |-> <<"photosize">>] ++ File

Document ==
  LET about == {"file_name", "mime_type"}
  IN  [optional |-> Fields("string", about)
                    ++ [thumbnail |-> "object", file_size |-> "double"],
       reads    |-> FileFields \cup about \cup {"thumbnail"},
       nested   |-> [thumbnail |-> "PhotoSize"],
       objects  |-> <<"thumbnail">>,
       pairs    |-> Same((FileFields \ {"file_path"}) \cup about),
       wrap     |-> <<"document">>] ++ File

\* The addresses of a picture found by the search: Thumb of YandexRoot.hpp.
Thumb ==
  LET all == {"imageUrl", "width", "height", "title", "linkUrl"}
  IN  [requested  |-> Fields("string", {"imageUrl", "title", "linkUrl"})
                      ++ Fields("int64", {"width", "height"}),
       req_fields |-> 5,
       reads      |-> all,
       pairs      |-> Same(all),
       wrap       |-> <<"Thumb">>] ++ Plain

GetUpdates ==
  LET numbers == {"offset", "limit", "timeout"}
  IN  [requested  |-> Nothing,
       optional   |-> Fields("int64", numbers) ++ [allowed_updates |-> "array"],
       req_fields |-> 0,
       under      |-> <<"getupdates">>,
       reads      |-> numbers \cup {"allowed_updates"},
       pairs      |-> Same(numbers \cup {"allowed_updates"}),
       wrap       |-> <<"getupdates">>] ++ Plain

\* The kind of result is taken from the document (see ResponseFromMap); the
\* description goes out under a misspelt name.
TelegramResponse ==
  [requested  |-> [ok |-> "bool"],
   optional   |-> [error_code |-> "int64", description |-> "string"],
   req_fields |-> 1,
   reads      |-> {"ok", "error_code", "description"},
   pairs      |-> Same({"ok", "error_code", "update_id", "result"})
                  ++ [descrtiption |-> "description"],
   wrap       |-> <<>>] ++ Plain

-----------------------------------------------------------------------------
(***************************************************************************)
(* The message                                                             *)
(***************************************************************************)
MessageTexts == {"media_group_id", "author_signature", "text", "caption"}

MessageNumbers == {"message_thread_id", "sender_boost_count", "edit_date"}

MessageFlags == {"is_topic_message", "is_automatic_forward", "is_from_offline"}

MessageNested ==
  [n \in {"chat", "sender_chat"} |-> "Chat"] ++
  [n \in {"from", "sender_business_bot", "via_bot"} |-> "User"] ++
  [reply_to_message |-> "message", document |-> "Document"]

MessageOptional ==
  Fields("uint64", MessageNumbers) ++
  Fields("bool", MessageFlags \cup {"has_protected_content"}) ++
  Fields("string", MessageTexts) ++
  Fields("object", (DOMAIN MessageNested \ {"chat"}) \cup {"forward_origin"}) ++
  [photo |-> "array"]

\* Mutant: the list of members is not kept up with the list of fields.
MessageReadsNoCaption ==
  {"message_id", "date", "photo"} \cup MessageNumbers \cup MessageFlags
  \cup (MessageTexts \ {"caption"}) \cup DOMAIN MessageNested

\* Not has_protected_content; forward_origin is looked for elsewhere.
MessageReads ==
  {"message_id", "date", "photo"} \cup MessageNumbers \cup MessageFlags
  \cup MessageTexts \cup DOMAIN MessageNested

\* Mutant: a chat is written after the chat it was sent on behalf of.
SenderChatFirst ==
  <<"sender_chat", "chat", "from", "sender_business_bot", "forward_origin",
    "reply_to_message", "via_bot", "document", "photo">>

\* In the order of the objects the first of two with one key stays.
MessageObjects ==
  <<"chat", "from", "sender_chat", "sender_business_bot", "forward_origin",
    "reply_to_message", "via_bot", "document", "photo">>

Message ==
  [requested  |-> Fields("int64", {"message_id", "date"})
                  ++ [chat |-> "object"],
   optional   |-> MessageOptional,
   req_fields |-> 3,
   under      |-> <<>>,
   reads      |-> MessageReads,
   nested     |-> MessageNested,
   objects    |-> MessageObjects,
   pairs      |-> Same({"message_id", "date", "business_connection_id",
                        "has_protected_content"}
                       \cup MessageNumbers \cup MessageFlags \cup MessageTexts),
   wrap       |-> <<"message">>]

Entity ==
  [Chat |-> Chat, User |-> User, File |-> File, PhotoSize |-> PhotoSize,
   Document |-> Document, Thumb |-> Thumb, getUpdates |-> GetUpdates,
   TelegramResponse |-> TelegramResponse, message |-> Message]

-----------------------------------------------------------------------------
(***************************************************************************)
(* Where a forwarded message comes from: MessageOrigin.hpp                 *)
(***************************************************************************)
\* The pointers of type and date are built without their first slash, which
\* find_pointer takes for an error.
OriginRequested(v) ==
  LET table     == [type |-> "string", date |-> "uint64"]
      passed(n) == CheckPointerValidation(v, <<>>, table[n])
  IN  AllOf(2, [n \in {n \in DOMAIN table : passed(n) # None} |-> passed(n)])

OriginUser ==
  [name |-> "messageoriginuser", own |-> [sender_user |-> "object"],
   optional |-> Nothing]

OriginHiddenUser ==
  [name |-> "messageoriginhiddenuser", own |-> [sender_user_name |-> "string"],
   optional |-> Nothing]

OriginChat ==
  [name |-> "messageoriginchat", own |-> [sender_chat |-> "object"],
   optional |-> [author_signature |-> "string"]]

OriginChannel ==
  [name |-> "messageoriginchannel",
   own |-> [chat |-> "object", message_id |-> "uint64"],
   optional |-> [author_signature |-> "string"]]

Heirs == {OriginUser, OriginHiddenUser, OriginChat, OriginChannel}

\* What an heir asks of a document, on top of what every origin has.
VerifyHeir(heir, v) ==
  LET own      == MappedPointersValidation(v, <<heir.name>>, heir.own)
      optional == MappedPointersValidation(v, <<heir.name>>, heir.optional)
  IN  {optional ++ ContainerMove(own, base) :
         base \in {b \in OriginRequested(v) :
                     Cardinality(DOMAIN own) = Cardinality(DOMAIN heir.own)}}

\* The heirs of MessageOrigin whose name is a field of the message, of which the
\* first is taken; no table of the message has any.
FindMessageOriginHeirs(map) ==
  DOMAIN map \cap {"messageoriginchat", "messageoriginchannel",
                   "messageoriginhiddenuser"}

-----------------------------------------------------------------------------
(***************************************************************************)
(* From a document to members                                              *)
(***************************************************************************)
\* parse_jsonArray_to_container: the elements as JSON text, strings with their
\* quotes.  Of any other element the text is its kind here.
Serialised(s) ==
  Array([i \in DOMAIN s |->
          IF s[i].kind = "string"
          THEN Text(<<"quote">> \o s[i].text \o <<"quote">>)
          ELSE Text(<<s[i].kind>>)])

\* Of the elements of the array those that are photos, in their order.  The
\* verify_fields that PhotoSize inherits is that of TelegramEntities<File>: it
\* asks for the fields of a file only.
ValidPhotos(items) ==
  LET valid[i \in 0 .. Len(items)] ==
        CASE i = 0 -> <<>>
          [] i > 0 /\ VerifyFields(File, items[i]) = {} -> valid[i - 1]
          [] OTHER -> Append(valid[i - 1], items[i])
  IN  valid[Len(items)]

\* Each of them as the object of its members, which Within gives: those of a
\* file.  The width and the height, which are looked for in the same map, are
\* never in it, and the members keep whatever they hold.
Photos(items, Within(_, _)) ==
  LET valid == ValidPhotos(items)
  IN  Array([i \in DOMAIN valid |-> Object(Within("File", valid[i]))])

\* What fields_from_map takes: what the entity looks for, of the right kind.
Taken(of, map) ==
  FieldFromMap(map, Restrict(Kinds(Entity[of]),
                             Entity[of].reads \cap DOMAIN Kinds(Entity[of])))

\* An array without any element is no member, one of which nothing is left is.
Empty(of, map) ==
  {n \in DOMAIN Taken(of, map) : n = "photo" /\ Taken(of, map)[n].items = <<>>}

OriginMember(map) ==
  [n \in (IF FindMessageOriginHeirs(map) = {} THEN {} ELSE {"forward_origin"}) |->
     Object(Nothing)]

\* The array is there even if nothing is read into it.
AlwaysMember(of) ==
  IF of = "getUpdates" THEN [allowed_updates |-> Array(<<>>)] ELSE Nothing

\* A member that is an entity is the object of its members.
FieldsFromMap(of, map, Within(_, _)) ==
  LET nested == Entity[of].nested
      taken  == Taken(of, map)
  IN  [n \in DOMAIN taken \ Empty(of, map) |->
        CASE n \in DOMAIN nested     -> Object(Within(nested[n], taken[n]))
          [] n = "photo"           -> Photos(taken[n].items, Within)
          [] n = "allowed_updates" -> Serialised(taken[n].items)
          [] OTHER                 -> taken[n]]
      ++ OriginMember(map) ++ AlwaysMember(of)

\* create: the constructor of an entity.  A document that is not accepted
\* leaves the members unset.
Create(name, v, Within(_, _)) ==
  LET maps == VerifyFields(Entity[name], v)
  IN  IF maps = {} THEN Nothing
      ELSE FieldsFromMap(name, CHOOSE map \in maps : TRUE, Within)

\* The constructors call each other.  Bound: entities are read down to the
\* fourth level, which is the thumbnail of a document of a message that is
\* replied to; only the reply to a reply goes deeper, which no server sends.
Lowest(name, v)  == Create(name, v, LAMBDA inner, w : Nothing)
Lower(name, v)   == Create(name, v, Lowest)
Nested(name, v)  == Create(name, v, Lower)
Members(name, v) == Create(name, v, Nested)

\* TelegramResponse.  An exception is no members at all: a result that is
\* neither an array nor an object, an array of several (see TgSession) or an
\* update without a number.  An empty array becomes an empty object.
ResultFromMap(v) ==
  LET given  == Find(v, <<"result">>)
      number == Find(given.items[1], <<"update_id">>)
  IN  CASE given.kind \in {"none", "object"} ->
             {[result |-> IF given = None THEN Object(Nothing) ELSE given]}
        [] given = Array(<<>>) -> {[result |-> Object(Nothing)]}
        [] given.kind = "array" /\ Len(given.items) = 1
           /\ number.kind = "int64" ->
             {[result    |-> given.items[1],
               update_id |-> ValueToType("uint64", number)]}
        [] OTHER -> {}

ResponseFromMap(v) ==
  {Members("TelegramResponse", v) ++ result : result \in ResultFromMap(v)}

\* All that a document can become: nothing if it is refused.
Read(name, v) ==
  CASE VerifyFields(Entity[name], v) = {} -> {}
    [] VerifyFields(Entity[name], v) # {} /\ name = "TelegramResponse" ->
         ResponseFromMap(v)
    [] OTHER -> {Members(name, v)}

-----------------------------------------------------------------------------
(***************************************************************************)
(* From members to a document                                              *)
(***************************************************************************)
\* Of which type the entities in a member are, and all that are in it.
TypeIn(entity, n) == IF n = "photo" THEN "PhotoSize" ELSE entity.nested[n]

AllIn(member) == IF member.kind = "array" THEN member.items ELSE <<member>>

\* The places of the members that have anything to write.
WrittenObjects(entity, members) ==
  {i \in DOMAIN entity.objects :
     entity.objects[i] \in DOMAIN members /\ AllIn(members[entity.objects[i]]) # <<>>}

\* An entity is written under the key it wraps itself in.
KeyOf(entity, i) == Entity[TypeIn(entity, entity.objects[i])].wrap[1]

\* The first one under a key stays.
FirstObject(entity, members, key) ==
  Min({i \in WrittenObjects(entity, members) : KeyOf(entity, i) = key})

\* parse_tg_entenies_to_obj: every object, and every element of an array of
\* them, under its key.
ParseEntities(entity, members, Within(_, _)) ==
  LET name(key) == entity.objects[FirstObject(entity, members, key)]
  IN  [key \in {KeyOf(entity, i) : i \in WrittenObjects(entity, members)} |->
        Object(Within(TypeIn(entity, name(key)), Head(AllIn(members[name(key)])).at))]

\* What is written of the members, without the key around it.
Contents(name, members, Within(_, _)) ==
  ContainerMove(ParsePairs(Entity[name].pairs, members),
                ParseEntities(Entity[name], members, Within))

\* Bound: as many levels as are read.
LowestContents(name, members) ==
  Contents(name, members, LAMBDA inner, within : Nothing)
LowerContents(name, members)  == Contents(name, members, LowestContents)
NestedContents(name, members) == Contents(name, members, LowerContents)

\* fields_to_value, with what goes around the fields, if anything.
FieldsToValue(name, members) ==
  LET fields == Contents(name, members, NestedContents)
  IN  IF Entity[name].wrap = <<>> THEN fields
      ELSE [n \in {Entity[name].wrap[1]} |-> Object(fields)]
=============================================================================
