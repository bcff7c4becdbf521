---------------------------- MODULE MCAlgorithms ----------------------------
(***************************************************************************)
(* The pure functions of the program on every small argument: a word or an *)
(* index, or else a document or a text.                                    *)
(***************************************************************************)
EXTENDS SplitOrderArguments, MessageArguments

Init == ArgumentInit /\ MessageInit

NextArgument == ArgumentNext /\ MessageInit /\ UNCHANGED message

NextMessage == MessageNext /\ ArgumentInit /\ UNCHANGED argument

Next == NextArgument \/ NextMessage

Spec == Init /\ [][Next]_<<argument, message>>

-----------------------------------------------------------------------------
RECURSIVE Sample(_, _, _)

\* The requested fields of an entity, each of its kind.
Least(of) ==
  Object([n \in DOMAIN Entity[of].requested |->
           Sample(of, n, Entity[of].requested[n])])

\* A value that suits a field.
Sample(of, n, kind) ==
  CASE n \in DOMAIN Entity[of].nested -> Least(Entity[of].nested[n])
    [] n = "photo"           -> Array(<<Least("PhotoSize")>>)
    [] n = "allowed_updates" -> Array(<<Text(<<n>>)>>)
    [] kind \in Integral     -> Integer(1)
    [] kind = "double"       -> Double(1)
    [] kind = "string"       -> Text(<<n>>)
    [] kind = "bool"         -> Bool(TRUE)
    [] OTHER                 -> Object(Nothing)

Samples ==
  [of \in DOMAIN Entity |->
    [n \in DOMAIN Kinds(Entity[of]) |-> Sample(of, n, Kinds(Entity[of])[n])]]

\* A value of every kind, with a number that is negative and one that only
\* an unsigned integer holds.
EveryKind ==
  {Null, Bool(TRUE), Integer(-1), Integer(SignBit),
   Double(1), Text(<<"t">>), Array(<<>>), Object(Nothing)}

\* A photo whose id is a number.
Numbered ==
  Object([file_id |-> Integer(1)] ++ Least("PhotoSize").at)

\* What else may be found in a field.
Picture(thumbnail) ==
  Object(Least("Document").at ++ [mime_type |-> Text(<<"image/jpeg">>),
                                  thumbnail |-> thumbnail])

Peculiar(n) ==
  CASE n = "photo" ->
         {Array(<<Null>>), Array(<<Null, Least("File")>>), Array(<<Numbered>>)}
    [] n = "document" ->
         {Picture(Null), Picture(Object(Nothing)), Picture(Least("PhotoSize")),
          Picture(Numbered)}
    [] n = "sender_chat" ->
         {Object([type |-> Text(<<"channel">>)] ++ Least("Chat").at)}
    [] n = "forward_origin" ->
         {Object([k \in {heir.name} |->
                   Object([type |-> Text(<<"user">>), date |-> Integer(1)]
                          ++ [o \in DOMAIN heir.own |-> Object(Nothing)])]) :
            heir \in Heirs}
    [] n = "result" ->
         {Object([update_id |-> Integer(1)])} \cup
         {Array(<<Object([update_id |-> v])>>) : v \in {Integer(1), Text(<<"t">>)}}
    [] OTHER -> {}

AnyValues ==
  [n \in UNION {FieldsOf(of) : of \in DOMAIN Entity} |-> EveryKind \cup Peculiar(n)]

\* The last one has two bytes.
SomeCharacters ==
  {<<"/echo">>, <<"a">>, <<"space">>, <<"percent">>, <<"and">>, <<"plus">>,
   <<"hash">>, <<"lead", "more">>}
=============================================================================
