------------------------------ MODULE RootTags ------------------------------
(***************************************************************************)
(* searcher.hpp: parse_root_tag, from the attributes of the page's element *)
(* of class Root to the addresses of similar pictures, with what it calls  *)
(* in json_head.hpp, html_pars.hpp, url_pars.hpp and YandexRoot.hpp.       *)
(*                                                                         *)
(* An attribute is a sequence of symbols: braces, names of members whose   *)
(* values are objects, "thumbs" for a whole member of that name with its   *)
(* list, and Junk for anything that JSON does not allow there.  It stands  *)
(* for a text of more than 512 characters, as these are.                   *)
(***************************************************************************)
EXTENDS Integers, Sequences, FiniteSets, SequencesExt

CONSTANTS
  Names,      \* names of members that are objects
  Links       \* the linkUrl of each of the thumbs: a sequence of fields, each
              \* with its name and value

Junk == "junk"

-----------------------------------------------------------------------------
(***************************************************************************)
(* The text                                                                *)
(***************************************************************************)
\* html_tokenize: the tokenizer is given all characters but the last one.
\* Without markup in it the attribute is a single token.
HtmlTokenize(attribute) == <<Front(attribute)>>

Count(text, symbol) == Cardinality({i \in DOMAIN text : text[i] = symbol})

\* align_braces: json::string{brace_size, '}'} is a list of two characters, of
\* which the first is the number.
AlignBraces(text) ==
  LET dif == Count(text, "}") - Count(text, "{")
  IN  CASE dif > 0 -> <<Junk, "{">> \o text
        [] dif < 0 -> text \o <<Junk, "}">>
        [] OTHER   -> text

\* find_object_from_string: from the name to before the brace that closes the
\* object behind it.
FindObjectFromString(text, name) ==
  LET named    == {i \in DOMAIN text : text[i] = name}
      pos      == CHOOSE i \in named : \A j \in named : i <= j
      balanced == {i \in pos .. Len(text) :
                     /\ \E j \in pos .. i : text[j] = "{"
                     /\ Count(SubSeq(text, pos, i), "{") =
                        Count(SubSeq(text, pos, i), "}")}
  IN  IF named = {} \/ balanced = {} THEN <<>>
      ELSE SubSeq(text, pos, (CHOOSE i \in balanced : \A j \in balanced : i <= j) - 1)

-----------------------------------------------------------------------------
(***************************************************************************)
(* The document                                                            *)
(***************************************************************************)
\* try_parse_message, one symbol after another: path is where the parser is,
\* name the name it has just read, thumbs the objects that have such a member.
\* What follows the object is not looked at.
ParseSymbol(at, symbol) ==
  CASE at.state # "inside" /\ ~ (at.state = "start" /\ symbol = "{") ->
         IF at.state = "done" THEN at ELSE [at EXCEPT !.state = "error"]
    [] at.state = "start" -> [at EXCEPT !.state = "inside"]
    [] symbol \in Names /\ at.name = <<>> -> [at EXCEPT !.name = <<symbol>>]
    [] symbol = "{" /\ at.name # <<>> ->
         [at EXCEPT !.path = @ \o at.name, !.name = <<>>]
    [] symbol = "thumbs" /\ at.name = <<>> ->
         [at EXCEPT !.thumbs = @ \cup {at.path}]
    [] symbol = "}" /\ at.name = <<>> /\ at.path = <<>> ->
         [at EXCEPT !.state = "done"]
    [] symbol = "}" /\ at.name = <<>> -> [at EXCEPT !.path = Front(@)]
    [] OTHER -> [at EXCEPT !.state = "error"]

TryParseMessage(text) ==
  FoldLeft(ParseSymbol,
           [state |-> "start", path |-> <<>>, name |-> <<>>, thumbs |-> {}],
           text)

Parsed(text) == TryParseMessage(text).state = "done"

\* find_InitialState and find_cbirSimilar_Thumbs.
HasThumbs(text, path) == path \in TryParseMessage(text).thumbs

\* find_url_field: the value of the first field of that name.
FindUrlField(link, name) ==
  LET given == SelectSeq(link, LAMBDA field : field.name = name)
  IN  IF given = <<>> THEN <<>> ELSE <<Head(given).value>>

\* The addresses of the thumbs; one whose link has none is passed over.
ThumbUrls ==
  FlattenSeq([i \in DOMAIN Links |-> FindUrlField(Links[i], "img_url")])

-----------------------------------------------------------------------------
\* seek_cbirSimilar.  An exception, of the second attempt too, is no addresses:
\* parse_root_tag goes on with the next attribute.
SeekCbirSimilar(tag) ==
  LET aligned == AlignBraces(tag)
      found   == FindObjectFromString(aligned, "cbirSimilar")
  IN  CASE tag = <<>> \/ tag[1] # "{" -> <<>>
        [] Parsed(aligned) ->
             IF HasThumbs(aligned, <<"initialState", "cbirSimilar">>)
             THEN ThumbUrls ELSE <<>>
        [] ~ Parsed(aligned) /\ Parsed(found) ->
             IF HasThumbs(found, <<"cbirSimilar">>) THEN ThumbUrls ELSE <<>>
        [] OTHER -> <<>>

\* parse_root_tag
ParseRootTag(attribute) ==
  LET tags == HtmlTokenize(attribute)
  IN  FlattenSeq([i \in DOMAIN tags |-> SeekCbirSimilar(tags[i])])
=============================================================================
