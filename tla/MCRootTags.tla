----------------------------- MODULE MCRootTags -----------------------------
(***************************************************************************)
(* RootTags on every attribute of at most MaxLength symbols.               *)
(***************************************************************************)
EXTENDS RootTags

CONSTANTS
  MaxLength     \* bound: symbols of an attribute

VARIABLES
  attribute     \* the value of an attribute of the page

\* Of two thumbs one has an address.
MCLinks == <<<<[name |-> "rpt", value |-> "x"], [name |-> "img_url", value |-> "u"]>>,
             <<[name |-> "rpt", value |-> "x"]>>>>

Init == attribute = <<>>

Next ==
  /\ Len(attribute) < MaxLength
  /\ \E symbol \in {"{", "}", "thumbs"} \cup Names :
       attribute' = Append(attribute, symbol)

Spec == Init /\ [][Next]_attribute

-----------------------------------------------------------------------------
\* The comments of parse_root_tag say that the last brace of a tag is usually
\* missing and that it is put back, or else that the object is cut out of the
\* text: of an attribute that is the JSON document the page means to send, the
\* addresses are found.
MissingBraceMended ==
  /\ Parsed(attribute)
  /\ HasThumbs(attribute, <<"initialState", "cbirSimilar">>)
  => ParseRootTag(attribute) = ThumbUrls
=============================================================================
