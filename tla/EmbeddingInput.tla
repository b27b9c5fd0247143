---------------------------- MODULE EmbeddingInput ----------------------------
(***************************************************************************)
(* ReadEmbeddingInput: the parts of a multipart request, taken one by one;    *)
(* and what openapi.yaml and docs/wiki/README.md say of the form as a whole.   *)
(*                                                                         *)
(* A text's content is what the trim leaves of it, NoText when that is        *)
(* nothing; an image's is the type that http.DetectContentType sees; a URL's   *)
(* its name, NoURL when the trim leaves nothing.                            *)
(***************************************************************************)
EXTENDS Naturals, FiniteSets, Sequences, SequencesExt

CONSTANTS MaxTextChars,   \* 8192
          MaxImages,      \* 4
          MaxImageBytes,  \* 20 MiB
          MaxURLLength    \* 2048: characters in openapi.yaml, bytes in the code

ASSUME EmbeddingInputAssumption ==
    /\ MaxTextChars \in Nat /\ MaxImages \in Nat
    /\ MaxImageBytes \in Nat /\ MaxURLLength \in Nat

NoText == "blank"
NoURL == "none"
Nothing == [text |-> NoText, images |-> <<>>, webhook |-> NoURL]

\* utf8.UTFMax: the bytes of one character at most.
UTFMax == 4

MaxTextBytes == UTFMax * MaxTextChars

\* A part is its field, its content, its characters and bytes as they came, and
\* whether the body ends in the middle of it.
Part ==
    {p \in [field : STRING, content : STRING, chars : Nat, bytes : Nat, cut : BOOLEAN] :
        /\ p.chars <= p.bytes /\ p.bytes <= UTFMax * p.chars
        /\ p.field = "text" /\ p.content # NoText => p.chars >= 1}

\* jobImageContentType
Supported(image) == image \in {"jpeg", "png", "webp"}

\* Mutant of TextError: the limit in characters is taken for one in bytes.
TextErrorInChars(mode, p) ==
    IF mode = "images" \/ p.cut \/ p.bytes > MaxTextChars THEN "invalid"
    ELSE IF p.content = NoText THEN "required" ELSE "none"

TextError(mode, p) ==
    IF mode = "images" \/ p.cut \/ p.bytes > MaxTextBytes THEN "invalid"
    ELSE IF p.content = NoText THEN "required" ELSE "none"

ImageError(p) ==
    IF p.cut THEN "unread" ELSE IF p.bytes > MaxImageBytes THEN "tooLarge"
    ELSE IF Supported(p.content) THEN "none" ELSE "unsupported"

URLError(p) == IF p.cut \/ p.bytes > MaxURLLength THEN "invalid" ELSE "none"

\* The error the part ends the reading with; a part that NextPart cannot read
\* has no field.
PartError(mode, p) ==
    CASE p.field = "text"        -> TextError(mode, p)
      [] p.field = "images"      -> ImageError(p)
      [] p.field = "webhook_url" -> URLError(p)
      [] OTHER                   -> "invalid"

\* A second text or URL replaces the first.
Take(input, p) ==
    CASE p.field = "text"        -> [input EXCEPT !.text = p.content]
      [] p.field = "images"      -> [input EXCEPT !.images = Append(@, p.content)]
      [] p.field = "webhook_url" -> [input EXCEPT !.webhook = p.content]

\* At the end of the parts.
Complete(mode, input) ==
    input.images # <<>> \/ (mode = "multimodal" /\ input.text # NoText)

-----------------------------------------------------------------------------
(***************************************************************************)
(* The form as openapi.yaml declares it: images an array, text and webhook_url *)
(* single strings, each with its limits.                                    *)
(***************************************************************************)
Positions(field, parts) == {i \in DOMAIN parts : parts[i].field = field}

FieldsOf(mode) == {"images", "webhook_url"} \cup IF mode = "images" THEN {} ELSE {"text"}
RequiredOf(mode) == IF mode = "images" THEN {"images"} ELSE {"text", "images"}

MaxChars(field) ==
    CASE field = "text"        -> MaxTextChars
      [] field = "images"      -> MaxImageBytes
      [] field = "webhook_url" -> MaxURLLength

\* The schema of the form; the lengths are those of the parts at S.
Conforms(mode, parts, S) ==
    /\ \A i \in DOMAIN parts : parts[i].field \in FieldsOf(mode)
    /\ \E i \in DOMAIN parts : parts[i].field \in RequiredOf(mode)
    /\ Cardinality(Positions("images", parts)) <= MaxImages
    /\ \A i \in S : /\ parts[i].chars <= MaxChars(parts[i].field)
                    /\ parts[i].field = "text" => parts[i].chars >= 1

\* External: the positions that the validator may compare with the lengths: every
\* image and, of a string that is given more than once, at least one.
Examined(parts) ==
    {S \in SUBSET DOMAIN parts :
        /\ Positions("images", parts) \subseteq S
        /\ \A i \in DOMAIN parts : \E j \in S : parts[j].field = parts[i].field}

\* No string is given more than once.
StringsOnce(parts) ==
    \A i, j \in DOMAIN parts :
        parts[i].field = parts[j].field /\ parts[i].field \in {"text", "webhook_url"} => i = j

\* The form, and the rest of the table of limits in docs/wiki/README.md.
Valid(mode, parts) ==
    /\ StringsOnce(parts)
    /\ Conforms(mode, parts, DOMAIN parts)
    /\ \A i \in DOMAIN parts :
          /\ ~parts[i].cut
          /\ parts[i].field = "text" => parts[i].content # NoText
          /\ parts[i].field = "images" =>
                parts[i].content \in {"png", "jpeg", "webp"} /\ parts[i].bytes <= MaxImageBytes
          /\ parts[i].field = "webhook_url" => parts[i].bytes <= MaxURLLength

\* The contents of the parts of a field, in the order of the parts.
Contents(field, parts) ==
    LET at == Positions(field, parts)
        nth(n) == CHOOSE i \in at : Cardinality({j \in at : j <= i}) = n
    IN [n \in 1 .. Cardinality(at) |-> parts[nth(n)].content]

\* The string of a field that is given once or not at all.
StringOr(default, field, parts) ==
    IF Positions(field, parts) = {} THEN default
    ELSE parts[CHOOSE i \in Positions(field, parts) : TRUE].content

Declared(parts) ==
    [text    |-> StringOr(NoText, "text", parts),
     images  |-> Contents("images", parts),
     webhook |-> StringOr(NoURL, "webhook_url", parts)]
=============================================================================
