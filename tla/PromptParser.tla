------------------------------ MODULE PromptParser ------------------------------
(***************************************************************************)
(* What the capture endpoints of the console make of a request               *)
(* (prompt-audit/routes.ts and parser.ts): the checks before and after the   *)
(* body is read, the text and images of the latest input, redaction and      *)
(* truncation.  Queueing and storing the record is in PromptAudit.           *)
(*                                                                          *)
(* A text is a sequence of symbols; the symbols "key1", "key2" together are  *)
(* a credential that a redaction rule knows, "blob" is a long run of Base64. *)
(***************************************************************************)
EXTENDS Naturals, SequencesExt

CONSTANTS
    Requests,       \* the requests that may arrive
    None,
    MaxBody,        \* maxRequestBodyBytes
    MaxCharacters, MaxImages, MaxImageBytes, MaxTotalBytes

VARIABLES
    request,
    answer,         \* status code, or None
    record          \* handed to the service, or None

vars == <<request, answer, record>>

TextTypes == {"text", "input_text", "output_text", "message", "refusal", ""}

----------------------------------------------------------------------------
(* Text.                                                                    *)

AddText(text) ==
    IF "system-reminder" \in ToSet(text) THEN <<>>
    ELSE [i \in DOMAIN text |-> IF text[i] = "blob" THEN "omitted" ELSE text[i]]

PartText(part) == IF part.type \in TextTypes THEN AddText(part.text) ELSE <<>>

PartTexts(parts) == FoldLeft(LAMBDA text, part : text \o PartText(part), <<>>, parts)

\* The content, and again with the item's own text if it has one.
ItemText(item) ==
    PartTexts(item.parts) \o
    IF item.type \in TextTypes /\ item.text # <<>>
    THEN AddText(item.text) \o PartTexts(item.parts) ELSE <<>>

\* What a tool was called with or returned, below a heading.
Serialized(item) == <<"heading">> \o AddText(item.text)

ToolTypes == {"tool_result", "mcp_call", "shell_call"}

OrHeading(text) == IF text = <<>> THEN <<"heading">> ELSE text

Classified(item) ==
    LET As(kind, text) == [kind |-> kind, text |-> text]
    IN  CASE item.type \in {"function_call", "function_call_output"} ->
                As(item.type, Serialized(item))
          [] item.role = "tool" \/ item.type \in ToolTypes -> As("tool", Serialized(item))
          [] item.role = "user" \/ (item.role = "" /\ item.type = "input_text") ->
                IF ItemText(item) = <<>> THEN None ELSE As("user", ItemText(item))
          [] item.role = "assistant" -> As("assistant", OrHeading(ItemText(item)))
          [] item.role \in {"developer", "system"} -> As("developer", OrHeading(ItemText(item)))
          [] OTHER ->
                IF ItemText(item) = <<>> /\ item.type = "" /\ item.role = "" THEN None
                ELSE As("other", OrHeading(ItemText(item)))

LatestInput(body) == IF body.items = <<>> THEN None ELSE Last(body.items)

\* An input that is a string has no items.
ExtractLatestPrompt(body) ==
    IF body.string # None
    THEN IF AddText(body.string) = <<>> THEN None
         ELSE [kind |-> "user", text |-> AddText(body.string)]
    ELSE IF LatestInput(body) = None THEN None ELSE Classified(LatestInput(body))

----------------------------------------------------------------------------
(* Images.                                                                  *)

\* Mutant: the size of an image is not limited.
DeclaredOnly(image) == image # None /\ image.declared = image.actual

Decoded(image) ==
    image # None /\ image.declared = image.actual /\ image.bytes \in 1..MaxImageBytes

\* The item itself, then its content, in the order visit takes.
ImagesOf(item) == <<item.image>> \o [i \in DOMAIN item.parts |-> item.parts[i].image]

\* Mutant: every item of the input is visited.
EveryItem(body) == FoldLeft(LAMBDA all, item : all \o ImagesOf(item), <<>>, body.items)

Visited(body) == IF LatestInput(body) = None THEN <<>> ELSE ImagesOf(LatestInput(body))

Bytes(media) == FoldLeft(LAMBDA sum, image : sum + image.bytes, 0, media)

Fits(media, image) == Bytes(media) + image.bytes <= MaxTotalBytes

Keep(media, image) ==
    IF /\ Len(media) < MaxImages /\ Decoded(image)
       /\ image.hash \notin {m.hash : m \in ToSet(media)}
       /\ Fits(media, image)
    THEN Append(media, image) ELSE media

ExtractPromptMedia(body) == FoldLeft(Keep, <<>>, Visited(body))

----------------------------------------------------------------------------
(* The record.                                                              *)

Redacted(text) ==
    FoldLeft(LAMBDA done, symbol :
                IF symbol = "key2" /\ done # <<>> /\ Last(done) = "key1"
                THEN Append(Front(done), "redacted") ELSE Append(done, symbol), <<>>, text)

Cut(text) == IF Len(text) > MaxCharacters THEN SubSeq(text, 1, MaxCharacters) ELSE text

Stored(text) == Cut(Redacted(text))

MediaOnlyUser(body) ==
    LET item == LatestInput(body)
    IN  item # None /\ (item.role = "user" \/ item.type \in {"input_image", "image_url"})

ParsePrompt(body) ==
    LET extracted == ExtractLatestPrompt(body)
        media == ExtractPromptMedia(body)
        text == (IF extracted = None THEN <<>> ELSE extracted.text)
                    \o (IF media = <<>> THEN <<>> ELSE <<"attachments">>)
        kind == IF extracted # None THEN extracted.kind
                ELSE IF MediaOnlyUser(body) THEN "user" ELSE "other"
    IN  IF extracted = None /\ media = <<>> THEN None
        ELSE [text |-> Stored(text), chars |-> Len(text), redacted |-> Redacted(text) # text,
              truncated |-> Len(Redacted(text)) > MaxCharacters, kind |-> kind,
              reviewRequired |-> kind = "user", media |-> media]

\* A message whose input is in its response object or in itself.
ParseWebSocketPrompt(message) ==
    IF message.type \in {"response.create", "response.append", "response.inject"}
    THEN ParsePrompt(message.body) ELSE None

----------------------------------------------------------------------------
(* The endpoints.                                                           *)

TooLarge(r) == r.declared # None => r.declared > MaxBody

Answer(code, rec) == answer' = code /\ record' = rec /\ UNCHANGED request

Arrived(endpoint) == answer = None /\ request.endpoint = endpoint

AuthorizeAndLimit ==
    /\ answer = None
    /\ \/ ~request.secret /\ Answer(404, None)
       \/ request.secret /\ TooLarge(request) /\ Answer(204, None)

Allowed(endpoint) == Arrived(endpoint) /\ request.secret /\ ~TooLarge(request)

\* HTTP: the mirror of a request.  Whatever is wrong with it, it is accepted.
Capture ==
    /\ Allowed("http")
    /\ Answer(202, IF ~request.named \/ ~request.json THEN None
                   ELSE ParsePrompt(request.message.body))

\* WebSocket: a message of the relay, which waits for the record to be stored.
CaptureWs ==
    /\ Allowed("ws")
    /\ LET parsed == ParseWebSocketPrompt(request.message)
       IN  CASE ~request.named -> Answer(400, None)
             [] request.named /\ (~request.json \/ parsed = None) -> Answer(204, None)
             [] OTHER -> IF request.dated THEN Answer(201, parsed) ELSE Answer(400, None)

Init == request \in Requests /\ answer = None /\ record = None

Next == AuthorizeAndLimit \/ Capture \/ CaptureWs

Spec == Init /\ [][Next]_vars

----------------------------------------------------------------------------
(* Properties.                                                              *)

TypeOK ==
    /\ request \in Requests
    /\ answer \in {None, 201, 202, 204, 400, 404}
    /\ record = None \/ record.media \in Seq([declared : STRING, actual : STRING,
                                              bytes : 1..MaxImageBytes, hash : STRING])

\* Docs 006: credentials are removed before the text is saved, also a
\* credential that the cut at the end of a long text goes through.
NoCredentialStored ==
    record # None => {"key1", "key2"} \cap ToSet(record.text) = {}

\* Docs 006: at most so many images, each of its declared type, and so many
\* bytes of them, whatever order they come in.
ImagesBounded ==
    record # None =>
        /\ Len(record.media) <= MaxImages /\ Bytes(record.media) <= MaxTotalBytes
        /\ IsInjective([i \in DOMAIN record.media |-> record.media[i].hash])
        /\ \A image \in ToSet(record.media) : image.declared = image.actual

\* Docs 006: only the last item of the input is recorded: every image kept and
\* every symbol of text comes from it.
OnlyLatestInput ==
    record # None /\ request.message.body.items # <<>> =>
        LET item == Last(request.message.body.items)
        IN  /\ ToSet(record.media) \subseteq ToSet(ImagesOf(item))
            /\ "old" \notin ToSet(record.text)

\* What the user has put in: a text, or an item that is the user's by its role or
\* its type, if it is not what a tool was called with or returned.
FromUser(body) ==
    \/ body.string # None
    \/ /\ body.items # <<>>
       /\ Last(body.items).type \notin {"function_call", "function_call_output"} \cup ToolTypes
       /\ \/ Last(body.items).role = "user"
          \/ Last(body.items).role = "" /\ Last(body.items).type = "input_text"

\* There is text in it that a reader would see, or an image.
HasContent(body) ==
    \/ body.string # None /\ AddText(body.string) # <<>>
    \/ body.items # <<>> /\ ItemText(Last(body.items)) # <<>>
    \/ body.items # <<>> /\ \E image \in ToSet(ImagesOf(Last(body.items))) : Decoded(image)

\* Docs 006: input of the user is reviewed and a continuation is not, though it
\* holds nothing but an image, and whatever the record's text was made from; no
\* input of the user with a text or an image is left out when it was accepted.
UserInputReviewed ==
    LET body == request.message.body
    IN  /\ record # None => (record.reviewRequired <=> FromUser(body))
        /\ answer \in {201, 202} /\ request.named /\ request.json =>
              (FromUser(body) /\ HasContent(body) => record # None)

\* Docs 006: over the limit or of unknown size, a body is not audited, and the
\* relay is not told to send it again.
OversizeSkipped ==
    answer # None /\ request.secret /\ (request.declared = None \/ request.declared > MaxBody) =>
        record = None /\ answer = 204
=============================================================================
