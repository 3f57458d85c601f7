---------------------------- MODULE ParsedRequest ----------------------------
(***************************************************************************)
(* The life of a ParsedRequest object of proxy_parse.c: created, given a   *)
(* text to parse, its headers read and changed, printed into a buffer of   *)
(* the length it asks for, and destroyed.  It composes HeaderTable and     *)
(* RequestText.  Objects are private to a thread, so there is one actor;   *)
(* the memory the object holds is counted in blocks.                       *)
(***************************************************************************)
EXTENDS HeaderTable, RequestText

CONSTANTS
  Symbols,        \* what texts are made of
  Texts,          \* what callers give to ParsedRequest_parse
  MAX_REQ_LEN,    \* the longest text it accepts
  BeyondBuffer,   \* what the memory behind a request line or a text may hold
  SetKeys, SetValues, \* what callers set, get and remove
  MaxUsed         \* bound on headersused for ParsedHeader_set

Strings == Seq(Symbols)

Requests == [protocol : Strings, host : Strings, port : Strings, path : Strings,
             version : Strings]

ASSUME ParsedRequestAssumption ==
  /\ Keys = Strings /\ Values = Strings
  /\ Texts \cup BeyondBuffer \cup SetKeys \cup SetValues \subseteq Strings
  /\ {"cr", "lf", " ", ":", "/", "GET"} \subseteq Symbols /\ "nul" \notin Symbols
  /\ MAX_REQ_LEN \in Nat
  /\ NULL \notin Requests

VARIABLES
  pc,             \* where the object is in its life
  currentHeader,  \* the text still to be parsed
  request,        \* the fields of the request line, NULL when buf is NULL
  allocated,      \* blocks allocated and not freed
  out             \* the last text printed, with what was printed and whether
                  \* the present object was parsed from it; or NULL

rvars == <<pc, currentHeader, request, allocated, out>>
vars == <<rvars, tvars>>

Init ==
  /\ Empty
  /\ pc = "none"
  /\ currentHeader = <<>>
  /\ request = NULL
  /\ allocated = 0
  /\ out = NULL

LiveSlot(h) == IF h.key = NULL THEN <<>> ELSE <<h>>

LiveHeaders == FlattenSeq([i \in DOMAIN headers |-> LiveSlot(headers[i])])

-----------------------------------------------------------------------------
(* The object and its array of headers.                                      *)
ParsedRequest_create ==
  /\ pc = "none"
  /\ pc' = "created"
  /\ allocated' = 2
  /\ UNCHANGED <<currentHeader, request, out, tvars>>

(* What is accepted to be parsed, whatever follows the end of its headers.   *)
Accepted(t) == Len(t) \in 4..MAX_REQ_LEN /\ Complete(t)

Reparsed(t) == IF out # NULL /\ t = out.text THEN [out EXCEPT !.reparsed = TRUE] ELSE NULL

(* The text is copied into tmp_buf, its first line into buf.                 *)
ParseBegins(t) ==
  /\ pc = "created"
  /\ Accepted(t)
  /\ pc' = "line"
  /\ currentHeader' = t
  /\ allocated' = allocated + 2
  /\ out' = Reparsed(t)
  /\ UNCHANGED <<request, tvars>>

(* A text that is refused leaves the object as it is; and so does any text   *)
(* for an object that has one already.                                       *)
ParseRefused(t) ==
  /\ pc = "created"
  /\ ~Accepted(t)
  /\ out' = Reparsed(t)
  /\ UNCHANGED <<pc, currentHeader, request, allocated, tvars>>

ParseText ==
  \/ \E t \in Texts : ParseBegins(t) \/ ParseRefused(t)
  \/ out # NULL /\ (ParseBegins(out.text) \/ ParseRefused(out.text))

Fields(beyond) ==
  LineFields(SubSeq(currentHeader, 1, Strstr(currentHeader, CRLF) - 1), beyond)

(* The request line is accepted, and the path copied with a slash before it. *)
ParseLine ==
  /\ pc = "line"
  /\ \E beyond \in BeyondBuffer :
       /\ Acceptable(Fields(beyond))
       /\ request' = Request(Fields(beyond))
  /\ pc' = "headers"
  /\ currentHeader' = NextLine(currentHeader)
  /\ allocated' = allocated + 1
  /\ UNCHANGED <<out, tvars>>

(* Mutant: an error path forgets buf.                                        *)
LineBlocksKept == 1

(* Every error path frees tmp_buf and buf, and the path when it has copied   *)
(* it already.                                                               *)
LineBlocks == 2

ParseLineFails ==
  /\ pc = "line"
  /\ \E beyond \in BeyondBuffer : ~Acceptable(Fields(beyond))
  /\ pc' = "created"
  /\ currentHeader' = <<>>
  /\ allocated' = allocated - LineBlocks
  /\ UNCHANGED <<request, out, tvars>>

(* The two strings of a new slot, less those of the slot cleared for it.     *)
SetBlocks(k) == IF Missing(k) THEN 2 ELSE 0

(* Those of the slot cleared.                                                *)
ClearBlocks(k) == IF Missing(k) THEN 0 ELSE 2

AtHeader == pc = "headers" /\ ~HeadersEnd(currentHeader) /\ HasColon(currentHeader)

(* A header is read and set.  The parser goes on whatever set returns.       *)
ParseHeader ==
  /\ AtHeader
  /\ \E beyond \in BeyondBuffer :
       LET k == HeaderKey(currentHeader)
           v == HeaderValue(currentHeader, beyond)
       IN /\ HasValue(currentHeader, beyond)
          /\ \/ ParsedHeader_set(k, v) /\ allocated' = allocated + SetBlocks(k)
             \/ SetNoMemory(k, v) /\ allocated' = allocated - ClearBlocks(k)
  /\ currentHeader' = NextLine(currentHeader)
  /\ UNCHANGED <<pc, request, out>>

(* There is no value to read, or no array to set it in.                      *)
ParseCrashes ==
  /\ AtHeader
  /\ lost \/ \E beyond \in BeyondBuffer : ~HasValue(currentHeader, beyond)
  /\ pc' = "crashed"
  /\ UNCHANGED <<currentHeader, request, allocated, out, tvars>>

(* parse returns: all headers are read, or no colon is left.  In either case *)
(* tmp_buf is freed and the object keeps what it has.                        *)
ParseEnds ==
  /\ pc = "headers"
  /\ HeadersEnd(currentHeader) \/ ~HasColon(currentHeader)
  /\ pc' = IF HeadersEnd(currentHeader) THEN "parsed" ELSE "refused"
  /\ currentHeader' = <<>>
  /\ allocated' = allocated - 1
  /\ UNCHANGED <<request, out, tvars>>

-----------------------------------------------------------------------------
(* Calls on a parsed request.  A change outdates what was printed.           *)
SetHeader(k, v) ==
  /\ pc = "parsed"
  /\ Len(headers) < MaxUsed
  /\ \/ ParsedHeader_set(k, v) /\ allocated' = allocated + SetBlocks(k)
     \/ SetNoMemory(k, v) /\ allocated' = allocated - ClearBlocks(k)
  /\ out' = NULL
  /\ UNCHANGED <<pc, currentHeader, request>>

GetHeader(k) ==
  /\ pc = "parsed"
  /\ ParsedHeader_get(k)
  /\ UNCHANGED rvars

RemoveHeader(k) ==
  /\ pc = "parsed"
  /\ ParsedHeader_remove(k)
  /\ allocated' = allocated - ClearBlocks(k)
  /\ out' = NULL
  /\ UNCHANGED <<pc, currentHeader, request>>

(* ParsedHeader_printHeaders passes over the slots without a key.            *)
PrintedSlot(h) == IF h.key = NULL THEN <<>> ELSE PrintedHeader(h)

PrintedHeaders == FlattenSeq([i \in DOMAIN headers |-> PrintedSlot(headers[i])]) \o CRLF

(* ParsedHeader_headersLen walks all slots.                                  *)
HeadersLen ==
  FoldLeft(LAMBDA n, h : n + (IF h.key = NULL THEN 0 ELSE Len(h.key) + Len(h.value) + 4),
           0, headers) + 2

TotalLen == LineLen(request) + HeadersLen

(* ParsedRequest_unparse into a buffer of length buflen: nothing, or all.    *)
Unparse ==
  /\ pc = "parsed" /\ ~lost
  /\ \E buflen \in {TotalLen - 1, TotalLen} :
       /\ LineLen(request) <= buflen /\ HeadersLen <= buflen - LineLen(request)
       /\ out' = [text |-> PrintedLine(request) \o PrintedHeaders, buflen |-> buflen,
                  request |-> request, headers |-> LiveHeaders, reparsed |-> FALSE]
  /\ UNCHANGED <<pc, currentHeader, request, allocated, tvars>>

HeldStrings == 2 * Cardinality(Live)

(* buf and path when there is a request line, the headers, the object.       *)
ParsedRequest_destroy ==
  /\ pc \in {"created", "parsed", "refused"} /\ ~lost
  /\ pc' = "none"
  /\ allocated' = allocated - (IF request = NULL THEN 0 ELSE 2) - HeldStrings - 2
  /\ request' = NULL
  /\ out' = IF out # NULL /\ out.reparsed THEN NULL ELSE out
  /\ headers' = <<>>
  /\ headerslen' = DEFAULT_NHDRS
  /\ call' = NULL
  /\ result' = NULL
  /\ UNCHANGED <<currentHeader, lost>>

(* Any call that walks over the headers after realloc has failed.            *)
CallCrashes ==
  /\ pc \in {"parsed", "refused"} /\ lost
  /\ pc' = "crashed"
  /\ UNCHANGED <<currentHeader, request, allocated, out, tvars>>

Next ==
  \/ ParsedRequest_create \/ ParsedRequest_destroy
  \/ ParseText \/ ParseLine \/ ParseLineFails
  \/ ParseHeader \/ ParseCrashes \/ ParseEnds
  \/ \E k \in SetKeys :
       (\E v \in SetValues : SetHeader(k, v)) \/ GetHeader(k) \/ RemoveHeader(k)
  \/ Unparse \/ CallCrashes

Spec == Init /\ [][Next]_vars

-----------------------------------------------------------------------------
(* Type invariant: the header table is well formed and within its array.     *)
TypeOK ==
  /\ TableOK
  /\ pc \in {"none", "created", "line", "headers", "parsed", "refused", "crashed"}
  /\ allocated \in Nat
  /\ (request = NULL) <=> (pc \in {"none", "created", "line"})
  /\ lost => pc \in {"headers", "parsed", "refused", "crashed"}

(* The object's blocks are those it can still reach, from the object itself  *)
(* and through buf, path, the array and the live slots, and the temporary    *)
(* copy while it is parsing: nothing is leaked by an error path, by a header *)
(* set twice or removed, or by destroying it, and nothing is freed twice.    *)
(* Only when realloc has failed, the array and its strings are out of reach. *)
MemoryOwned ==
  pc # "crashed" =>
    allocated = (IF pc = "none" THEN 0 ELSE 2)
                + (IF pc = "line" THEN 2 ELSE IF pc = "headers" THEN 1 ELSE 0)
                + (IF request = NULL THEN 0 ELSE 2) + 2 * Cardinality(Live)

(* A line without a colon has run together with the one after it.            *)
RunTogether(hs) == \E i \in DOMAIN hs : \E j \in DOMAIN hs[i].key : hs[i].key[j] = "cr"

(* "Recreate the entire buffer from a parsed request object": the text       *)
(* printed fills exactly the length that was asked for.  Parsing it again is *)
(* refused only if it has grown beyond MAX_REQ_LEN, and never crashes while  *)
(* there is memory; it gives the same request line and the same headers, in  *)
(* order, although headers were removed, set again, or written in a way the  *)
(* parser misreads; unless a line had no colon, and a key holds an end of a  *)
(* line.                                                                     *)
PrintedReparses ==
  out # NULL =>
    /\ Len(out.text) = out.buflen
    /\ out.reparsed /\ ~lost =>
         /\ pc = "created" <=> Len(out.text) > MAX_REQ_LEN
         /\ pc \notin {"refused", "crashed"}
         /\ pc = "parsed" =>
              /\ request = out.request
              /\ RunTogether(out.headers) \/ LiveHeaders = out.headers
=============================================================================
