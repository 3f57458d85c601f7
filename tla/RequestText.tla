----------------------------- MODULE RequestText -----------------------------
(***************************************************************************)
(* The texts proxy_parse.c reads and prints, and what its parsing finds in *)
(* them.  A text is a sequence of symbols: the characters the parser looks *)
(* for, and words it takes whole or by their first symbol ("GET" a method, *)
(* "HTTP/" the beginning of a version).                                    *)
(***************************************************************************)
EXTENDS Integers, SequencesExt

CRLF == <<"cr", "lf">>

From(s, i) == SubSeq(s, i, Len(s))

(* Where t occurs in s; strstr finds the first place.                        *)
Occurrences(s, t) == {i \in 1..(Len(s) - Len(t) + 1) : SubSeq(s, i, i + Len(t) - 1) = t}

Strstr(s, t) == Min(Occurrences(s, t))

(* The text holds an end of headers, which need not be its own end.          *)
Complete(s) == Occurrences(s, CRLF \o CRLF) # {}

(* The first symbol of S at or after i, or the end of the string.            *)
IndexOf(s, i, S) == Min({j \in i..Len(s) : s[j] \in S} \cup {Len(s) + 1})

(* The first symbol that is no delimiter, or the end of the string.          *)
TokenStart(s, delim) == Min({j \in 1..Len(s) : s[j] \notin delim} \cup {Len(s) + 1})

(* strtok_r: skip delimiters, take a token up to the next one, and go on     *)
(* behind that.  Without a token it returns NULL, here the empty sequence.   *)
Strtok(s, delim) ==
  LET first == TokenStart(s, delim)
      end   == IndexOf(s, first, delim)
  IN [token |-> SubSeq(s, first, end - 1), rest |-> From(s, end + 1), end |-> end]

-----------------------------------------------------------------------------
(* What ParsedRequest_parse finds in the request line s.  version is what    *)
(* follows the address and one symbol; when the address ends the line, that  *)
(* lies beyond the buffer.  rem is taken to begin 3 symbols behind an        *)
(* initial protocol, wherever the protocol really is, and its length up to   *)
(* the next NUL is compared with the length of the host.                     *)
LineFields(s, beyond) ==
  LET method    == Strtok(s, {" "})
      full_addr == Strtok(method.rest, {" "})
      version   == IF full_addr.end > Len(method.rest) THEN beyond ELSE full_addr.rest
      protocol  == Strtok(full_addr.token, {":", "/"})
      memory    == [full_addr.token \o <<"nul">> \o version \o <<"nul">>
                      EXCEPT ![protocol.end] = "nul"]
      rem       == Len(protocol.token) + 4
      authority == Strtok(protocol.rest, {"/"})
      host      == Strtok(authority.token, {":"})
  IN [method |-> method.token, protocol |-> protocol.token,
      host |-> host.token, port |-> host.rest, path |-> <<"/">> \o authority.rest,
      version |-> version, authority |-> authority.token,
      abs_uri_len |-> IndexOf(memory, rem, {"nul"}) - rem]

Acceptable(f) ==
  /\ f.method = <<"GET">>
  /\ f.version # <<>> /\ f.version[1] = "HTTP/"
  /\ f.protocol # <<>>
  /\ f.host # <<>>
  /\ Len(f.authority) # f.abs_uri_len
  /\ ~IsPrefix(<<"/", "/">>, f.path)

(* The fields a ParsedRequest keeps; an empty port is NULL.                  *)
Request(f) ==
  [protocol |-> f.protocol, host |-> f.host, port |-> f.port, path |-> f.path,
   version |-> f.version]

-----------------------------------------------------------------------------
(* ParsedHeader_parse at the start of s, the headers still to be parsed and  *)
(* what follows them: the colon is looked for in all of s, and the symbol    *)
(* after it is taken for a space without a look.                             *)
HasColon(s) == \E i \in DOMAIN s : s[i] = ":"

HeaderKey(s) == SubSeq(s, 1, IndexOf(s, 1, {":"}) - 1)

(* Mutant: the symbol after the colon is kept.                               *)
AfterColonUntrimmed(s, beyond) == From(s, IndexOf(s, 1, {":"}) + 1)

(* Two symbols on from a colon that ends s lies what is beyond the buffer.   *)
AfterColon(s, beyond) ==
  IF IndexOf(s, 1, {":"}) = Len(s) THEN beyond ELSE From(s, IndexOf(s, 1, {":"}) + 2)

(* The value goes up to an end of a line.  If there is none, strstr gives    *)
(* NULL, and copying the symbols up to there ends the process.               *)
HasValue(s, beyond) == Occurrences(AfterColon(s, beyond), CRLF) # {}

HeaderValue(s, beyond) ==
  LET v == AfterColon(s, beyond) IN SubSeq(v, 1, Strstr(v, CRLF) - 1)

NextLine(s) == From(s, Strstr(s, CRLF) + 2)

HeadersEnd(s) == s = <<>> \/ IsPrefix(CRLF, s)

-----------------------------------------------------------------------------
(* ParsedRequest_printRequestLine, and ParsedRequest_requestLineLen.         *)
PrintedLine(r) ==
  <<"GET", " ">> \o r.protocol \o <<":", "/", "/">> \o r.host
    \o (IF r.port = <<>> THEN <<>> ELSE <<":">> \o r.port)
    \o r.path \o <<" ">> \o r.version \o CRLF

LineLen(r) ==
  1 + 1 + Len(r.protocol) + 3 + Len(r.host) + 1 + Len(r.version) + 2
    + (IF r.port = <<>> THEN 0 ELSE Len(r.port) + 1) + Len(r.path)

PrintedHeader(h) == h.key \o <<":", " ">> \o h.value \o CRLF
=============================================================================
