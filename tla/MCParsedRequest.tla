--------------------------- MODULE MCParsedRequest ---------------------------
(* An instance of ParsedRequest for TLC.                                     *)
EXTENDS ParsedRequest

MCSymbols == {"cr", "lf", " ", ":", "/", "GET", "PUT", "HTTP/", "1",
              "p", "h", "8", "x", "k", "v", "w"}

Version == <<"HTTP/", "1", "1">>

(* A request of line s and header lines hs.                                  *)
Text(s, hs) == s \o CRLF \o FlattenSeq([i \in DOMAIN hs |-> hs[i] \o CRLF]) \o CRLF

GetLine(address) == <<"GET", " ">> \o address \o <<" ">> \o Version

(* Addresses put together from every way to write a protocol, a separator,   *)
(* a host with or without port, and a path; most of them are malformed.      *)
Addresses ==
  {pr \o se \o ho \o pa :
     pr \in {<<>>, <<"p">>, <<":", "/", "/", "/", "p">>},
     se \in {<<":", "/", "/">>, <<":">>, <<"/", "/">>, <<":", "/", "/", "/">>},
     ho \in {<<>>, <<"h">>, <<"h", "h", "h">>, <<"h", ":", "8">>, <<":", "8">>,
             <<"h", ":">>, <<"h", ":", ":", "8">>, <<":", ":">>},
     pa \in {<<>>, <<"/">>, <<"/", "x">>, <<"/", "/", "x">>, <<"/", "x", "/", ":">>}}

(* Request lines that are malformed before the address, or after it.         *)
OtherLines ==
  {<<>>, <<" ">>, <<"PUT", " ", "x", " ">> \o Version, <<"GET">>, <<"GET", " ", " ">>,
   <<"GET", " ", "p", ":", "/", "/", "h", "/">>,
   <<" ", "GET", " ", " ", "p", ":", "/", "/", "h", "/", " ">> \o Version,
   <<"GET", " ", "p", ":", "/", "/", "h", "/", " ", " ">> \o Version,
   <<"GET", " ", "p", ":", "/", "/", "h", "/", " ", "1">>,
   GetLine(<<"p", ":", "/", "/", "h", "/">>) \o <<" ", "x">>}

(* Header lines: well formed, without a space, without a value, with two     *)
(* colons, and without a colon.                                              *)
Lines == {<<"k", ":", " ", "v">>, <<"x", ":", " ", "w">>, <<"k", ":", "v">>, <<"k", ":">>,
          <<"x", ":", " ", "v", ":", "w">>, <<"v">>}

(* What follows the headers in the buffer: a colon with an end of a line     *)
(* behind it, without one, or at the very end; and no colon.                 *)
Behinds == {<<"x", ":", " ", "w">> \o CRLF, <<"x", ":", " ", "w">>, <<"x", ":">>, <<"v">>}

MCTexts ==
  {Text(GetLine(a), <<<<"k", ":", " ", "v">>, <<"k", ":", " ", "w">>>>) : a \in Addresses}
  \cup {Text(l, <<>>) : l \in OtherLines}
  \cup {Text(GetLine(<<"p", ":", "/", "/", "h", "/">>), hs) : hs \in SeqOf(Lines, 3)}
  \cup {GetLine(<<"p", ":", "/", "/", "h", "/">>) \o CRLF}
  \cup {Text(GetLine(<<"p", ":", "/", "/", "h", "/">>), hs) \o b :
          hs \in SeqOf(Lines, 2), b \in Behinds}

(* What follows a buffer may look like a version, or like the end of a line. *)
MCBeyond == {<<>>, Version, <<"w">> \o CRLF}

MCSetKeys == {<<"k">>, <<"h">>}
MCSetValues == {<<"v">>}
=============================================================================
