----------------------------- MODULE MCIntake -----------------------------
EXTENDS Intake

MCUpper == {"T", "NOOP", "SELECT", "LIST", "LOGIN", "RENAME", "COPY", "STATUS", "APPEND",
            "STORE", "SEARCH", "FETCH", "AUTHENTICATE", "UID", "BODY", "PEEK", "PLAIN", "XYZZY"}
MCUpperCase == "noop" :> "NOOP"

(* Lines that are executed, and lines that are not.                        *)
Good(name, arguments) == Line(<<"T">>, FALSE, << <<name>> >> \o arguments, {}, CRLF, TRUE)
Bad(text) == Line(<<>>, FALSE, <<text>>, {}, CRLF, FALSE)

SP == <<" ">>
a == <<"a">>

Noop == Good("noop", <<>>)
LoginWithLiterals ==
  Line(<<"T">>, FALSE, << <<"LOGIN">>, SP, <<CR, LF, "b">>, SP, <<"\"">> >>, {3, 5}, CRLF, TRUE)
StatusWithLiteral ==
  Line(<<"T">>, FALSE, << <<"STATUS">>, SP, <<CR, LF>>, SP, <<"(">>, a, <<")">> >>, {3}, CRLF, TRUE)
AppendLiteral(flags) ==
  Line(<<"T">>, FALSE, << <<"APPEND">>, SP, a, SP, <<"(">> >> \o flags \o << <<")">>, SP, <<"a", LF>> >>,
       {8 + Len(flags)}, CRLF, Len(flags) < 3)
FetchByUID ==
  Line(<<"T">>, TRUE, << <<"FETCH">>, SP, <<"1">>, SP, <<"(">>, <<"BODY">>, <<"[", "a", "]">>, SP, a, <<")">> >>,
       {}, CRLF, TRUE)
FetchPartial ==
  Good("FETCH", <<SP, <<"*">>, SP, <<"BODY", ".", "PEEK">>, <<"[", "]">>, <<"<", "0", ".", "1", ">">> >>)
Store == Good("STORE", <<SP, <<"1", ":", "*">>, SP, a, SP, <<"(">>, <<"\\", "a">>, <<")">> >>)
Search == Good("SEARCH", <<SP, <<"(">>, a, <<")">>, SP, <<"1">> >>)
Authenticate == Line(<<"T">>, FALSE, << <<"AUTHENTICATE">>, SP, <<"PLAIN">>, CRLF>>, {}, <<>>, TRUE)

SequentialScripts ==
  { <<LoginWithLiterals, Noop>>, <<StatusWithLiteral, Search, Noop>>,
    <<AppendLiteral(<< <<"\\", "a">> >>), Noop>>,
    <<AppendLiteral(<< <<"\\", "a">>, SP, <<"\\", "a">> >>)>>,
    <<FetchByUID, FetchPartial>>, <<Store, Good("COPY", <<SP, <<"1">>, SP, a>>), Authenticate, Noop>>,
    <<Good("SELECT", <<SP, <<"\"", "a", "\"">> >>), Good("LIST", <<SP, a, SP, <<"%">> >>)>>,
    <<Good("RENAME", <<SP, a, SP, a>>), Line(<<"T">>, FALSE, << <<"XYZZY">> >>, {}, CRLF, TRUE)>>,
    <<[Search EXCEPT !.ending = CRLF \o CRLF]>>,
    <<[Search EXCEPT !.ending = CRLF \o <<"a">> \o CRLF]>>,
    <<Bad(<<>>), Noop>>,
    <<Bad(<<"T", " ", "COPY", " ", "0", " ", "a">>), Noop>>,
    <<Bad(<<"T", " ", "FETCH", " ", "1", " ", "(", "BODY", "[", "]", "<", "0", ".", "1", ">", ")">>), Noop>>,
    <<Bad(<<"T", " ", "LOGIN", " ", "a", " ", "a", " ">>), Bad(<<"T", " ", "NOOP", " ">>)>>,
    <<Bad(<<"(">>), Bad(<<>>)>>,
    <<Bad(<<"T">>)>>, <<Bad(<<"T", " ">>)>>,
    <<Bad(<<"T", " ", "LOGIN", " ", "{", "}">>), Bad(<<>>)>> }

(* The response of a SASL exchange, as a line of its own.                  *)
Response == Line(<<>>, FALSE, << <<"a">>, CRLF>>, {}, <<>>, FALSE)
ExchangeScripts == { <<Authenticate, Response>> }

(* Two commands of a client that does not wait.                            *)
PipelinedScripts == { <<Noop, Noop>> }
=============================================================================
