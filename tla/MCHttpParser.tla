---------------------------- MODULE MCHttpParser ----------------------------
(* HttpParser with messages of each kind. *)
EXTENDS HttpParser

Get == <<"GET", "SP", "/", "SP", "HTTP/1.1", "CR", "LF">>
End == <<"CR", "LF">>
Host == <<"host", ":", "SP", "x", "CR", "LF">>
Length(value) == <<"content-length", ":">> \o value \o <<"LF">>

Plain == Get \o Host \o End
WithBody == Get \o Length(<<"2">>) \o End \o <<"x", "LF">>
ShortBody == Get \o Length(<<"SP", "2">>) \o End \o <<"x">>
LongBody == Get \o Length(<<"3">>) \o End \o <<"x", "x", "x">>
OverflowingLength == Get \o Length(<<"1", "0", "0">>) \o End
TwoLengths == Get \o Length(<<"2">>) \o Length(<<"1">>) \o End \o <<"x">>
ThreeNames == Get \o Host \o Length(<<"0">>) \o <<"x", ":", "LF">> \o End
NoColon == Get \o <<"x", "LF">> \o End
NoVersion == <<"GET", "SP", "/", "LF">>
OtherMethod == <<"x", "SP", "/", "SP", "HTTP/1.0", "LF">> \o End
LongLine == Get \o <<"host", ":", "x", "x", "x", "x", "x", "LF">> \o End

Closing == Get \o <<"connection", ":", "SP", "close", "LF">> \o End
Staying == <<"POST", "SP", "/", "SP", "HTTP/1.0", "LF", "connection", ":", "keep-alive", "LF">> \o End

AllMessages == {Plain, WithBody, ShortBody, LongBody, OverflowingLength, TwoLengths,
                ThreeNames, NoColon, NoVersion, OtherMethod, LongLine,
                Closing, Staying}

=============================================================================
