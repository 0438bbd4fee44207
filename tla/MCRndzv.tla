------------------------------- MODULE MCRndzv -------------------------------
(***************************************************************************)
(* Instances of RdsRndzv for TLC.                                          *)
(***************************************************************************)
EXTENDS RdsRndzv, TLC

\* a sends twice to b and once to c, past its cap of two.
\* r2 has room for one segment only, so m1 is truncated when they meet.
MCSrc == "m1" :> "a" @@ "m2" :> "a" @@ "m3" :> "a"
MCDst == "m1" :> "b" @@ "m2" :> "b" @@ "m3" :> "c"
MCOwner == "r1" :> "b" @@ "r2" :> "b" @@ "r3" :> "c"
MCNSeg == "m1" :> 2 @@ "m2" :> 1 @@ "m3" :> 1
MCRoom == "r1" :> 2 @@ "r2" :> 1 @@ "r3" :> 0
MCMatches == {<<"r1", "m1">>, <<"r1", "m2">>, <<"r2", "m1">>, <<"r2", "m2">>, <<"r3", "m3">>}
MCCong == {<<"b", "a">>}

\* a receives from b and from c, and each of the two paths back may be congested alone;
\* b sends twice, past a cap of one.
FanSrc == "m1" :> "b" @@ "m2" :> "c" @@ "m3" :> "b"
FanDst == "m1" :> "a" @@ "m2" :> "a" @@ "m3" :> "a"
FanOwner == "r1" :> "a" @@ "r2" :> "a"
FanNSeg == "m1" :> 1 @@ "m2" :> 1 @@ "m3" :> 1
FanRoom == "r1" :> 1 @@ "r2" :> 1
FanMatches == {<<"r1", "m1">>, <<"r2", "m2">>}
FanCong == {<<"a", "b">>, <<"a", "c">>}
FanBefore == {<<"m1", "m3">>}

\* Two ranks that each send twice, past a cap of one, and receive the first message.
XSrc == "m1" :> "a" @@ "m2" :> "a" @@ "m3" :> "b" @@ "m4" :> "b"
XDst == "m1" :> "b" @@ "m2" :> "b" @@ "m3" :> "a" @@ "m4" :> "a"
XOwner == "r1" :> "b" @@ "r3" :> "a"
XNSeg == "m1" :> 1 @@ "m2" :> 1 @@ "m3" :> 1 @@ "m4" :> 1
XRoom == "r1" :> 1 @@ "r3" :> 1
XMatches == {<<"r1", "m1">>, <<"r3", "m3">>}
\* Both sends before the receive.
XSendFirst == {<<"m3", "m4">>, <<"m4", "r1">>, <<"m1", "m2">>, <<"m2", "r3">>}
=============================================================================
