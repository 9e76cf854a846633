---------------------------- MODULE MCProxyCache ----------------------------
(* Instances of ProxyCache for TLC: two or three callers race for two or    *)
(* three keys.                                                              *)
EXTENDS ProxyCache

CONSTANTS k1, k2, k3, a1, a2, b1, c1

TwoKeys   == {k1, k2}
ThreeKeys == {k1, k2, k3}

(* A finder may answer k1 with two different decisions (say, before and     *)
(* after its script was replaced), other keys with one each.                *)
MCAnswers == {a1, a2, b1}
MCDecide  == [k \in TwoKeys \cup {NoKey} |->
                CASE k = k1 -> {a1, a2} [] k = k2 -> {b1} [] OTHER -> {b1}]

OneAnswerEach    == {a1, b1, c1}
OneDecisionEach  == [k \in ThreeKeys \cup {NoKey} |->
                       CASE k = k1 -> {a1} [] k = k2 -> {b1} [] OTHER -> {c1}]
=============================================================================
