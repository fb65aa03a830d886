---------------------------- MODULE MCProviders ----------------------------
(* Small instances of the provider centre and of its codec for TLC.  They  *)
(* share no state; in a behaviour only the one in focus takes steps.       *)
EXTENDS ProviderCenter, ProviderCodec, TLC

VARIABLE focus

Caps(features, output, window) == [features |-> features, output |-> output, window |-> window]
ProviderNamed(name, priority, models, default, own, other) ==
  [name |-> name, priority |-> priority, models |-> models, default |-> default,
   own |-> own, other |-> other]

\* p1 serves anything until it is registered anew as a small model; p2 streams; p3 comes
\* before both and knows one model.
MCRegistrations ==
  {ProviderNamed("p1", 0, {}, NoName, << >>, {}),
   ProviderNamed("p1", 2, {}, "m", "m" :> Caps({Streaming}, 1, 2), {}),
   ProviderNamed("p2", 1, {"m", "n"}, "n", << >>, {Caps({Streaming, "tools"}, 2, 0)}),
   ProviderNamed("p3", 2, {"m"}, NoName, "m" :> Caps({"tools"}, 0, 0), {Caps({}, 0, 0)})}

NoEstimate == [m \in Meters |-> 0]
NoLimits == [m \in Meters |-> None]
Request(provider, model, needs, output, total) ==
  [provider |-> provider, model |-> model, needs |-> needs, output |-> output,
   estimate |-> [NoEstimate EXCEPT !["total"] = total], limit |-> NoLimits]
MCRequests == {Request(NoName, "m", {}, 2, 0), Request("p2", NoName, {"tools"}, 0, 3),
               [Request(NoName, NoName, {}, 0, 0) EXCEPT !.limit["cost"] = 1]}

MCAlphabet == <<"p1", "p2", "p3">>
MCLimits == [cost |-> 3, input |-> None, output |-> None, total |-> 4]
MCUsages == {NoUsage, [NoUsage EXCEPT !["cost"] = 2, !["total"] = 1]}
MCSymmetry == Permutations(Tasks)

MCInit == ProviderInit /\ CodecInit /\ focus \in {"centre", "codec"}

MCNext ==
  \/ focus = "centre" /\ ProviderNext /\ UNCHANGED <<stream, focus>>
  \/ focus = "codec" /\ CodecNext /\ UNCHANGED <<providerVars, focus>>

MCSpec == MCInit /\ [][MCNext]_<<providerVars, stream, focus>>
=============================================================================
