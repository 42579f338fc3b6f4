-------------------------- MODULE MCConferenceMerge --------------------------
(* Instances of ConferenceMerge: the configurations of carriers.           *)
EXTENDS ConferenceMerge, TLC

CallSymmetry == Permutations(Calls)

\* The default configuration, and the other two flows of a merge.
Default == [flow |-> "SUBSCRIBE_AND_REFER", referType |-> "REFER_SINGLE",
            referSub |-> TRUE, subscribe |-> "OUT_OF_DIALOG", trace |-> TRUE]
ReferFirst == [Default EXCEPT !.flow = "REFER_AND_SUBSCRIBE",
                              !.subscribe = "IN_DIALOG"]
NotifyFirst == [ReferFirst EXCEPT !.flow = "SUBSCRIBE_AND_NOTIFY_REFER"]
ReferFirstOut == [ReferFirst EXCEPT !.subscribe = "OUT_OF_DIALOG"]

\* Carriers without the event package, without the subscription of a REFER,
\* and without a REFER for a merge.
Alone == [Default EXCEPT !.subscribe = "NOT_SUPPORT"]
Unnotified == [Alone EXCEPT !.referSub = FALSE]
Copied == [Alone EXCEPT !.referType = "COPYCONTROL"]

MCConfigs ==
    {Default, ReferFirst, NotifyFirst, ReferFirstOut, Alone, Unnotified, Copied}

\* What the user asks for after the merge: a drop, a join or a merge of one
\* more call, two of them where the event package adds no interleavings; with
\* the event package a drop.
MCMaxCommands ==
    [c \in MCConfigs |-> CASE c = Alone -> 2
                           [] c \in {ReferFirst, Unnotified, Copied} -> 1
                           [] OTHER -> 0]
MCMaxAdditions ==
    [c \in MCConfigs |-> IF c \in {Alone, Unnotified, Copied} THEN 1 ELSE 0]

\* What the code recovers from.  A version of the event package is missed where
\* no command follows: the last line of CommandIsAwaited's comment.
MCFaults ==
    [c \in MCConfigs |-> CASE c = Default -> {"StartConference", "ReferInvite"}
                           [] c = ReferFirstOut -> {"ReferInvite", "VersionGap"}
                           [] OTHER -> {"ReferInvite"}]

\* A build that does not trace.
Untraced == {[Default EXCEPT !.trace = FALSE]}
UntracedMaxCommands == [c \in Untraced |-> 0]
UntracedMaxAdditions == [c \in Untraced |-> 0]
UntracedFaults == [c \in Untraced |-> {"VersionGap"}]
=============================================================================
