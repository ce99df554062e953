---------------------------- MODULE MCPipeline ----------------------------
(* Small graphs for Pipeline. *)
EXTENDS Pipeline

SourceLink(port, n) == [type |-> "SourceLink", src |-> port, dst |-> n, num |-> FrameNum]
InternalLink(m, n, k) == [type |-> "InternalLink", src |-> m, dst |-> n, num |-> k]
SinkLink(n, k) == [type |-> "SinkLink", src |-> n, dst |-> "SinkBuffer", num |-> k]

\* A virtual node feeds two others, which are merged by a fourth; one of the two
\* has a sink of its own.
DiamondNodes == {"V", "A", "B", "C"}
DiamondLinks ==
  << SourceLink(1, "V"), InternalLink("V", "A", 1), InternalLink("V", "B", 1),
     InternalLink("A", "C", 1), InternalLink("B", "C", 1), SinkLink("B", 1), SinkLink("C", 1) >>
DiamondMask == [n \in DiamondNodes |-> IF n = "V" THEN {"VIRTUAL"} ELSE {}]
DiamondFailing == {"A", "B", "C"}

\* Frame by frame, a virtual node passes each image on to a node that gives its
\* results, one by one, to a third.
ChainNodes == {"V", "A", "B"}
ChainLinks ==
  << SourceLink(1, "V"), InternalLink("V", "A", FrameNum), InternalLink("A", "B", FrameNum),
     SinkLink("B", 1) >>
ChainMask == [n \in ChainNodes |->
  CASE n = "V" -> {"SIGFRAME", "VIRTUAL", "SIGRELEASEINPUT"}
    [] n = "A" -> {"SIGFRAME", "SIGGETOUTPUT", "SIGRELEASEINPUT", "SIGRELEASEOUTPUT"}
    [] n = "B" -> {"SIGFRAME", "SIGRELEASEINPUT"}]
ChainFailing == {"B"}

\* Two frame-by-frame nodes, each frame of the first goes on to the second.
PairNodes == {"A", "B"}
PairLinks == << SourceLink(1, "A"), InternalLink("A", "B", FrameNum), SinkLink("B", 1) >>
PairMask == [n \in PairNodes |->
  IF n = "A" THEN {"SIGFRAME", "SIGGETOUTPUT", "SIGRELEASEINPUT", "SIGRELEASEOUTPUT"}
  ELSE {"SIGFRAME", "SIGRELEASEINPUT"}]

OnePort == {1}
TwoPorts == {1, 2}
None == {}
Forced == {FALSE}
=============================================================================
