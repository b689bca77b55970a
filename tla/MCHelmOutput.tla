---------------------------- MODULE MCHelmOutput ----------------------------
(***************************************************************************)
(* Checks the output classification of HelmOutput over every helm output  *)
(* of up to MaxLines lines drawn from lines helm 2 really prints.  The    *)
(* output is chosen in Init and never changes: each state is one input.   *)
(***************************************************************************)
EXTENDS HelmOutput

VARIABLE out

(* Lines of helm 2 install output: its failure line starts with "Error:", *)
(* a hook warning carries the word later in the line, and the status      *)
(* lines of a deployed or failed release.                                 *)
OutputLines ==
    { "Error: release web failed: namespaces not found",
      "NAME:   web",
      "STATUS: DEPLOYED",
      "STATUS: FAILED",
      "hook web-pre: Error: job failed" }

MaxLines == 3

Init == out \in BoundedSeq(OutputLines, MaxLines)

Next == UNCHANGED out

Spec == Init /\ [][Next]_out

(* The detail appended to a failed install's message is the first line of *)
(* helm's output that contains "Error", as the spec's Output Interpreter  *)
(* says; installApplication picks it with  if(line.find("Error")).        *)
ErrorDetailIsFirstErrorLine ==
    ~Deployed(out) => ErrorDetailLine(out) = SpecErrorDetailLine(out)

=============================================================================
