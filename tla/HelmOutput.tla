------------------------------ MODULE HelmOutput ------------------------------
(***************************************************************************)
(* The Output Interpreter of src/src/ApplicationCommands.cpp: how the      *)
(* handlers classify the text that runCommand returns from helm.  The     *)
(* text is a sequence of lines (string_split_lines); every test the code  *)
(* makes on it is a std::string::find, modelled here by what it does: the *)
(* 0-based index of the first occurrence, or npos.                        *)
(***************************************************************************)
EXTENDS Naturals, Sequences, SequencesExt

(* std::string::npos is SIZE_MAX; all that matters here is that it is     *)
(* nonzero and larger than every index, so a value TLC can hold stands    *)
(* for it.                                                                *)
NPos == 2147483647

(* s.find(p): the 0-based position of the first occurrence of p in s.     *)
Find(s, p) ==
    LET at == {i \in 0..(Len(s) - Len(p)) : SubSeq(s, i + 1, i + Len(p)) = p}
    IN  IF at = {} THEN NPos ELSE Min(at)

HasSubstring(s, p) == Find(s, p) # NPos

(* Go's < on release names, which compares bytes: the characters a name  *)
(* can hold, in ASCII order.  helm 2 sorts the rows of helm list by it.   *)
NameChars == "-0123456789;abcdefghijklmnopqrstuvwxyz"
CharRank(c) == CHOOSE i \in 1..Len(NameChars) : SubSeq(NameChars, i, i) = c
NameBefore(a, b) ==
    LET differ == {i \in 1..Min({Len(a), Len(b)}) : SubSeq(a, i, i) # SubSeq(b, i, i)}
    IN  IF differ = {} THEN Len(a) < Len(b)
        ELSE CharRank(SubSeq(a, Min(differ), Min(differ)))
               < CharRank(SubSeq(b, Min(differ), Min(differ)))

(* runCommand hands its string to the shell unquoted: an argument is one  *)
(* word to the shell only when it holds none of the characters the shell  *)
(* acts on.                                                               *)
ShellMetachars == {";", "&", "|", "$", "`", " ", "'", "<", ">"}
ShellSafe(s) == \A c \in ShellMetachars : ~HasSubstring(s, c)

(* commandResult.find(p) != npos on the whole output: none of the markers *)
(* the code looks for spans a line break.                                 *)
OutputHas(out, p) == \E i \in 1..Len(out) : HasSubstring(out[i], p)

(* fetchApplicationConfig: any "Error" in helm inspect output is a 404.   *)
InspectNotFound(out) == OutputHas(out, "Error")

(* installApplication: the install succeeded iff the output has the       *)
(* deployed marker.                                                       *)
Deployed(out) == OutputHas(out, "STATUS: DEPLOYED")

(* installApplication's choice of the line appended to the error message: *)
(* the first line for which  if(line.find("Error"))  is true, i.e. whose  *)
(* find result converts to a true bool (is nonzero).  0 means none, and   *)
(* the generic message is sent alone.                                     *)
ErrorDetailLine(out) == SelectInSeq(out, LAMBDA l : Find(l, "Error") # 0)

(* The reference the spec gives (section 4.4): the first line that        *)
(* contains the error marker, 0 when there is none.                       *)
SpecErrorDetailLine(out) == SelectInSeq(out, LAMBDA l : HasSubstring(l, "Error"))

=============================================================================
