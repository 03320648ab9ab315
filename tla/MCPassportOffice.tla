--------------------------- MODULE MCPassportOffice ---------------------------
(* Parts of an office for TLC: one for each type of clerk, as its customers   *)
(* find it, and one at the opening with two clerks of a type; and three of    *)
(* the programs for kernel threads, one of them with a senator.               *)
EXTENDS KernelOffice, TLC

Part(clerks, behind, at) == [types |-> clerks, reached |-> behind, clerks |-> at]
Filed == {"applicationIsFiled", "likesPicture"}

Opening == Part(0 :> "ApplicationClerk" @@ 1 :> "ApplicationClerk", {}, "choose")
Pictures == Part(0 :> "PictureClerk", {}, "choose")
Passports == Part(0 :> "PassportClerk", Filed, "break")
Desk == Part(0 :> "Cashier", Filed \cup {"hasCertification"}, "break")
Counters == {Opening, Pictures, Passports, Desk}
OnlyDesk == {Desk}

\* The kernel's clerks have numbers of their own, from first on.
KernelPart(program, first, counts, behind, at) ==
  [version |-> program, clerkArray |-> counts, reached |-> behind, clerks |-> at,
   first |-> first, types |-> ClerkThreads(first, counts)]
KernelParts ==
  {KernelPart("threadtest", 10, <<1, 1, 0, 0>>, {}, "choose"),
   KernelPart("threadtest", 12, <<0, 0, 1, 1>>, Filed, "choose"),
   KernelPart("properTestfile", 12, <<0, 0, 1, 1>>, Filed, "top")}

\* OfficeFairness, of the user program.
InUserProgram(step) == UserProgram /\ step /\ UNCHANGED kernelVars
PartsFairness ==
  /\ WF_officeKernelVars(InUserProgram(ManagerStep))
  /\ \A k \in AllClerks : SF_officeKernelVars(InUserProgram(k \in Clerks /\ ClerkStep(k)))
  /\ \A c \in Customers : SF_officeKernelVars(InUserProgram(CustomerStep(c)))

PartsSpec == ProgramsSpec /\ PartsFairness

=============================================================================
