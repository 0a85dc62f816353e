---------------------------- MODULE MCSessionDir ----------------------------
(***************************************************************************)
(* Small instances of SessionDir.  The runs differ either in what they     *)
(* walk or in where they find the bus.                                     *)
(***************************************************************************)
EXTENDS SessionDir

TwoCaps == <<"spa", "pool">>
Salted  == <<"cell", "pool", "spa", "pool">>

Unset == [k \in Keys |-> None]
Tcp(h, p) == [host |-> h, port |-> p]

Plain == [catalog |-> None, only |-> {}, from |-> None, skip |-> {},
          tcp |-> None, serial |-> None, file |-> "bus.hex", shell |-> Unset,
          dotenv |-> Unset]

Walks == {
    Plain,
    [Plain EXCEPT !.from = "pool"],
    [Plain EXCEPT !.skip = {"spa"}],
    [Plain EXCEPT !.catalog = Salted, !.only = {"pool"}],
    [Plain EXCEPT !.catalog = Salted, !.from = "spa", !.only = {"pool"}],
    [Plain EXCEPT !.catalog = Salted, !.from = "cell"],
    [Plain EXCEPT !.catalog = Failed],
    [Plain EXCEPT !.catalog = <<"spa", Malformed>>],
    [Plain EXCEPT !.only = {"cell"}]}

(* One capability, skipped by configuration, from every bus.               *)
Brief == [Plain EXCEPT !.only = {"spa"}, !.skip = {"spa"}, !.file = None]

ShellVariables ==
    {[transport |-> t, device |-> None, host |-> h, port |-> p] :
        t \in {None, Blank, "tcp", "usb"}, h \in {None, Blank}, p \in {None, NotANumber}}

DotenvLines ==
    {[transport |-> t, device |-> d, host |-> "box", port |-> None] :
        t \in {None, "tcp"}, d \in {None, "tty"}}

BusFlags == {
    Brief,
    [Brief EXCEPT !.tcp = Blank], [Brief EXCEPT !.tcp = Tcp("ew", None)],
    [Brief EXCEPT !.tcp = Tcp(Blank, 1)], [Brief EXCEPT !.tcp = Tcp("ew", NotANumber)],
    [Brief EXCEPT !.serial = Blank], [Brief EXCEPT !.serial = "tty"],
    [Brief EXCEPT !.file = "none.hex"]}

Buses == {[b EXCEPT !.shell = s, !.dotenv = d] :
              b \in BusFlags, s \in ShellVariables, d \in DotenvLines}

AllAnswers ==
    {<<"done", FALSE>>, <<"skipped", FALSE>>, <<"skipped", TRUE>>, <<"not_run", TRUE>>}

SomeLaunches == Walks \union Buses

=============================================================================
