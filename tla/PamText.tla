------------------------------- MODULE PamText -------------------------------
(***************************************************************************)
(* What integration/pam.py and integration/kscreenlocker.py do to text: the *)
(* marked blocks in PAM service files, the stack written for kde-face, and  *)
(* the keys of INI files.  A text is a sequence of lines, as splitlines     *)
(* yields them; a line is a record of the words the code looks at.          *)
(***************************************************************************)
EXTENDS Naturals, Sequences, FiniteSets, SequencesExt

CONSTANTS WORD, MAX_INCLUDE_DEPTH

\* The words of the lines that are ours
OUR_WORDS == {"", "#", "BEGIN", "WALLET_BEGIN", "END", "OWN_HEADER", "no file",
              "auth", "-auth", "-session", "optional", "success=ok", "success=done",
              "success=done auth_err=die", "pam_linux_hello.so", "remember_password",
              "kwallet", "no_password", "ini", "Authenticators", "true",
              "[", "Greeter", "Authenticator", "Face", "Regular"}

ASSUME WordAssumption == OUR_WORDS \subseteq WORD
ASSUME MaxIncludeDepthAssumption == MAX_INCLUDE_DEPTH \in Nat

\* Words of a PAM line: its type with the leading dash, control, module, one
\* argument, and whether it ends in a newline (only the last one may not).
Line(type, ctl, mod, arg) ==
    [type |-> type, ctl |-> ctl, mod |-> mod, arg |-> arg, nl |-> TRUE]

LINE == [type : WORD, ctl : WORD, mod : WORD, arg : WORD, nl : BOOLEAN]

Unended(line) == [line EXCEPT !.nl = FALSE]

MODULE_SO == "pam_linux_hello.so"

BEGIN        == Line("#", "", "BEGIN", "")
WALLET_BEGIN == Line("#", "", "WALLET_BEGIN", "")
END          == Line("#", "", "END", "")
BEGINS       == {BEGIN, WALLET_BEGIN}

INSERT_LINE          == Line("auth", "success=done", MODULE_SO, "")
LOGIN_INSERT_LINE    == Line("auth", "success=done auth_err=die", MODULE_SO, "")
WALLET_HOLD_LINE     == Line("-auth", "optional", MODULE_SO, "remember_password")
WALLET_REMEMBER_LINE == Line("-session", "optional", MODULE_SO, "remember_password")
WALLET_RELEASE_LINE  == Line("-auth", "optional", MODULE_SO, "kwallet")
OWN_STACK_LINE       == Line("auth", "success=ok", MODULE_SO, "no_password")
OWN_HEADER           == Line("#", "", "OWN_HEADER", "")

\* The checks a face match must not skip; faillock is one with preauth only.
GATES == {"pam_faillock.so", "pam_nologin.so", "pam_access.so"}
OWN_STACK_DROP == {"pam_fprintd.so", "pam_permit.so"}

------------------------------------------------------------------------------
\* The elements of a sequence at the positions in kept, in their order.
Pick(s, kept) ==
    LET acc[i \in 0..Len(s)] == IF i = 0 THEN <<>>
                                ELSE IF i \in kept THEN Append(acc[i - 1], s[i])
                                ELSE acc[i - 1]
    IN  acc[Len(s)]

\* strip(): the comparisons of whole lines do not see the line's end.
Stripped(line) == [line EXCEPT !.nl = TRUE]

Kind(line) == CASE line.type = "-auth" -> "auth"
                [] line.type = "-session" -> "session"
                [] OTHER -> line.type

module_of(line) == IF line.type = "#" THEN "" ELSE line.mod

is_auth_line(line) ==
    \/ Kind(line) = "auth"
    \/ Kind(line) = "@include" /\ module_of(line) = "common-auth"

AuthIndexes(text) == {i \in DOMAIN text : is_auth_line(text[i])}

has_block(text, begin) == \E i \in DOMAIN text : Stripped(text[i]) = begin

ours(line) == module_of(line) = MODULE_SO

\* A text whose last line lacks its newline gets one.
Ended(text) ==
    IF text = <<>> THEN text ELSE [text EXCEPT ![Len(text)].nl = TRUE]

is_gate(line) ==
    /\ Kind(line) = "auth"
    /\ line.ctl \in {"required", "requisite"}
    /\ line.mod \in GATES
    /\ line.mod = "pam_faillock.so" => line.arg = "preauth"

\* The copy of a check: the dash lets a missing module be skipped.
gate_line(line) == Line("-auth", line.ctl, line.mod, line.arg)

Splice(text, i, block) ==
    SubSeq(text, 1, i - 1) \o block \o SubSeq(text, i, Len(text))

\* Each of the three insertions needs an auth line (else PamError).
CanInsert(text) == AuthIndexes(text) # {}

Block(begin, lines) == <<begin>> \o lines \o <<END>>

insert_block(text, gates, line) ==
    IF has_block(text, BEGIN) THEN text
    ELSE Splice(Ended(text), Min(AuthIndexes(text)),
                  Block(BEGIN, Append(gates, line)))

insert_wallet_release(text) ==
    IF has_block(text, WALLET_BEGIN) THEN text
    ELSE Splice(text, Min(AuthIndexes(text)),
                  Block(WALLET_BEGIN, <<WALLET_RELEASE_LINE>>))

insert_wallet_remember(text) ==
    IF has_block(text, WALLET_BEGIN) THEN text
    ELSE Splice(Ended(text), Max(AuthIndexes(text)) + 1,
                  Block(WALLET_BEGIN, <<WALLET_HOLD_LINE>>))
         \o Block(WALLET_BEGIN, <<WALLET_REMEMBER_LINE>>)

\* The loop of remove_block over one line: `block' holds what followed a
\* begin marker that has not met its end yet, and would stay if none came.
RemoveStep(begins, acc, line) ==
    IF ~acc.open
    THEN IF Stripped(line) \in begins THEN [acc EXCEPT !.open = TRUE]
         ELSE [acc EXCEPT !.out = Append(@, line)]
    ELSE IF Stripped(line) = END THEN [acc EXCEPT !.open = FALSE, !.block = <<>>]
         ELSE IF ours(line) THEN acc ELSE [acc EXCEPT !.block = Append(@, line)]

Removal(text, begins) ==
    LET acc[i \in 0..Len(text)] ==
          IF i = 0 THEN [open |-> FALSE, block |-> <<>>, out |-> <<>>]
          ELSE RemoveStep(begins, acc[i - 1], text[i])
    IN  acc

remove_block(text, begins) ==
    LET end == Removal(text, begins)[Len(text)]
    IN  end.out \o end.block

remove_legacy_lines(text) == Pick(text, {i \in DOMAIN text : ~ours(text[i])})

------------------------------------------------------------------------------
\* kde-face: auth lines of kde-fingerprint are kept unless they are the
\* fingerprint's or unconditional; the first one not kept becomes ours.
KeptOfStack(line, from_fingerprint) ==
    /\ from_fingerprint
    /\ Kind(line) = "auth"
    /\ line.ctl \notin {"include", "substack"}       \* its word ends in .so
    /\ line.mod \notin OWN_STACK_DROP

OwnStep(from_fingerprint, acc, line) ==
    IF ~is_auth_line(line) \/ KeptOfStack(line, from_fingerprint)
    THEN [acc EXCEPT !.body = Append(@, Stripped(line))]
    ELSE IF acc.placed THEN acc
         ELSE [body |-> Append(acc.body, OWN_STACK_LINE), placed |-> TRUE]

OwnBody(source, from_fingerprint) ==
    LET acc[i \in 0..Len(source)] ==
          IF i = 0 THEN [body |-> <<>>, placed |-> FALSE]
          ELSE OwnStep(from_fingerprint, acc[i - 1], source[i])
    IN  acc[Len(source)]

build_own_stack(source, from_fingerprint) ==
    <<OWN_HEADER>> \o OwnBody(source, from_fingerprint).body

CanBuild(source, from_fingerprint) == OwnBody(source, from_fingerprint).placed

------------------------------------------------------------------------------
\* The auth lines of a stack, includes followed: depth first, each file once.
\* `files' gives the text PAM uses for a name (_find), <<>> for none.

included(line) ==
    IF \/ Kind(line) = "@include"
       \/ Kind(line) = "auth" /\ line.ctl \in {"include", "substack"}
    THEN line.mod ELSE ""

\* What the walk has so far: the auth lines and the files it has entered.
WALK == [lines : Seq(LINE), seen : SUBSET WORD]

Enters(files, a, line) == included(line) \in (DOMAIN files \ a.seen) \ {""}

\* One line; `deeper' walks an included text where levels are left for it.
WalkLine(files, levels, deeper, a, line) ==
    LET name == included(line)
    IN  IF levels > 0 /\ Enters(files, a, line)
        THEN deeper[files[name]][[a EXCEPT !.seen = @ \cup {name}]]
        ELSE IF name = "" /\ Kind(line) = "auth"
        THEN [a EXCEPT !.lines = Append(@, line)] ELSE a

WalkText(files, levels, deeper, text, start) ==
    LET acc[i \in 0..Len(text)] ==
          IF i = 0 THEN start ELSE WalkLine(files, levels, deeper, acc[i - 1], text[i])
    IN  acc[Len(text)]

Walk(files, levels, deeper) ==
    [text \in Seq(LINE) |-> [start \in WALK |->
       WalkText(files, levels, deeper, text, start)]]

Walks(files) ==
    LET walk[d \in 0..MAX_INCLUDE_DEPTH] ==
          Walk(files, d, IF d = 0 THEN <<>> ELSE walk[d - 1])
    IN  walk

auth_lines(files, text) ==
    Walks(files)[MAX_INCLUDE_DEPTH][text][[lines |-> <<>>, seen |-> {}]].lines

\* Each check once, at its first place.
GateStep(acc, line) ==
    IF is_gate(line) /\ ~Contains(acc, gate_line(line)) THEN Append(acc, gate_line(line))
    ELSE acc

GateCopies(lines) ==
    LET acc[i \in 0..Len(lines)] == IF i = 0 THEN <<>> ELSE GateStep(acc[i - 1], lines[i])
    IN  acc[Len(lines)]

\* Mutant: includes are not followed.
gates_shallow(files, text) == GateCopies(remove_block(text, BEGINS))

gates(files, text) == GateCopies(auth_lines(files, remove_block(text, BEGINS)))

\* _includes: a service that pulls in another one's auth stack.
includes(text, other) ==
    \E i \in DOMAIN text : /\ Kind(text[i]) = "auth"
                           /\ text[i].ctl \in {"include", "substack"}
                           /\ text[i].mod = other

------------------------------------------------------------------------------
\* INI files: a line is <<"[", group>>, or <<key, value>>, or a comment.
IniLine(type, word) == <<type, word>>

INI == WORD \X WORD

IsGroup(line) == line[1] = "["

\* The group each line of an INI file is in, "" before the first one.
GroupAt(lines, i) ==
    LET heads == {j \in 1..i : IsGroup(lines[j])}
    IN  IF heads = {} THEN "" ELSE lines[Max(heads)][2]

KeysAt(lines, group, key) ==
    {i \in DOMAIN lines : /\ ~IsGroup(lines[i])
                          /\ lines[i][1] = key
                          /\ GroupAt(lines, i) = group}

\* ini_group(text, group).get(key) and _read_key: the last entry counts.
LastValue(lines, group, key) ==
    LET S == KeysAt(lines, group, key)
    IN  IF S = {} THEN "none" ELSE lines[Max(S)][2]

\* read_choice: the first entry counts.
read_choice(lines) ==
    LET S == KeysAt(lines, "Greeter", "Authenticator")
    IN  IF S = {} THEN "none" ELSE lines[Min(S)][2]

Greeters(lines) == {i \in DOMAIN lines : IsGroup(lines[i]) /\ lines[i][2] = "Greeter"}

\* set_choice looks no further than the end of the first [Greeter].
set_choice(lines, value) ==
    LET entry == IniLine("Authenticator", value)
        heads == Greeters(lines)
        after == {i \in DOMAIN lines :
                     /\ heads # {} /\ i > Min(heads) /\ IsGroup(lines[i])}
        inGroup == {i \in KeysAt(lines, "Greeter", "Authenticator") :
                       after = {} \/ i < Min(after)}
    IN  IF inGroup # {} THEN [lines EXCEPT ![Min(inGroup)] = entry]
        ELSE IF after # {} THEN Splice(lines, Min(after), <<entry>>)
        ELSE IF heads # {} THEN Append(lines, entry)
        ELSE lines \o <<IniLine("[", "Greeter"), entry>>

\* _forget_main_autologin: every entry of [Autologin] that names the user.
forget_user(lines, user) ==
    Pick(lines, {i \in DOMAIN lines : ~(/\ i \in KeysAt(lines, "Autologin", "User")
                                       /\ lines[i][2] = user)})
==============================================================================
