----------------------------- MODULE UserTable -----------------------------
(***************************************************************************)
(* The table of users (src/usrm/usrm.c) and the threads that change it:    *)
(* the web pages (cgi_user_1.c), the p2p link (p2p_json_parse.c) and the   *)
(* reset key.  After a change the whole table is written to a file in      *)
(* memory, read back, and written over the old one on the flash behind an  *)
(* MD5 sum; nothing of this is locked.  The power may fail at any time.    *)
(*                                                                         *)
(* A call that changes the table is two steps: what it checks first, and   *)
(* the change.  Whatever happens to the table between the two, or while    *)
(* the table is changed or stored, is recorded as a clash.                 *)
(***************************************************************************)
EXTENDS Naturals, FiniteSets

CONSTANTS
    Webs, P2ps, \* the connections of either kind, each with a thread of its own
    Houses,     \* USR_MANGER_USER_HOURSE_BACKLOG
    Admin,      \* the name of the factory's user
    OtherNames,
    NoPassword, \* the empty password
    OtherPasswords,
    MaxChanges, \* bound: the changes of the table
    MaxCrashes  \* bound: the times the power fails

Main == "main"
Clients == Webs \cup P2ps \cup {Main}

Slots == 1..Houses
Names == {Admin} \cup OtherNames
Passwords == {NoPassword} \cup OtherPasswords

ASSUME TableAssumption ==
    /\ Webs \cap P2ps = {} /\ Main \notin Webs \cup P2ps
    /\ Houses \in Nat \ {0}
    /\ MaxChanges \in Nat /\ MaxCrashes \in Nat
    /\ Admin \notin OtherNames
    /\ "" \notin Names          \* a user of that name is one that no section told of
    /\ NoPassword \notin OtherPasswords

VARIABLES
    house,      \* the users; Empty: no house card
    nUser,      \* n_user
    at,         \* where each client is
    who,        \* each client's handle: the house of the user it logged in as
    what,       \* what_name, of the user that each client is about to delete or edit
    count,      \* n_user as each store has read it
    temp,       \* /tmp/usrm.ini
    buf,        \* what each store has read back from it
    flash,      \* /dev/mtdblock2
    up,         \* USRM_init has returned
    kept,       \* history: the table as it was stored, or loaded, last
    clashed,    \* history: two calls that change or store the table have overlapped
    changes, crashes    \* history: how often, for the bounds

vars == <<house, nUser, at, who, what, count, temp, buf, flash, up, kept, clashed,
          changes, crashes>>
table == <<house, nUser>>
files == <<count, temp, buf, flash>>
history == <<kept, clashed, changes, crashes>>

\* The handle of the user given to USRM_init has no house.
Super == 0

User == [name : Names, password : Passwords, admin : BOOLEAN]
Empty == [name |-> "", password |-> NoPassword, admin |-> FALSE]

\* What memory_from_ini makes of a section that is not there.
Ghost == [name |-> "", password |-> NoPassword, admin |-> TRUE]

Carded(h) == {i \in Slots : h[i] # Empty}
Free == [i \in Slots |-> Empty]

\* storage_reset.
Factory == [Free EXCEPT ![1] = [name |-> Admin, password |-> NoPassword, admin |-> TRUE]]

\* A file: its version and MD5 sum are right, the count, and the users with a section.
Blank == [version |-> FALSE, md5 |-> TRUE, n |-> 0, house |-> Free]
FileOf(n, h) == [version |-> TRUE, md5 |-> TRUE, n |-> n, house |-> h]

\* The power failed when this had been written in part.
Torn(f) == [f EXCEPT !.md5 = FALSE, !.house = Free]

\* memory_from_ini: the users in the order of their sections, as many as are counted.
Loaded(f) ==
    LET Section(i) == CHOOSE j \in Carded(f.house) :
                            Cardinality({k \in Carded(f.house) : k <= j}) = i
    IN  [i \in Slots |->
            IF i > f.n THEN Empty
            ELSE IF i > Cardinality(Carded(f.house)) THEN Ghost
            ELSE f.house[Section(i)]]

\* A mistake for comparison: the MD5 sum is not looked at.
ValidVersion(f) == f.version

\* storage_check.
Valid(f) == f.version /\ f.md5

\* The table that a restart brings back from this flash.
Restarted(f) == IF Valid(f) THEN Loaded(f) ELSE Factory

\* A call between its checks and its change; the calls about another user know his name.
\* A password that has been checked does not count: it disturbs nobody.
Others == {"del", "edit"}
Calling == Others \cup {"add", "reset"}
Storing == {"count", "collect", "read", "write"}
Writers == {c \in Clients : at[c] = "write"}

\* Nobody else is in the middle of a store, or of a call that may change the table.
Undisturbed(c) == \A d \in Clients \ {c} : at[d] \notin Calling \cup Storing

----------------------------------------------------------------------------
Init ==
    /\ house = Free /\ nUser = 0
    /\ at = [c \in Clients |-> "idle"]
    /\ who = [c \in Clients |-> Super] /\ what = [c \in Clients |-> ""]
    /\ count = [c \in Clients |-> 0]
    /\ temp = Blank /\ buf = [c \in Clients |-> Blank]
    /\ flash = Blank
    /\ up = FALSE
    /\ kept = Factory /\ clashed = FALSE
    /\ changes = 0 /\ crashes = 0

Go(c, place) == at' = [at EXCEPT ![c] = place]

\* USRM_logout frees the handle.
Forget(c) == who' = [who EXCEPT ![c] = Super]
Name(c, name) == what' = [what EXCEPT ![c] = name]

\* USRM_login, by whoever knows a password; the super user's is asked for on the web.
Login(c) ==
    /\ up /\ c # Main /\ at[c] = "idle"
    /\ \E i \in Carded(house) \cup (IF c \in Webs THEN {Super} ELSE {}) :
            who' = [who EXCEPT ![c] = i]
    /\ Go(c, "in")
    /\ UNCHANGED <<table, what, files, up, history>>

\* USRM_logout after the request was refused: by a check, or because there is no room, or
\* nobody of that name.
Logout(c) ==
    /\ \/ at[c] \in {"in", "checked", "add"}
       \/ at[c] \in Others /\ \A i \in Carded(house) : house[i].name # what[c]
    /\ Go(c, "idle") /\ Name(c, "") /\ Forget(c)
    /\ UNCHANGED <<table, files, up, history>>

\* The user whose house c's handle points to: by now this may be another.
Me(c) == house[who[c]]
LoggedIn(c) == at[c] = "in" /\ who[c] # Super /\ Me(c) # Empty

\* A mistake for comparison: an administrator may delete himself.
CheckAnyAdmin(c) ==
    /\ c \in Webs /\ LoggedIn(c) /\ Me(c).admin
    /\ \E n \in Names, place \in {"add", "del", "edit"} : Name(c, n) /\ Go(c, place)
    /\ UNCHANGED <<table, who, files, up, history>>

\* What usrm_add_user, usrm_del_user and usrm_edit_user ask of the caller before they call
\* USRM_add_user and the others: an administrator, and not the one to be deleted or edited.
CheckAdmin(c) ==
    /\ c \in Webs /\ LoggedIn(c) /\ Me(c).admin
    /\ \/ Go(c, "add") /\ UNCHANGED what
       \/ \E n \in Names \ {Me(c).name}, place \in Others : Name(c, n) /\ Go(c, place)
    /\ UNCHANGED <<table, who, files, up, history>>

\* A change of the table by c, which goes on to store it.
Changed(c) ==
    /\ changes < MaxChanges /\ changes' = changes + 1
    /\ clashed' = (clashed \/ ~Undisturbed(c))
    /\ Go(c, "count") /\ Name(c, "")
    /\ UNCHANGED <<who, files, up, kept, crashes>>

AddUser(c) ==
    /\ at[c] = "add"
    /\ nUser < Houses
    /\ \E u \in User, i \in Slots \ Carded(house) :
            /\ \A j \in Carded(house) : house[j].name # u.name
            /\ \A j \in Slots \ Carded(house) : i <= j
            /\ house' = [house EXCEPT ![i] = u]
    /\ nUser' = nUser + 1
    /\ Changed(c)

DelUser(c) ==
    /\ at[c] = "del"
    /\ \E i \in Carded(house) :
            /\ house[i].name = what[c]
            /\ house' = [house EXCEPT ![i] = Empty]
    /\ nUser' = nUser - 1
    /\ Changed(c)

EditUser(c) ==
    /\ at[c] = "edit"
    /\ \E i \in Carded(house), a \in BOOLEAN :
            /\ house[i].name = what[c]
            /\ house' = [house EXCEPT ![i].admin = a]
    /\ Changed(c) /\ UNCHANGED nUser

\* usrm_set_password: the old password is right ...
CheckPassword(c) ==
    /\ LoggedIn(c)
    /\ Go(c, "checked")
    /\ UNCHANGED <<table, who, what, files, up, history>>

\* The password is written to the house of c's handle, if anybody lives there.
PasswordSet(c) ==
    \E p \in Passwords :
        house' = IF Me(c) = Empty THEN house ELSE [house EXCEPT ![who[c]].password = p]

\* A mistake for comparison: the caller forgets USRM_store.
SetPasswordUnstored(c) ==
    /\ at[c] = "checked"
    /\ PasswordSet(c)
    /\ changes < MaxChanges /\ changes' = changes + 1
    /\ Go(c, "idle") /\ Forget(c)
    /\ UNCHANGED <<nUser, what, files, up, kept, clashed, crashes>>

\* ... and then the new one is written, whoever lives there by now.
SetPassword(c) ==
    /\ at[c] = "checked"
    /\ PasswordSet(c)
    /\ Changed(c) /\ UNCHANGED nUser

\* storage_reset, for the super user on the web (WEB_CGI_user_reset) and for the reset
\* key (reset_default_factory_by_key).
StartReset(c) ==
    /\ \/ c \in Webs /\ at[c] = "in" /\ who[c] = Super
       \/ c = Main /\ at[c] = "idle" /\ up
    /\ Go(c, "reset")
    /\ UNCHANGED <<table, who, what, files, up, history>>

ResetTable(c) ==
    /\ at[c] = "reset"
    /\ house' = Factory /\ nUser' = 1
    /\ Changed(c)

----------------------------------------------------------------------------
\* USRM_store.  memory_to_ini: the file is emptied and the count is read.
ClearTemp(c) ==
    /\ at[c] = "count"
    /\ temp' = Blank
    /\ count' = [count EXCEPT ![c] = nUser]
    /\ Go(c, "collect")
    /\ UNCHANGED <<table, who, what, buf, flash, up, history>>

\* The users' sections are put together and the file is written.
WriteTemp(c) ==
    /\ at[c] = "collect"
    /\ temp' = FileOf(count[c], house)
    /\ count' = [count EXCEPT ![c] = 0]
    /\ Go(c, "read")
    /\ UNCHANGED <<table, who, what, buf, flash, up, history>>

\* storage_store: the MD5 sum is that of what is read, whatever it is.
ReadTemp(c) ==
    /\ at[c] = "read"
    /\ buf' = [buf EXCEPT ![c] = temp]
    /\ Go(c, "write")
    /\ UNCHANGED <<table, who, what, count, temp, flash, up, history>>

\* The request is answered and its client logged out; after a reset the program ends.
WriteFlash(c) ==
    /\ at[c] = "write"
    /\ flash' = buf[c] /\ buf' = [buf EXCEPT ![c] = Blank]
    /\ kept' = house
    /\ Go(c, IF up /\ who[c] = Super THEN "exit" ELSE "idle")
    /\ up' = TRUE
    /\ Forget(c)
    /\ UNCHANGED <<table, what, count, temp, clashed, changes, crashes>>

----------------------------------------------------------------------------
\* What the flash holds if everything ends now.
Remains == {flash} \cup UNION {{buf[c], Torn(buf[c])} : c \in Writers}

\* The program is no more; the files in memory are read by nobody before they are
\* written.
Stop ==
    /\ flash' \in Remains
    /\ up' = FALSE
    /\ at' = [c \in Clients |-> "idle"]
    /\ who' = [c \in Clients |-> Super] /\ what' = [c \in Clients |-> ""]
    /\ count' = [c \in Clients |-> 0]
    /\ temp' = Blank /\ buf' = [c \in Clients |-> Blank]
    /\ house' = Free /\ nUser' = 0
    /\ UNCHANGED <<kept, clashed, changes>>

\* The power fails, or the super user asks for anything but a reset: his handle's house
\* is NULL; or a user who may not, or nobody, asks for a reset: WEB_CGI_user_reset calls
\* exit whatever came of it.
Crash ==
    /\ up \/ at[Main] # "idle"
    /\ crashes < MaxCrashes /\ crashes' = crashes + 1
    /\ Stop

Exit(c) ==
    /\ at[c] = "exit"
    /\ Stop /\ UNCHANGED crashes

\* USRM_init: the table on the flash, or else the factory's, which is stored.
Boot ==
    /\ ~up /\ at[Main] = "idle"
    /\ temp' = flash
    /\ \/ /\ Valid(flash)
          /\ house' = Loaded(flash) /\ nUser' = flash.n
          /\ up' = TRUE
          /\ UNCHANGED <<at, clashed>>
       \/ /\ ~Valid(flash)
          /\ house' = Factory /\ nUser' = 1
          /\ Go(Main, "count")
          /\ clashed' = FALSE
          /\ UNCHANGED up
    /\ kept' = house'
    /\ UNCHANGED <<who, what, count, buf, flash, changes, crashes>>

----------------------------------------------------------------------------
Request(c) ==
    \/ Login(c) \/ Logout(c)
    \/ CheckPassword(c) \/ SetPassword(c)
    \/ CheckAdmin(c) \/ AddUser(c) \/ DelUser(c) \/ EditUser(c)
    \/ StartReset(c) \/ ResetTable(c)
Store(c) == ClearTemp(c) \/ WriteTemp(c) \/ ReadTemp(c) \/ WriteFlash(c)

Next ==
    \/ \E c \in Clients : Request(c) \/ Store(c) \/ Exit(c)
    \/ Crash
    \/ Boot

Spec == Init /\ [][Next]_vars

----------------------------------------------------------------------------
Running == up \/ at[Main] # "idle"

\* As long as no two calls that change or store the table overlap, it always has an
\* administrator, no two users have one name, and n_user counts the users: whatever is
\* deleted or edited through handles however old, lost with the power or restored,
\* somebody can manage the camera.  A call begins with its checks: two administrators, or
\* one and the reset key, can lose the last administrator between another's check and its
\* deletion, though no two stores overlap.
TableSound ==
    Running /\ ~clashed =>
        /\ \E i \in Slots : house[i].admin
        /\ \A i, j \in Carded(house) : house[i].name = house[j].name => i = j
        /\ nUser = Cardinality(Carded(house))

\* As long as no two such calls overlap, a power failure brings back the table as it was
\* stored last, unless one is being written: then it brings back the new one or, if the
\* write is cut in two, the factory's.  It never brings back a mixture.
AllOrNothing ==
    Running /\ ~clashed =>
        \A f \in Remains :
            Restarted(f) \in {Restarted(FileOf(Cardinality(Carded(h)), h)) :
                                h \in {kept} \cup (IF Writers = {} THEN {} ELSE {house, Factory})}

\* As long as no two such calls overlap, the flash (for the next start) and the file in
\* memory (for the page with the list of users) hold the table when nobody is storing: no
\* change is forgotten.
UpToDate ==
    up /\ ~clashed /\ (\A c \in Clients : at[c] \notin Storing) =>
        \A f \in {flash, temp} :
            Valid(f) /\ Loaded(f) = Loaded(FileOf(Cardinality(Carded(house)), house))
============================================================================
