---------------------------- MODULE PluginTrust ----------------------------
(***************************************************************************)
(* The plugins a deployment declares: signing and verifying their packages *)
(* (plugins/signing.py), loading them (plugins/sdk.py, load_declared_      *)
(* plugins) and what they register (plugins/registration.py).              *)
(*                                                                         *)
(* Packages are edited, copied and signed while Runtimes start. A start    *)
(* checks the whole set before it imports any of it.                       *)
(*                                                                         *)
(* A package's files are one content; a signature is kept with what it     *)
(* says and the key that made it. Cryptography is left out.                *)
(***************************************************************************)
EXTENDS Naturals, Sequences, FiniteSets

CONSTANTS
  DomainPlugins,  \* domain_plugins: the references in order
  PackageOf,         \* [reference -> its package]
  TrustedPackages,   \* the packages under security.trusted_plugin_prefixes
  PublisherKeys,     \* [trusted publisher -> its keys]
  Signers,           \* <<publisher, key>> that sign
  Registers,         \* [reference -> [content -> the components it registers, in order]]
  RuntimeComponents, \* the components that are there before
  PluginContents,    \* contents of a package
  MaxEdits           \* bound: edits, copies and signings

Packages == {PackageOf[n] : n \in DOMAIN PackageOf}
References == {DomainPlugins[i] : i \in DOMAIN DomainPlugins}

\* There is something to load, and each reference once (orchestration/container.py, declared_plugin_names).
ASSUME PluginConstants ==
  /\ References \subseteq DOMAIN PackageOf /\ References \subseteq DOMAIN Registers
  /\ TrustedPackages \subseteq Packages
  /\ Len(DomainPlugins) \in Nat \ {0} /\ DOMAIN DomainPlugins = 1..Len(DomainPlugins)
  /\ \A i, j \in DOMAIN DomainPlugins : DomainPlugins[i] = DomainPlugins[j] => i = j
  /\ PluginContents # {}
  /\ \A n \in References : \A c \in PluginContents : Registers[n][c] \in Seq(STRING)

VARIABLES
  signing,     \* plugins: "off", "optional" or "required"
  content,     \* [Packages -> the files]
  signature,   \* [Packages -> the signature file]
  edits,
  signings,    \* not read by the code: everything that was signed
  loader,      \* the start under way
  verified,    \* [References -> what PluginLoader._verified holds]
  owners       \* [components registered -> who did]

pluginVars == <<signing, content, signature, edits, signings, loader, verified, owners>>

-----------------------------------------------------------------------------
NoSignature == [publisher |-> "none", key |-> "none", package |-> "none", files |-> "none"]
Unchecked == [outcome |-> "unchecked", by |-> NoSignature]
LoaderDown == [at |-> "down", next |-> 1, part |-> 1, imported |-> {}]

PluginInit ==
  /\ signing \in {"off", "optional", "required"}
  /\ content = [p \in Packages |-> CHOOSE c \in PluginContents : TRUE]
  /\ signature = [p \in Packages |-> NoSignature]
  /\ edits = 0 /\ signings = {}
  /\ loader = LoaderDown
  /\ verified = [n \in References |-> Unchecked]
  /\ owners = [c \in RuntimeComponents |-> "runtime"]

\* The files as package_files finds them.
PackageFiles(p) == content[p]

SigningEnabled == signing # "off"

Editing == edits < MaxEdits /\ edits' = edits + 1 /\ UNCHANGED <<signing, loader, verified, owners>>

EditPackage(p) ==
  /\ Editing
  /\ \E c \in PluginContents \ {content[p]} : content' = [content EXCEPT ![p] = c]
  /\ UNCHANGED <<signature, signings>>

\* A package is started from another one, its signature file with it.
CopyPackage(p, q) ==
  /\ Editing
  /\ content' = [content EXCEPT ![q] = content[p]]
  /\ signature' = [signature EXCEPT ![q] = signature[p]]
  /\ UNCHANGED signings

\* sign_package: the digest of every file, under the package's name.
SignPackage(p, s) ==
  LET document == [publisher |-> s[1], key |-> s[2], package |-> p, files |-> PackageFiles(p)] IN
  /\ Editing
  /\ signature' = [signature EXCEPT ![p] = document]
  /\ signings' = signings \cup {document}
  /\ UNCHANGED content

-----------------------------------------------------------------------------
KnownPublisher(d) == d.publisher \in DOMAIN PublisherKeys

\* The signature is of this package and of the files package_files finds now.
DocumentMatches(d, p) == d.package = p /\ d.files = PackageFiles(p)

\* verify_module.
VerifyModule(p) ==
  LET d == signature[p] IN
  IF d = NoSignature \/ ~KnownPublisher(d)
  THEN IF signing = "required" THEN "refused" ELSE "unsigned"
  ELSE IF DocumentMatches(d, p) /\ d.key \in PublisherKeys[d.publisher] THEN "signed" ELSE "refused"

\* _verify: once for each reference.
Verified(n) ==
  IF ~SigningEnabled THEN [verified EXCEPT ![n].outcome = "unsigned"]
  ELSE IF verified[n].outcome # "unchecked" THEN verified
  ELSE [verified EXCEPT ![n] = [outcome |-> VerifyModule(PackageOf[n]), by |-> signature[PackageOf[n]]]]

LoaderFails == loader' = [loader EXCEPT !.at = "failed"]
UnchangedPackages == UNCHANGED <<signing, content, signature, edits, signings>>

\* is_trusted: the reference is under a trusted prefix.
IsTrusted(n) == PackageOf[n] \in TrustedPackages

\* authorize, first the namespace of every reference.
AuthorizeNames ==
  /\ loader.at = "down"
  /\ IF \A n \in References : IsTrusted(n)
     THEN loader' = [loader EXCEPT !.at = "verify"] ELSE LoaderFails
  /\ verified' = [n \in References |-> Unchecked]
  /\ UnchangedPackages /\ UNCHANGED owners

\* The next reference, or the loading of the first.
NextToVerify(i) ==
  IF i < Len(DomainPlugins) THEN [loader EXCEPT !.next = i + 1]
  ELSE [loader EXCEPT !.at = "load", !.next = 1]

\* Then the signature of every reference.
AuthorizeSignature ==
  LET n == DomainPlugins[loader.next] IN
  /\ loader.at = "verify"
  /\ verified' = Verified(n)
  /\ IF Verified(n)[n].outcome = "refused" THEN LoaderFails ELSE loader' = NextToVerify(loader.next)
  /\ UnchangedPackages /\ UNCHANGED owners

\* load_one: the import, then the checks of the manifest it brings; they may fail.
ImportPlugin ==
  LET n == DomainPlugins[loader.next] IN
  /\ loader.at = "load"
  /\ verified' = Verified(n)
  /\ IF Verified(n)[n].outcome = "refused" THEN LoaderFails
     ELSE \E fits \in BOOLEAN :
            loader' = [loader EXCEPT !.imported = @ \cup {<<n, content[PackageOf[n]]>>}, !.part = 1,
                                     !.at = IF fits THEN "register" ELSE "failed"]
  /\ UnchangedPackages /\ UNCHANGED owners

\* GuardedRegistry and the registrars: a name that is there refuses the start.
Taken(c) == c \in DOMAIN owners

\* ComponentSources: who registered what.
RecordSource(c, n) == [x \in DOMAIN owners \cup {c} |-> IF x = c THEN n ELSE owners[x]]

RegisterComponent ==
  LET n == DomainPlugins[loader.next]
      parts == Registers[n][CHOOSE c \in PluginContents : <<n, c>> \in loader.imported]
      c == parts[loader.part]
  IN /\ loader.at = "register"
     /\ IF loader.part > Len(parts)
        THEN /\ loader' = IF loader.next < Len(DomainPlugins)
                          THEN [loader EXCEPT !.next = @ + 1, !.at = "load"] ELSE [loader EXCEPT !.at = "up"]
             /\ UNCHANGED owners
        ELSE IF Taken(c) THEN LoaderFails /\ UNCHANGED owners
        ELSE /\ owners' = RecordSource(c, n)
             /\ loader' = [loader EXCEPT !.part = @ + 1]
     /\ UnchangedPackages /\ UNCHANGED verified

\* Another process starts; it has imported nothing and registered nothing.
RestartLoader ==
  /\ loader.at \in {"up", "failed"}
  /\ loader' = LoaderDown
  /\ owners' = [c \in RuntimeComponents |-> "runtime"]
  /\ verified' = [n \in References |-> Unchecked]
  /\ UnchangedPackages

PluginNext ==
  \/ \E p \in Packages : EditPackage(p) \/ (\E s \in Signers : SignPackage(p, s))
  \/ \E p, q \in Packages : p # q /\ CopyPackage(p, q)
  \/ AuthorizeNames \/ AuthorizeSignature \/ ImportPlugin \/ RegisterComponent \/ RestartLoader

PluginSpec == PluginInit /\ [][PluginNext]_pluginVars

-----------------------------------------------------------------------------
\* The types of the packages and the loader.
PluginTypeOK ==
  /\ \A p \in Packages : content[p] \in PluginContents
  /\ loader.at \in {"down", "verify", "load", "register", "up", "failed"}
  /\ loader.imported \subseteq References \X PluginContents
  /\ \A n \in References : verified[n].outcome \in {"unchecked", "unsigned", "signed", "refused"}

\* Nothing of a set of plugins is imported before every one of them was found trusted, and signed
\* where that is required, while packages are edited, copied and signed (PluginLoader.authorize).
WholeSetFirst ==
  loader.imported # {} =>
    \A n \in References :
      /\ IsTrusted(n)
      /\ verified[n].outcome \in (IF signing = "required" THEN {"signed"} ELSE {"signed", "unsigned"})

\* A verified signature was made by a key of the publisher it names, for this very package: not
\* for one it was copied from, and not for what the files were before (verify_module).
SignedForIt ==
  \A n \in References : verified[n].outcome = "signed" =>
    /\ verified[n].by \in signings
    /\ verified[n].by.package = PackageOf[n]
    /\ verified[n].by.key \in PublisherKeys[verified[n].by.publisher]

\* A Runtime that is up has imported every plugin, and each component is the one of the plugin that
\* declared it; what the Runtime had is still its own (GuardedRegistry, load_declared_plugins).
UpIsComplete ==
  loader.at = "up" =>
    /\ \A n \in References : \E c \in PluginContents : <<n, c>> \in loader.imported
    /\ \A c \in RuntimeComponents : owners[c] = "runtime"
    /\ \A m \in loader.imported :
         \A i \in DOMAIN Registers[m[1]][m[2]] : owners[Registers[m[1]][m[2]][i]] = m[1]

\* No plugin is imported before the whole set was found signed for what it is, and a Runtime that is up
\* has every plugin, none in the place of another.
PluginSafe == PluginTypeOK /\ WholeSetFirst /\ SignedForIt /\ UpIsComplete
=============================================================================
