-------------------------- MODULE MCPackagePublish --------------------------
(* Small instances of PackagePublish: who is told to do what.                *)
EXTENDS PackagePublish

To(operation, output) ==
    [operation |-> operation, output |-> output, directory |-> "a"]

(* Two builds or assemblies race for one output path, or a package is        *)
(* published while another process archives it.                              *)
Pairs ==
    {<<To("build", "a"), To("build", "a")>>, <<To("build", "a"), To("assemble", "a")>>,
     <<To("assemble", "a"), To("archive", "z")>>, <<To("build", "a"), To("archive", "z")>>}

(* A package is published, and one or two processes archive it.              *)
BuildArchive == {<<To("build", "a"), To("archive", "z")>>}
BuildArchiveArchive == {<<To("build", "a"), To("archive", "z"), To("archive", "z")>>}

(* With the last version of every file, the archive is too large.            *)
HeavyPackages == {[asset \in Assets |-> MaxVersion]}
=============================================================================
