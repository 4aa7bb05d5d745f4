--------------------------- MODULE MCRuntimeModules ---------------------------
(* A small instance of RuntimeModules for TLC. *)
EXTENDS RuntimeModules

CONSTANTS v1, v2, gpu, audio, net, default, gl, vk

\* VMs, modules and the backends other than the default one are alike.
Symmetry ==
    {p @@ q @@ r : p \in Permutations(VMs),
                   q \in Permutations(ModuleNames),
                   r \in Permutations({gl, vk})}
=============================================================================
