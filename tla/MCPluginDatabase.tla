-------------------------- MODULE MCPluginDatabase --------------------------
\* Two servers that share a store, with two calls about two names.
EXTENDS PluginDatabase, TLC

MCSetups == {<<"s3", FALSE>>, <<"google", FALSE>>, <<"memory", TRUE>>, <<"tokens", FALSE>>,
              <<"local", FALSE>>}

Symmetry == Permutations(Call) \cup Permutations(Name) \cup Permutations(Process)
=============================================================================
