--------------------------- MODULE MCTarballProxy ---------------------------
\* A download of a tarball and a request for metadata, beside an upload.
EXTENDS TarballProxy, TLC
=============================================================================
