------------------------------- MODULE Layout -------------------------------
(***************************************************************************)
(* The bytes of a page: how many records of a table, or keys of an index,  *)
(* go on one, and the header IxFileHdr writes out field by field.          *)
(***************************************************************************)
EXTENDS Integers, Sequences

PAGE_SIZE == 4096
BITMAP_WIDTH == 8
RM_MAX_RECORD_SIZE == 512
IX_MAX_COL_LEN == 512
RM_NO_PAGE == -1
IX_NO_PAGE == -1
IX_INIT_ROOT_PAGE == 2
IX_INIT_NUM_PAGES == 3

\* sizeof: five, two and six ints (IxPageHdr::is_leaf is padded), two for a Rid.
SizeofRmFileHdr == 20
SizeofRmPageHdr == 8
SizeofIxPageHdr == 24
SizeofRid == 8
OFFSET_PAGE_HDR == 4

\* Mutant: the bitmap is not counted.
RecordsWithoutBitmap(record_size) == (PAGE_SIZE - 1 - SizeofRmFileHdr) \div record_size

num_records_per_page(record_size) ==
  (BITMAP_WIDTH * (PAGE_SIZE - 1 - SizeofRmFileHdr) + 1) \div (1 + record_size * BITMAP_WIDTH)

bitmap_size(records) == (records + BITMAP_WIDTH - 1) \div BITMAP_WIDTH

RmFileHdr(record_size) ==
  [record_size |-> record_size,
   num_pages |-> 1,
   num_records_per_page |-> num_records_per_page(record_size),
   first_free_page_no |-> RM_NO_PAGE,
   bitmap_size |-> bitmap_size(num_records_per_page(record_size))]

\* Page 0 of a table, written and read as one struct.
RmHdrWords(h) ==
  <<h.record_size, h.num_pages, h.num_records_per_page, h.first_free_page_no, h.bitmap_size>>
RmHdrOf(s) ==
  [record_size |-> s[1], num_pages |-> s[2], num_records_per_page |-> s[3],
   first_free_page_no |-> s[4], bitmap_size |-> s[5]]

\* RmPageHandle: the last slot of a page ends before the page does.
RecordsFit(hdr) ==
  OFFSET_PAGE_HDR + SizeofRmPageHdr + hdr.bitmap_size
    + hdr.num_records_per_page * hdr.record_size <= PAGE_SIZE

\* Every record of a page has a bit of its own.
BitsSuffice(hdr) ==
  0 < hdr.num_records_per_page /\ hdr.num_records_per_page <= BITMAP_WIDTH * hdr.bitmap_size
-----------------------------------------------------------------------------
btree_order(col_tot_len) ==
  (PAGE_SIZE - SizeofIxPageHdr) \div (col_tot_len + SizeofRid) - 1

\* lens and types are those of the columns, in the order of the key.
IxFileHdr(types, lens, col_tot_len) ==
  LET order == btree_order(col_tot_len) IN
  [first_free_page_no |-> IX_NO_PAGE, num_pages |-> IX_INIT_NUM_PAGES,
   root_page |-> IX_INIT_ROOT_PAGE, col_num |-> Len(lens),
   col_types |-> types, col_lens |-> lens,
   col_tot_len |-> col_tot_len, btree_order |-> order,
   keys_size |-> (order + 1) * col_tot_len,
   first_leaf |-> IX_INIT_ROOT_PAGE, last_leaf |-> IX_INIT_ROOT_PAGE,
   tot_len |-> 4 * 4 + 4 * 6 + (4 + 4) * Len(lens)]

\* IxNodeHandle: keys after the page header, rids after keys_size bytes, with
\* the slot to spare that an insertion into a full node takes.
KeysFit(hdr) ==
  SizeofIxPageHdr + hdr.keys_size + (hdr.btree_order + 1) * SizeofRid <= PAGE_SIZE

\* The assertion of IxManager::create_index.
OrderSuffices(hdr) == hdr.btree_order > 2

\* The header as the sequence of its words.
serialize(h) ==
  <<h.tot_len, h.first_free_page_no, h.num_pages, h.root_page, h.col_num>>
    \o h.col_types \o h.col_lens
    \o <<h.col_tot_len, h.btree_order, h.keys_size, h.first_leaf, h.last_leaf>>

deserialize(s) ==
  LET n == s[5] IN
  [tot_len |-> s[1], first_free_page_no |-> s[2], num_pages |-> s[3], root_page |-> s[4],
   col_num |-> n, col_types |-> SubSeq(s, 6, n + 5), col_lens |-> SubSeq(s, n + 6, 2 * n + 5),
   col_tot_len |-> s[2 * n + 6], btree_order |-> s[2 * n + 7], keys_size |-> s[2 * n + 8],
   first_leaf |-> s[2 * n + 9], last_leaf |-> s[2 * n + 10]]
=============================================================================
